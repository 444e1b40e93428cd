----------------------- MODULE ReadoutAssemblerProofs -----------------------
(***************************************************************************)
(* Theorems about ReadoutAssembler, for every number of modules, every     *)
(* readout_tw, buffer_time and buffer_length and every set of datagrams.   *)
(***************************************************************************)
EXTENDS ReadoutAssembler, NumberLemmas, SequenceTheorems, TLAPS

\* What DequeAppend does: k elements (none or one) leave at the front, the
\* others keep their order, and the new one is last.
LEMMA DequeAppendProperties ==
  ASSUME NEW S, NEW d \in Seq(S), NEW m \in S
  PROVE  /\ DequeAppend(d, m) \in Seq(S)
         /\ DequeAppend(d, m) # << >>
         /\ \E k \in 0 .. 1 :
              /\ k <= Len(d)
              /\ k = 1 => Len(d) >= BufferLen
              /\ Len(DequeAppend(d, m)) = Len(d) + 1 - k
              /\ \A i \in 1 .. Len(d) - k : DequeAppend(d, m)[i] = d[i + k]
              /\ DequeAppend(d, m)[Len(d) + 1 - k] = m
<1>1. CASE Len(d) < BufferLen
  BY <1>1, AppendProperties, BufferLenAssumption DEF DequeAppend
<1>2. CASE ~ (Len(d) < BufferLen)
  <2>1. d # << >> /\ Len(d) \in Nat /\ Len(d) >= 1
    BY <1>2, BufferLenAssumption, EmptySeq
  <2>2. /\ Tail(d) \in Seq(S)
        /\ Len(Tail(d)) = Len(d) - 1
        /\ \A i \in 1 .. Len(d) - 1 : Tail(d)[i] = d[i + 1]
    BY <2>1, HeadTailProperties
  <2>3. DequeAppend(d, m) = Append(Tail(d), m)
    BY <1>2 DEF DequeAppend
  <2>4. /\ Append(Tail(d), m) \in Seq(S)
        /\ Append(Tail(d), m) # << >>
        /\ Len(Append(Tail(d), m)) = Len(d)
        /\ \A i \in 1 .. Len(d) - 1 : Append(Tail(d), m)[i] = Tail(d)[i]
        /\ Append(Tail(d), m)[Len(d)] = m
    BY <2>1, <2>2, AppendProperties
  <2>5. DequeAppend(d, m) \in Seq(S) /\ DequeAppend(d, m) # << >>
    BY <2>3, <2>4
  <2> DEFINE P(k) == /\ k <= Len(d)
                     /\ k = 1 => Len(d) >= BufferLen
                     /\ Len(DequeAppend(d, m)) = Len(d) + 1 - k
                     /\ \A i \in 1 .. Len(d) - k : DequeAppend(d, m)[i] = d[i + k]
                     /\ DequeAppend(d, m)[Len(d) + 1 - k] = m
  <2>6. P(1)
    BY <2>1, <2>2, <2>3, <2>4, <1>2, BufferLenAssumption
  <2>7. \E k \in 0 .. 1 : P(k)
    <3>1. 1 \in 0 .. 1
      OBVIOUS
    <3>2. QED
      BY <2>6, <3>1
  <2>8. QED
    BY <2>5, <2>7
<1>3. QED
  BY <1>1, <1>2

-----------------------------------------------------------------------------
(* The invariant of the deque *)

\* The time of a packet in the buffer
LEMMA TackType ==
  ASSUME NEW d \in Seq(MatchedPacketType), NEW i \in 1 .. Len(d)
  PROVE  d[i].tack \in Nat
<1>1. d[i] \in MatchedPacketType
  OBVIOUS
<1>2. QED
  BY <1>1 DEF MatchedPacketType

\* In a deque that is spread, the newest is the latest.
LEMMA ExpiredMeansOlder ==
  ASSUME NEW d \in Seq(MatchedPacketType), d # << >>, Spread(d)
  PROVE  /\ Newest(d).tack \in Nat /\ Oldest(d).tack \in Nat
         /\ Newest(d).tack >= Oldest(d).tack
         /\ Expired(d) <=> Newest(d).tack - Oldest(d).tack > BufferTime
<1>1. Len(d) \in Nat /\ Len(d) >= 1
  BY EmptySeq
<1>2. d[1] \in MatchedPacketType /\ d[Len(d)] \in MatchedPacketType
  BY <1>1
<1>3. d[1].tack \in Nat /\ d[Len(d)].tack \in Nat
  BY <1>2 DEF MatchedPacketType
<1>4. d[Len(d)].tack - d[1].tack >= (Len(d) - 1) * ReadoutTw
  BY <1>1 DEF Spread
<1>5. (Len(d) - 1) * ReadoutTw >= 0
  BY <1>1, ReadoutTwAssumption
<1>6. d[Len(d)].tack >= d[1].tack
  BY <1>1, <1>3, <1>4, <1>5, ReadoutTwAssumption
<1>7. QED
  BY <1>3, <1>6, BufferTimeAssumption DEF Newest, Oldest, Expired, Abs

\* A new partial readout.
LEMMA MatchedPacketProperties ==
  ASSUME NEW p \in Packet, p.tacks # << >>
  PROVE  /\ MatchedPacket(p) \in MatchedPacketType
         /\ MatchedPacket(p).tack = p.tacks[1]
         /\ InWindow(MatchedPacket(p))
<1>1. p.tm \in TM /\ p.tacks \in Seq(Nat)
  BY DEF Packet
<1>2. Len(p.tacks) \in Nat \ {0} /\ p.tacks[1] \in Nat
  BY <1>1, EmptySeq
<1>3. << >> \in Seq(Nat)
  BY EmptySeq
<1>4. MatchedPacket(p) \in MatchedPacketType
  BY <1>1, <1>2, <1>3 DEF MatchedPacket, MatchedPacketType
<1>5. Tms(MatchedPacket(p)) = {p.tm}
  BY <1>1 DEF Tms, MatchedPacket
<1>6. MatchedPacket(p).data[p.tm] = p.tacks /\ MatchedPacket(p).tack = p.tacks[1]
  BY <1>1 DEF MatchedPacket
<1>7. Abs(p.tacks[1] - p.tacks[1]) < ReadoutTw
  BY <1>2, ReadoutTwAssumption DEF Abs
<1>8. InWindow(MatchedPacket(p))
  BY <1>5, <1>6, <1>7 DEF InWindow
<1>9. QED
  BY <1>4, <1>6, <1>8

\* Adding a part to a partial readout it is close to.
LEMMA AddPartProperties ==
  ASSUME NEW m \in MatchedPacketType, InWindow(m),
         NEW p \in Packet, p.tacks # << >>,
         Abs(m.tack - p.tacks[1]) < ReadoutTw
  PROVE  /\ AddPart(m, p) \in MatchedPacketType
         /\ AddPart(m, p).tack = m.tack
         /\ InWindow(AddPart(m, p))
<1>1. p.tm \in TM /\ p.tacks \in Seq(Nat) /\ p.tacks[1] \in Nat
  BY EmptySeq DEF Packet
<1>2. m.data \in [TM -> Seq(Nat)] /\ m.tack \in Nat
  BY DEF MatchedPacketType
<1>3. /\ AddPart(m, p) \in MatchedPacketType
      /\ AddPart(m, p).tack = m.tack
      /\ AddPart(m, p).data = [m.data EXCEPT ![p.tm] = p.tacks]
  BY <1>1, <1>2 DEF AddPart, MatchedPacketType
<1>4. Tms(AddPart(m, p)) = Tms(m) \cup {p.tm}
  BY <1>1, <1>2, <1>3 DEF Tms
<1>5. ASSUME NEW t \in Tms(AddPart(m, p))
      PROVE  Abs(AddPart(m, p).data[t][1] - m.tack) < ReadoutTw
  <2>1. CASE t = p.tm
    <3>1. AddPart(m, p).data[t] = p.tacks
      BY <2>1, <1>1, <1>2, <1>3
    <3>2. Abs(p.tacks[1] - m.tack) < ReadoutTw
      BY <1>1, <1>2, ReadoutTwAssumption DEF Abs
    <3>3. QED
      BY <3>1, <3>2
  <2>2. CASE t # p.tm
    <3>1. t \in Tms(m) /\ AddPart(m, p).data[t] = m.data[t]
      BY <2>2, <1>1, <1>2, <1>3, <1>4 DEF Tms
    <3>2. QED
      BY <3>1 DEF InWindow
  <2>3. QED
    BY <2>1, <2>2
<1>6. QED
  BY <1>3, <1>4, <1>5 DEF InWindow
\* Appending a later partial readout to a deque within buffer_time.
LEMMA AppendKeeps ==
  ASSUME NEW d \in Seq(MatchedPacketType), Spread(d), PartsInWindow(d),
         NEW m \in MatchedPacketType, InWindow(m),
         d # << >> => /\ ~ Expired(d)
                      /\ m.tack - Newest(d).tack >= ReadoutTw
  PROVE  LET e == DequeAppend(d, m)
         IN  /\ e \in Seq(MatchedPacketType) /\ e # << >>
             /\ Spread(e) /\ SpanBounded(e) /\ PartsInWindow(e)
<1> DEFINE e == DequeAppend(d, m)
<1>1. /\ e \in Seq(MatchedPacketType)
      /\ e # << >>
  BY DequeAppendProperties
<1>2. PICK k \in 0 .. 1 :
        /\ k <= Len(d)
        /\ Len(e) = Len(d) + 1 - k
        /\ \A i \in 1 .. Len(d) - k : e[i] = d[i + k]
        /\ e[Len(d) + 1 - k] = m
  BY DequeAppendProperties
<1> HIDE DEF e
<1>3. Len(d) \in Nat /\ k \in Nat /\ ReadoutTw \in Nat /\ ReadoutTw > 0 /\ BufferTime \in Nat
  BY ReadoutTwAssumption, BufferTimeAssumption
<1>4. m.tack \in Nat /\ \A i \in 1 .. Len(d) : d[i].tack \in Nat
  <2>1. m.tack \in Nat
    BY DEF MatchedPacketType
  <2>2. QED
    BY <2>1, TackType
<1>5. ASSUME NEW i \in 1 .. Len(d)
      PROVE  /\ m.tack - d[i].tack >= (Len(d) + 1 - i) * ReadoutTw
             /\ d[i].tack - d[1].tack <= BufferTime
             /\ \A j \in 1 .. i : d[i].tack - d[j].tack >= 0 /\ d[i].tack - d[j].tack <= BufferTime
  <2>1. d # << >> /\ Len(d) >= 1
    BY <1>3, EmptySeq
  <2>2. m.tack - d[Len(d)].tack >= ReadoutTw
    BY <2>1 DEF Newest
  <2>3. d[Len(d)].tack - d[i].tack >= (Len(d) - i) * ReadoutTw
    BY <2>1, <1>3 DEF Spread
  <2>4. (Len(d) - i) * ReadoutTw >= 0 /\ (Len(d) - i) * ReadoutTw + ReadoutTw = (Len(d) + 1 - i) * ReadoutTw
    BY <1>3
  <2>5. d[Len(d)].tack - d[1].tack <= BufferTime
    BY <2>1, ExpiredMeansOlder, <1>3 DEF Newest, Oldest
  <2>6. ASSUME NEW j \in 1 .. i
        PROVE  /\ d[i].tack - d[j].tack >= (i - j) * ReadoutTw
               /\ (i - j) * ReadoutTw >= 0
               /\ d[j].tack - d[1].tack >= (j - 1) * ReadoutTw
               /\ (j - 1) * ReadoutTw >= 0
    BY <1>3, <2>1 DEF Spread
  <2>7. d[i].tack - d[1].tack <= BufferTime
    BY <1>3, <1>4, <2>1, <2>3, <2>4, <2>5
  <2>8. m.tack - d[i].tack >= (Len(d) + 1 - i) * ReadoutTw
    <3> DEFINE A == (Len(d) - i) * ReadoutTw
               B == (Len(d) + 1 - i) * ReadoutTw
    <3>1. A \in Int /\ B \in Int /\ A + ReadoutTw = B
      BY <1>3, <2>4
    <3>2. d[Len(d)].tack - d[i].tack >= A
      BY <2>3
    <3>3. d[i].tack \in Nat /\ d[Len(d)].tack \in Nat
      BY <1>4, <2>1, <1>3
    <3> HIDE DEF A, B
    <3>4. m.tack - d[i].tack >= B
      BY <3>1, <3>2, <3>3, <1>3, <1>4, <2>2
    <3>5. QED
      BY <3>4 DEF B
  <2>9. ASSUME NEW j \in 1 .. i
        PROVE  d[i].tack - d[j].tack >= 0 /\ d[i].tack - d[j].tack <= BufferTime
    <3>1. j \in 1 .. Len(d) /\ 1 \in 1 .. Len(d) /\ i \in 1 .. Len(d)
      BY <1>3
    <3>2. d[i].tack \in Nat /\ d[j].tack \in Nat /\ d[1].tack \in Nat
      BY <3>1, <1>4
    <3> DEFINE A == (i - j) * ReadoutTw
               B == (j - 1) * ReadoutTw
    <3>3. A \in Int /\ B \in Int /\ A >= 0 /\ B >= 0
          /\ d[i].tack - d[j].tack >= A /\ d[j].tack - d[1].tack >= B
      BY <1>3, <2>6
    <3> HIDE DEF A, B
    <3>4. d[i].tack - d[j].tack >= 0 /\ d[j].tack - d[1].tack >= 0
      BY <3>2, <3>3
    <3>5. QED
      BY <3>2, <3>4, <2>7, <1>3
  <2>10. QED
    BY <2>7, <2>8, <2>9
<1>6. Spread(e)
  <2> SUFFICES ASSUME NEW i \in 1 .. Len(e), NEW j \in 1 .. Len(e), i <= j
               PROVE  e[j].tack - e[i].tack >= (j - i) * ReadoutTw
    BY DEF Spread
  <2>1. CASE j < Len(e)
    <3>1. /\ i \in 1 .. Len(d) - k /\ j \in 1 .. Len(d) - k
          /\ i + k \in 1 .. Len(d) /\ j + k \in 1 .. Len(d) /\ i + k <= j + k
      BY <2>1, <1>2, <1>3
    <3>2. e[i] = d[i + k] /\ e[j] = d[j + k]
      BY <3>1, <1>2
    <3>3. d[j + k].tack - d[i + k].tack >= ((j + k) - (i + k)) * ReadoutTw
      BY <3>1 DEF Spread
    <3>4. (j + k) - (i + k) = j - i
      BY <1>2, <1>3
    <3>5. QED
      BY <3>2, <3>3, <3>4
  <2>2. CASE j = Len(e) /\ i < j
    <3>1. /\ i + k \in 1 .. Len(d) /\ e[i] = d[i + k] /\ e[j] = m
          /\ Len(d) + 1 - (i + k) = j - i
      BY <2>2, <1>2, <1>3
    <3>2. m.tack - d[i + k].tack >= (Len(d) + 1 - (i + k)) * ReadoutTw
      BY <3>1, <1>5
    <3>3. QED
      BY <3>1, <3>2
  <2>3. CASE j = i
    <3>1. e[j].tack \in Nat
      BY <1>1, TackType
    <3>2. e[j].tack - e[i].tack = 0 /\ j - i = 0 /\ 0 * ReadoutTw = 0
      BY <2>3, <3>1, <1>3
    <3>3. QED
      BY <3>2
  <2>4. (j < Len(e)) \/ (j = Len(e) /\ i < j) \/ j = i
    BY <1>2, <1>3
  <2>5. QED
    BY <2>1, <2>2, <2>3, <2>4, Zenon
<1>7. SpanBounded(e)
  <2> SUFFICES ASSUME NEW i \in 1 .. Len(e), i < Len(e)
               PROVE  e[i].tack - e[1].tack <= BufferTime
    BY DEF SpanBounded
  <2>1. /\ i + k \in 1 .. Len(d) /\ 1 + k \in 1 .. i + k
        /\ e[i] = d[i + k] /\ e[1] = d[1 + k]
    BY <1>2, <1>3
  <2>2. QED
    BY <2>1, <1>5
<1>8. PartsInWindow(e)
  <2> SUFFICES ASSUME NEW i \in 1 .. Len(e)
               PROVE  InWindow(e[i])
    BY DEF PartsInWindow
  <2>1. CASE i < Len(e)
    <3>1. i + k \in 1 .. Len(d) /\ e[i] = d[i + k]
      BY <2>1, <1>2, <1>3
    <3>2. QED
      BY <3>1 DEF PartsInWindow
  <2>2. CASE i = Len(e)
    BY <2>2, <1>2, <1>3
  <2>3. QED
    BY <2>1, <2>2, <1>2, <1>3
<1>9. QED
  BY <1>1, <1>6, <1>7, <1>8 DEF e
\* Adding a part to the newest partial readout.
LEMMA ExtendKeeps ==
  ASSUME NEW d \in Seq(MatchedPacketType), d # << >>,
         Spread(d), SpanBounded(d), PartsInWindow(d),
         NEW m \in MatchedPacketType, InWindow(m), m.tack = Newest(d).tack
  PROVE  LET e == [d EXCEPT ![Len(d)] = m]
         IN  /\ e \in Seq(MatchedPacketType) /\ e # << >>
             /\ Spread(e) /\ SpanBounded(e) /\ PartsInWindow(e)
<1> DEFINE e == [d EXCEPT ![Len(d)] = m]
<1>1. /\ Len(d) \in Nat /\ Len(d) >= 1
      /\ e \in Seq(MatchedPacketType)
      /\ Len(e) = Len(d)
      /\ \A i \in 1 .. Len(d) : e[i] = IF i = Len(d) THEN m ELSE d[i]
  BY EmptySeq
<1> HIDE DEF e
<1>2. \A i \in 1 .. Len(e) : e[i].tack = d[i].tack
  BY <1>1 DEF Newest
<1>3. Spread(e)
  BY <1>1, <1>2 DEF Spread
<1>4. SpanBounded(e)
  BY <1>1, <1>2 DEF SpanBounded
<1>5. PartsInWindow(e)
  BY <1>1 DEF PartsInWindow
<1>6. e # << >>
  BY <1>1, EmptySeq
<1>7. QED
  BY <1>1, <1>3, <1>4, <1>5, <1>6 DEF e

\* Taking the oldest partial readout when it has expired: there is another.
LEMMA PopKeeps ==
  ASSUME NEW d \in Seq(MatchedPacketType), d # << >>, Expired(d),
         Spread(d), SpanBounded(d), PartsInWindow(d)
  PROVE  /\ Tail(d) \in Seq(MatchedPacketType)
         /\ Tail(d) # << >>
         /\ Newest(Tail(d)) = Newest(d)
         /\ Spread(Tail(d)) /\ SpanBounded(Tail(d)) /\ PartsInWindow(Tail(d))
<1> DEFINE e == Tail(d)
<1>1. /\ Len(d) \in Nat /\ Len(d) >= 1
      /\ e \in Seq(MatchedPacketType)
      /\ Len(e) = Len(d) - 1
      /\ \A i \in 1 .. Len(e) : e[i] = d[i + 1]
  BY EmptySeq, HeadTailProperties
<1> HIDE DEF e
<1>2. Len(d) >= 2
  <2>1. SUFFICES ASSUME Len(d) = 1
                 PROVE  FALSE
    BY <1>1
  <2>2. Newest(d).tack = Oldest(d).tack /\ Oldest(d).tack \in Nat
    BY <2>1, <1>1, TackType DEF Newest, Oldest
  <2>3. QED
    BY <2>2, BufferTimeAssumption DEF Expired, Abs
<1>3. e # << >> /\ Newest(e) = Newest(d)
  BY <1>1, <1>2, EmptySeq DEF Newest
<1>4. \A i \in 1 .. Len(e) : i + 1 \in 1 .. Len(d) /\ e[i] = d[i + 1]
  BY <1>1
<1>5. Spread(e)
  <2> SUFFICES ASSUME NEW i \in 1 .. Len(e), NEW j \in 1 .. Len(e), i <= j
               PROVE  e[j].tack - e[i].tack >= (j - i) * ReadoutTw
    BY DEF Spread
  <2>1. d[j + 1].tack - d[i + 1].tack >= ((j + 1) - (i + 1)) * ReadoutTw
    BY <1>1, <1>4 DEF Spread
  <2>2. (j + 1) - (i + 1) = j - i
    BY <1>1
  <2>3. QED
    BY <1>4, <2>1, <2>2
<1>6. SpanBounded(e)
  <2> SUFFICES ASSUME NEW i \in 1 .. Len(e), i < Len(e)
               PROVE  e[i].tack - e[1].tack <= BufferTime
    BY DEF SpanBounded
  <2>1. d[i + 1].tack - d[1].tack <= BufferTime
    BY <1>1, <1>4 DEF SpanBounded
  <2>2. d[2].tack - d[1].tack >= (2 - 1) * ReadoutTw
    BY <1>1, <1>2 DEF Spread
  <2>3. d[1].tack \in Nat /\ d[2].tack \in Nat /\ d[i + 1].tack \in Nat
    BY <1>1, <1>2, <1>4, TackType
  <2>4. e[1] = d[2] /\ e[i] = d[i + 1]
    BY <1>1, <1>2
  <2>5. (2 - 1) * ReadoutTw = ReadoutTw /\ ReadoutTw \in Nat /\ BufferTime \in Nat
    BY ReadoutTwAssumption, BufferTimeAssumption
  <2>6. d[i + 1].tack - d[2].tack <= BufferTime
    BY <2>1, <2>2, <2>3, <2>5
  <2>7. QED
    BY <2>4, <2>6
<1>7. PartsInWindow(e)
  BY <1>1, <1>4 DEF PartsInWindow
<1>8. QED
  BY <1>1, <1>3, <1>5, <1>6, <1>7 DEF e

-----------------------------------------------------------------------------
(* Assembled readouts *)

\* A partial readout has a lowest module.
LEMMA FirstTmProperties ==
  ASSUME NEW m, Tms(m) # {}
  PROVE  FirstTm(m) \in Tms(m)
<1>1. Tms(m) \subseteq Nat
  BY NTMAssumption DEF Tms, TM
<1>2. PICK t \in Tms(m) : \A u \in Tms(m) : t <= u
  BY <1>1, LeastNumber, Zenon
<1>3. QED
  BY <1>2 DEF FirstTm

\* Readouts are assembled with the next numbers.
LEMMA AssembledType ==
  ASSUME NEW m \in MatchedPacketType, Tms(m) # {}, HasReadouts(m, m.nreadouts),
         readout_count \in Nat \ {0}
  PROVE  /\ AssembleReadouts(m) \in Seq(ReadoutType)
         /\ AssembleReadouts(m) # << >>
         /\ Len(AssembleReadouts(m)) = m.nreadouts
         /\ \A i \in 1 .. m.nreadouts :
              AssembleReadouts(m)[i].iro = readout_count + i - 1
<1>1. m.nreadouts \in Nat \ {0} /\ m.data \in [TM -> Seq(Nat)]
  BY DEF MatchedPacketType
<1>2. ASSUME NEW i \in 1 .. m.nreadouts
      PROVE  /\ Readout(m, i, readout_count + i - 1) \in ReadoutType
             /\ Readout(m, i, readout_count + i - 1).iro = readout_count + i - 1
  <2>1. ASSUME NEW t \in Tms(m)
        PROVE  t \in TM /\ m.data[t][i] \in Nat
    <3>1. t \in TM /\ m.data[t] \in Seq(Nat) /\ i \in 1 .. Len(m.data[t])
      BY <1>1 DEF HasReadouts, Tms
    <3>2. QED
      BY <3>1, ElementOfSeq
  <2>2. m.data[FirstTm(m)][i] \in Nat
    BY <2>1, FirstTmProperties
  <2>3. readout_count + i - 1 \in Nat \ {0}
    BY <1>1
  <2>4. QED
    BY <2>1, <2>2, <2>3 DEF Readout, ReadoutType
<1>3. AssembleReadouts(m) \in Seq(ReadoutType) /\ Len(AssembleReadouts(m)) = m.nreadouts
  BY <1>1, <1>2 DEF AssembleReadouts
<1>4. QED
  BY <1>1, <1>2, <1>3, EmptySeq DEF AssembleReadouts
-----------------------------------------------------------------------------
(* The inductive invariant *)

IInv == TypeOK /\ BufferInv /\ ConsecutiveNumbers

\* The assembler begins right.
LEMMA InitInv == Init => IInv
<1> SUFFICES ASSUME Init
             PROVE  IInv
  OBVIOUS
<1>1. TypeOK
  <2>1. /\ << >> \in Seq(Packet) /\ << >> \in Seq(ReadoutType)
        /\ << >> \in Seq(MatchedPacketType)
    BY EmptySeq
  <2>2. got_packet \in BOOLEAN
    BY DEF Init
  <2>3. QED
    BY <2>1, <2>2 DEF Init, TypeOK
<1>2. Len(<< >>) = 0
  OBVIOUS
<1>3. BufferInv
  BY <1>2 DEF Init, BufferInv, NeverIndexesEmpty, Spread, SpanBounded, PartsInWindow,
              PendingWhilePublishing
<1>4. ConsecutiveNumbers
  BY <1>2 DEF Init, ConsecutiveNumbers
<1>5. QED
  BY <1>1, <1>3, <1>4 DEF IInv

\* Steps of the network and of the put tasks leave the coroutine's state alone.
LEMMA NetworkKeepsInv ==
  ASSUME IInv, Network \/ PutTask
  PROVE  IInv'
<1>1. /\ UNCHANGED <<pc, got_packet, partial_ro_buff, readouts, readout_count, published, taken>>
  BY DEF Network, DatagramReceived, PutTask, buffVars
<1>2. /\ registered' \in Nat
      /\ puts' \in Seq(Packet)
      /\ queue' \in Seq(Packet)
  <2>1. CASE Network
    <3>1. PICK d \in Datagrams : DatagramReceived(d)
      BY <2>1 DEF Network
    <3>2. Accepted(d) => [tm |-> ModuleNr(d), tacks |-> d.tacks] \in Packet
      BY DatagramsAssumption DEF Accepted, Packet, DatagramType
    <3>3. puts' \in Seq(Packet)
      BY <3>1, <3>2, AppendProperties DEF DatagramReceived, IInv, TypeOK
    <3>4. QED
      BY <3>1, <3>3 DEF DatagramReceived, IInv, TypeOK
  <2>2. CASE PutTask
    <3>1. Head(puts) \in Packet /\ Tail(puts) \in Seq(Packet)
      BY <2>2, HeadTailProperties DEF PutTask, IInv, TypeOK
    <3>2. QED
      BY <2>2, <3>1, AppendProperties DEF PutTask, IInv, TypeOK
  <2>3. QED
    BY <2>1, <2>2
<1>3. TypeOK'
  BY <1>1, <1>2 DEF IInv, TypeOK
<1>4. BufferInv'
  BY <1>1 DEF IInv, BufferInv, NeverIndexesEmpty, PendingWhilePublishing
<1>5. ConsecutiveNumbers'
  BY <1>1 DEF IInv, ConsecutiveNumbers
<1>6. QED
  BY <1>3, <1>4, <1>5 DEF IInv

\* The drain touches the queue and its own locals only.
LEMMA DrainKeepsInv ==
  ASSUME IInv, DrainGet \/ DrainTimeout
  PROVE  IInv'
<1>1. /\ UNCHANGED <<registered, puts, partial_ro_buff, readouts, readout_count, published, taken>>
      /\ pc = "drain"
      /\ pc' \in {"drain", "first"}
      /\ got_packet' \in BOOLEAN
  BY DEF DrainGet, DrainTimeout, netVars, buffVars
<1>2. queue' \in Seq(Packet)
  <2>1. CASE DrainGet
    BY <2>1, HeadTailProperties DEF DrainGet, IInv, TypeOK
  <2>2. CASE DrainTimeout
    BY <2>2 DEF DrainTimeout, IInv, TypeOK
  <2>3. QED
    BY <2>1, <2>2
<1>3. TypeOK'
  BY <1>1, <1>2 DEF IInv, TypeOK
<1>4. BufferInv'
  BY <1>1 DEF IInv, BufferInv, NeverIndexesEmpty, PendingWhilePublishing
<1>5. ConsecutiveNumbers'
  BY <1>1 DEF IInv, ConsecutiveNumbers
<1>6. QED
  BY <1>3, <1>4, <1>5 DEF IInv

\* The packet that a get returns.
LEMMA GetType ==
  ASSUME TypeOK, NEW p, Get(p)
  PROVE  /\ p \in Packet
         /\ queue' \in Seq(Packet)
         /\ taken \in Seq(Packet)
         /\ Take(p) => /\ p.tacks # << >>
                       /\ p.tacks[1] \in Nat
                       /\ taken' \in Seq(Packet)
<1>1. queue # << >> /\ p = Head(queue) /\ queue' = Tail(queue)
  BY DEF Get, NextPacket
<1>2. p \in Packet /\ queue' \in Seq(Packet)
  BY <1>1, HeadTailProperties DEF TypeOK
<1>3. taken \in Seq(Packet)
  BY DEF TypeOK
<1>4. ASSUME Take(p)
      PROVE  /\ p.tacks # << >>
             /\ p.tacks[1] \in Nat
             /\ taken' \in Seq(Packet)
  <2>1. p.tacks # << >> /\ taken' = Append(taken, p)
    BY <1>4 DEF Take
  <2>2. p.tacks \in Seq(Nat)
    BY <1>2 DEF Packet
  <2>3. p.tacks[1] \in Nat
    BY <2>1, <2>2, EmptySeq
  <2>4. QED
    BY <1>2, <1>3, <2>1, <2>3, AppendProperties
<1>5. QED
  BY <1>2, <1>3, <1>4
\* The steps that match the packet p: TypeOK and the pending readouts.
LEMMA MatchKeepsInv ==
  ASSUME IInv, NEW p, FirstPacket(p) \/ MatchNewest(p) \/ NewPartial(p)
  PROVE  IInv'
<1>1. /\ Get(p) /\ Take(p)
      /\ UNCHANGED <<registered, puts, got_packet, readouts, readout_count, published>>
      /\ pc \in {"first", "loop"} /\ pc' \in {"loop", "assemble"}
  BY DEF FirstPacket, MatchNewest, NewPartial, Take, netVars
<1>2. /\ p \in Packet /\ p.tacks # << >> /\ p.tacks[1] \in Nat
      /\ queue' \in Seq(Packet) /\ taken' \in Seq(Packet)
  BY <1>1, GetType DEF IInv
<1>3. /\ partial_ro_buff \in Seq(MatchedPacketType)
      /\ Spread(partial_ro_buff)
      /\ SpanBounded(partial_ro_buff)
      /\ PartsInWindow(partial_ro_buff)
      /\ pc = "loop" => partial_ro_buff # << >> /\ ~ Expired(partial_ro_buff)
  BY DEF IInv, TypeOK, BufferInv, NeverIndexesEmpty
<1>4. /\ partial_ro_buff' \in Seq(MatchedPacketType)
      /\ partial_ro_buff' # << >>
      /\ Spread(partial_ro_buff')
      /\ SpanBounded(partial_ro_buff')
      /\ PartsInWindow(partial_ro_buff')
      /\ pc' = "loop" => ~ Expired(partial_ro_buff')
  <2> DEFINE m == MatchedPacket(p)
  <2>1. m \in MatchedPacketType /\ m.tack = p.tacks[1] /\ InWindow(m)
    BY <1>2, MatchedPacketProperties
  <2>2. CASE FirstPacket(p)
    <3>1. partial_ro_buff = << >> /\ partial_ro_buff' = DequeAppend(partial_ro_buff, m)
      BY <2>2 DEF FirstPacket, IInv, BufferInv, NeverIndexesEmpty
    <3>2. /\ partial_ro_buff' \in Seq(MatchedPacketType)
          /\ partial_ro_buff' # << >>
          /\ Spread(partial_ro_buff')
          /\ SpanBounded(partial_ro_buff')
          /\ PartsInWindow(partial_ro_buff')
      BY <1>3, <2>1, <3>1, AppendKeeps
    <3>3. Len(partial_ro_buff') = 1
      <4>1. Len(partial_ro_buff) = 0 /\ Len(partial_ro_buff) \in Nat
        BY <3>1
      <4>2. PICK k \in 0 .. 1 : /\ k <= Len(partial_ro_buff)
                               /\ Len(partial_ro_buff') = Len(partial_ro_buff) + 1 - k
        BY <1>3, <2>1, <3>1, DequeAppendProperties
      <4>3. QED
        BY <4>1, <4>2
    <3>4. ~ Expired(partial_ro_buff')
      <4>1. partial_ro_buff'[1].tack \in Nat
        BY <3>2, <3>3, TackType
      <4>2. QED
        BY <3>3, <4>1, BufferTimeAssumption DEF Expired, Newest, Oldest, Abs
    <3>5. QED
      BY <3>2, <3>4
  <2>3. CASE MatchNewest(p)
    <3> DEFINE n == Newest(partial_ro_buff)
    <3>1. /\ partial_ro_buff # << >> /\ pc' = "assemble"
          /\ Abs(n.tack - p.tacks[1]) < ReadoutTw
          /\ partial_ro_buff' =
               [partial_ro_buff EXCEPT ![Len(partial_ro_buff)] = AddPart(n, p)]
      BY <1>3, <2>3 DEF MatchNewest, Dt, Newest
    <3>2. n \in MatchedPacketType /\ InWindow(n)
      <4>1. Len(partial_ro_buff) \in 1 .. Len(partial_ro_buff)
        BY <1>3, <3>1, EmptySeq
      <4>2. QED
        BY <1>3, <4>1 DEF Newest, PartsInWindow
    <3>3. /\ AddPart(n, p) \in MatchedPacketType
          /\ AddPart(n, p).tack = n.tack
          /\ InWindow(AddPart(n, p))
      BY <1>2, <3>1, <3>2, AddPartProperties
    <3>4. QED
      BY <1>3, <3>1, <3>3, ExtendKeeps
  <2>4. CASE NewPartial(p)
    <3> DEFINE n == Newest(partial_ro_buff)
    <3>1. /\ partial_ro_buff # << >> /\ ~ Expired(partial_ro_buff) /\ pc' = "assemble"
          /\ Abs(n.tack - p.tacks[1]) >= ReadoutTw
          /\ n.tack - p.tacks[1] < 0
          /\ partial_ro_buff' = DequeAppend(partial_ro_buff, m)
      BY <1>3, <2>4 DEF NewPartial, Dt
    <3>2. n.tack \in Nat
      BY <1>3, <3>1, ExpiredMeansOlder
    <3>3. m.tack - n.tack >= ReadoutTw
      BY <1>2, <2>1, <3>1, <3>2, ReadoutTwAssumption DEF Abs
    <3>4. QED
      BY <1>3, <2>1, <3>1, <3>3, AppendKeeps
  <2>5. QED
    BY <2>2, <2>3, <2>4
<1>5. TypeOK'
  BY <1>1, <1>2, <1>4 DEF IInv, TypeOK
<1>6. BufferInv'
  BY <1>1, <1>4 DEF IInv, BufferInv, NeverIndexesEmpty, PendingWhilePublishing
<1>7. ConsecutiveNumbers'
  BY <1>1 DEF IInv, ConsecutiveNumbers
<1>8. QED
  BY <1>5, <1>6, <1>7 DEF IInv

\* Late and empty packets change nothing but where the coroutine goes on.
LEMMA RejectKeepsInv ==
  ASSUME IInv, NEW p, LatePacket(p) \/ EmptyPacket(p)
  PROVE  IInv'
<1>1. /\ Get(p)
      /\ UNCHANGED <<registered, puts, got_packet, partial_ro_buff, readouts, readout_count, published>>
      /\ pc \in {"first", "loop"} /\ pc' \in {"assemble", "dead"}
      /\ pc' = "assemble" => pc = "loop"
  BY DEF LatePacket, EmptyPacket, Take, netVars, buffVars
<1>2. queue' \in Seq(Packet) /\ taken' \in Seq(Packet)
  <2>1. queue' \in Seq(Packet) /\ taken \in Seq(Packet)
    BY <1>1, GetType DEF IInv
  <2>2. CASE LatePacket(p)
    BY <1>1, <2>1, <2>2, GetType DEF LatePacket, IInv
  <2>3. CASE EmptyPacket(p)
    BY <2>1, <2>3 DEF EmptyPacket
  <2>4. QED
    BY <2>1, <2>2, <2>3
<1>3. TypeOK'
  BY <1>1, <1>2 DEF IInv, TypeOK
<1>4. BufferInv'
  BY <1>1 DEF IInv, BufferInv, NeverIndexesEmpty, PendingWhilePublishing
<1>5. ConsecutiveNumbers'
  BY <1>1 DEF IInv, ConsecutiveNumbers
<1>6. QED
  BY <1>3, <1>4, <1>5 DEF IInv

\* Assembling the oldest partial readout.
LEMMA PoppedOldest ==
  ASSUME IInv, pc = "assemble", Expired(partial_ro_buff)
  PROVE  /\ Tail(partial_ro_buff) \in Seq(MatchedPacketType)
         /\ Tail(partial_ro_buff) # << >>
         /\ Spread(Tail(partial_ro_buff))
         /\ SpanBounded(Tail(partial_ro_buff))
         /\ PartsInWindow(Tail(partial_ro_buff))
         /\ Oldest(partial_ro_buff) \in MatchedPacketType
         /\ Tms(Oldest(partial_ro_buff)) # {}
<1>1. /\ partial_ro_buff \in Seq(MatchedPacketType)
      /\ partial_ro_buff # << >>
      /\ Spread(partial_ro_buff)
      /\ SpanBounded(partial_ro_buff)
      /\ PartsInWindow(partial_ro_buff)
  BY DEF IInv, TypeOK, BufferInv, NeverIndexesEmpty
<1>2. 1 \in 1 .. Len(partial_ro_buff)
  BY <1>1, EmptySeq
<1>3. Oldest(partial_ro_buff) \in MatchedPacketType /\ Tms(Oldest(partial_ro_buff)) # {}
  BY <1>1, <1>2 DEF Oldest, PartsInWindow, InWindow
<1>4. QED
  BY <1>1, <1>3, PopKeeps

\* An expired packet is assembled.
LEMMA AssembleKeepsInv ==
  ASSUME IInv, Assemble
  PROVE  IInv'
<1> DEFINE m == Oldest(partial_ro_buff)
<1>1. /\ UNCHANGED <<registered, puts, queue, got_packet, published, taken>>
      /\ pc = "assemble" /\ pc' = "publish"
      /\ Expired(partial_ro_buff)
      /\ HasReadouts(m, m.nreadouts)
      /\ readouts' = AssembleReadouts(m)
      /\ readout_count' = readout_count + m.nreadouts
      /\ partial_ro_buff' = Tail(partial_ro_buff)
  BY DEF Assemble, netVars
<1>2. /\ m \in MatchedPacketType /\ Tms(m) # {}
      /\ partial_ro_buff' \in Seq(MatchedPacketType) /\ partial_ro_buff' # << >>
      /\ Spread(partial_ro_buff')
      /\ SpanBounded(partial_ro_buff')
      /\ PartsInWindow(partial_ro_buff')
  BY <1>1, PoppedOldest
<1>3. m.nreadouts \in Nat \ {0} /\ readout_count \in Nat \ {0}
  BY <1>2 DEF MatchedPacketType, IInv, TypeOK
<1>4. /\ readouts' \in Seq(ReadoutType) /\ readouts' # << >>
      /\ Len(readouts') = m.nreadouts
      /\ \A i \in 1 .. m.nreadouts : readouts'[i].iro = readout_count + i - 1
  BY <1>1, <1>2, <1>3, AssembledType
<1>5. readout_count' \in Nat \ {0}
  BY <1>1, <1>3
<1>6. /\ readouts = << >> /\ Len(readouts) = 0 /\ Len(published) \in Nat
      /\ readout_count = Len(published) + 1
  BY <1>1 DEF IInv, TypeOK, BufferInv, PendingWhilePublishing, ConsecutiveNumbers
<1> HIDE DEF m
<1>7. TypeOK'
  BY <1>1, <1>2, <1>4, <1>5 DEF IInv, TypeOK
<1>8. BufferInv'
  BY <1>1, <1>2, <1>4 DEF BufferInv, NeverIndexesEmpty, PendingWhilePublishing
<1>9. ConsecutiveNumbers'
  <2>1. \A i \in DOMAIN readouts' : readouts'[i].iro = Len(published) + i
    BY <1>3, <1>4, <1>6
  <2>2. readout_count' = Len(published) + Len(readouts') + 1
    <3>1. readout_count' = readout_count + Len(readouts')
      BY <1>1, <1>4
    <3>2. Len(readouts') \in Nat
      BY <1>3, <1>4
    <3>3. QED
      BY <3>1, <3>2, <1>6
  <2>3. QED
    BY <1>1, <2>1, <2>2 DEF IInv, ConsecutiveNumbers
<1>10. QED
  BY <1>7, <1>8, <1>9 DEF IInv

\* Assembling raises.
LEMMA AssembleFailsKeepsInv ==
  ASSUME IInv, AssembleFails
  PROVE  IInv'
<1>1. /\ UNCHANGED <<registered, puts, queue, got_packet, readouts, published, taken>>
      /\ pc = "assemble" /\ pc' = "dead"
      /\ Expired(partial_ro_buff)
      /\ partial_ro_buff' = Tail(partial_ro_buff)
  BY DEF AssembleFails, netVars
<1>2. /\ Oldest(partial_ro_buff) \in MatchedPacketType
      /\ partial_ro_buff' \in Seq(MatchedPacketType)
      /\ Spread(partial_ro_buff')
      /\ SpanBounded(partial_ro_buff')
      /\ PartsInWindow(partial_ro_buff')
  BY <1>1, PoppedOldest
<1>3. readout_count' \in Nat \ {0}
  <2>1. PICK k \in 0 .. Oldest(partial_ro_buff).nreadouts - 1 :
          readout_count' = readout_count + k
    BY DEF AssembleFails
  <2>2. k \in Nat
    BY <1>2 DEF MatchedPacketType
  <2>3. QED
    BY <2>1, <2>2 DEF IInv, TypeOK
<1>4. TypeOK'
  BY <1>1, <1>2, <1>3 DEF IInv, TypeOK
<1>5. BufferInv'
  BY <1>1, <1>2 DEF IInv, BufferInv, NeverIndexesEmpty, PendingWhilePublishing
<1>6. ConsecutiveNumbers'
  BY <1>1 DEF IInv, ConsecutiveNumbers
<1>7. QED
  BY <1>4, <1>5, <1>6 DEF IInv

\* There is nothing to assemble.
LEMMA AssembleNothingKeepsInv ==
  ASSUME IInv, AssembleNothing
  PROVE  IInv'
<1>1. /\ UNCHANGED <<registered, puts, queue, got_packet, partial_ro_buff, readouts,
                      readout_count, published, taken>>
      /\ pc = "assemble" /\ pc' = "loop"
      /\ ~ Expired(partial_ro_buff)
  BY DEF AssembleNothing, netVars, buffVars
<1>2. ~ Expired(partial_ro_buff')
  BY <1>1
<1>3. TypeOK'
  BY <1>1 DEF IInv, TypeOK
<1>4. BufferInv'
  BY <1>1, <1>2 DEF IInv, BufferInv, NeverIndexesEmpty, PendingWhilePublishing
<1>5. ConsecutiveNumbers'
  BY <1>1 DEF IInv, ConsecutiveNumbers
<1>6. QED
  BY <1>3, <1>4, <1>5 DEF IInv

\* The readout moves from the front of one list to the end of the other.
LEMMA PublishKeepsInv ==
  ASSUME IInv, Publish
  PROVE  IInv'
<1>1. /\ UNCHANGED <<registered, puts, queue, got_packet, partial_ro_buff, readout_count, taken>>
      /\ pc = "publish"
      /\ published' = Append(published, Head(readouts))
      /\ readouts' = Tail(readouts)
      /\ pc' = IF Tail(readouts) = << >> THEN "assemble" ELSE "publish"
  BY DEF Publish, netVars
<1>2. /\ readouts \in Seq(ReadoutType) /\ readouts # << >>
      /\ published \in Seq(ReadoutType)
  BY <1>1 DEF IInv, TypeOK, BufferInv, PendingWhilePublishing
<1>3. /\ Head(readouts) \in ReadoutType /\ Head(readouts) = readouts[1]
      /\ readouts' \in Seq(ReadoutType)
      /\ Len(readouts') = Len(readouts) - 1
      /\ \A i \in 1 .. Len(readouts') : readouts'[i] = readouts[i + 1]
  BY <1>1, <1>2, HeadTailProperties
<1>4. /\ published' \in Seq(ReadoutType)
      /\ Len(published') = Len(published) + 1
      /\ \A i \in 1 .. Len(published) : published'[i] = published[i]
      /\ published'[Len(published) + 1] = readouts[1]
  BY <1>1, <1>2, <1>3, AppendProperties
<1>5. TypeOK'
  BY <1>1, <1>3, <1>4 DEF IInv, TypeOK
<1>6. BufferInv'
  BY <1>1 DEF IInv, BufferInv, NeverIndexesEmpty, PendingWhilePublishing
<1>7. ConsecutiveNumbers'
  <2>1. Len(published) \in Nat /\ Len(readouts) \in Nat /\ Len(readouts) >= 1
    BY <1>2, EmptySeq
  <2>2. /\ \A i \in 1 .. Len(published) : published[i].iro = i
        /\ \A i \in 1 .. Len(readouts) : readouts[i].iro = Len(published) + i
        /\ readout_count = Len(published) + Len(readouts) + 1
    BY <1>1, <1>2 DEF IInv, ConsecutiveNumbers
  <2>3. readouts[1].iro = Len(published) + 1
    BY <2>1, <2>2
  <2>4. \A i \in 1 .. Len(published') : published'[i].iro = i
    BY <1>4, <2>1, <2>2, <2>3
  <2>5. ASSUME NEW i \in 1 .. Len(readouts')
        PROVE  readouts'[i].iro = Len(published') + i
    <3>1. i + 1 \in 1 .. Len(readouts) /\ readouts'[i] = readouts[i + 1]
      BY <1>3, <2>1
    <3>2. readouts[i + 1].iro = Len(published) + (i + 1)
      BY <2>2, <3>1
    <3>3. QED
      BY <1>4, <2>1, <3>1, <3>2
  <2>6. readout_count' = Len(published') + Len(readouts') + 1
    BY <1>1, <1>3, <1>4, <2>1, <2>2
  <2>7. QED
    BY <1>3, <1>4, <2>4, <2>5, <2>6 DEF ConsecutiveNumbers
<1>8. QED
  BY <1>5, <1>6, <1>7 DEF IInv

\* Each step keeps the invariant.
LEMMA NextKeepsInv == IInv /\ [Next]_vars => IInv'
<1> SUFFICES ASSUME IInv, [Next]_vars
             PROVE  IInv'
  OBVIOUS
<1>1. CASE Network \/ PutTask
  BY <1>1, NetworkKeepsInv
<1>2. CASE DrainGet \/ DrainTimeout
  BY <1>2, DrainKeepsInv
<1>3. ASSUME NEW p \in NextPacket, FirstPacket(p) \/ MatchNewest(p) \/ NewPartial(p)
      PROVE  IInv'
  BY <1>3, MatchKeepsInv
<1>4. ASSUME NEW p \in NextPacket, LatePacket(p) \/ EmptyPacket(p)
      PROVE  IInv'
  BY <1>4, RejectKeepsInv
<1>5. CASE Assemble
  BY <1>5, AssembleKeepsInv
<1>6. CASE AssembleFails
  BY <1>6, AssembleFailsKeepsInv
<1>7. CASE AssembleNothing
  BY <1>7, AssembleNothingKeepsInv
<1>8. CASE Publish
  BY <1>8, PublishKeepsInv
<1>9. CASE UNCHANGED vars
  <2>1. UNCHANGED <<registered, puts, queue, pc, got_packet, partial_ro_buff, readouts,
                    readout_count, published, taken>>
    BY <1>9 DEF vars, netVars, buffVars
  <2>2. TypeOK'
    BY <2>1 DEF IInv, TypeOK
  <2>3. BufferInv'
    BY <2>1 DEF IInv, BufferInv, NeverIndexesEmpty, PendingWhilePublishing
  <2>4. ConsecutiveNumbers'
    BY <2>1 DEF IInv, ConsecutiveNumbers
  <2>5. QED
    BY <2>2, <2>3, <2>4 DEF IInv
<1>10. QED
  BY <1>1, <1>2, <1>3, <1>4, <1>5, <1>6, <1>7, <1>8, <1>9 DEF Next, Coroutine

-----------------------------------------------------------------------------
(* Theorems *)

\* The state of the assembler has its types, its deque is as it should be and
\* its readouts are numbered consecutively, together in every reachable state.
THEOREM Invariance == Spec => []IInv
BY InitInv, NextKeepsInv, PTL DEF Spec
\* ct_assembler never computes anything outside the types of its state.
THEOREM TypeCorrect == Spec => []TypeOK
<1>1. IInv => TypeOK
  BY DEF IInv
<1>2. QED
  BY <1>1, Invariance, PTL

\* However packets arrive and however short the deque is: partial readouts stay
\* ordered and readout_tw apart, [-1] and [0] never fail, and no assembled
\* readout is overwritten before it is published.
THEOREM BufferInvariant == Spec => []BufferInv
<1>1. IInv => BufferInv
  BY DEF IInv
<1>2. QED
  BY <1>1, Invariance, PTL

\* Readouts are published in the order and with the numbers 1, 2, 3, ...
THEOREM Numbering == Spec => []ConsecutiveNumbers
<1>1. IInv => ConsecutiveNumbers
  BY DEF IInv
<1>2. QED
  BY <1>1, Invariance, PTL

\* Division, as it is used below.
LEMMA DivBound ==
  ASSUME NEW a \in Nat, a * ReadoutTw <= BufferTime
  PROVE  a <= BufferTime \div ReadoutTw
<1> DEFINE q == BufferTime \div ReadoutTw
<1>1. /\ q \in Nat /\ BufferTime \in Nat /\ ReadoutTw \in Nat /\ ReadoutTw > 0
      /\ BufferTime < q * ReadoutTw + ReadoutTw
  BY ReadoutTwAssumption, BufferTimeAssumption
<1> HIDE DEF q
<1>2. SUFFICES ASSUME a >= q + 1
               PROVE  FALSE
  BY <1>1 DEF q
<1>3. PICK c \in Nat : a = q + 1 + c
  <2>1. a - (q + 1) \in Nat /\ a = q + 1 + (a - (q + 1))
    BY <1>1, <1>2
  <2>2. QED
    BY <2>1
<1>4. a * ReadoutTw = q * ReadoutTw + ReadoutTw + c * ReadoutTw
  BY <1>1, <1>3
<1>5. c * ReadoutTw \in Nat /\ q * ReadoutTw \in Nat
  BY <1>1, <1>3
<1>6. QED
  BY <1>1, <1>4, <1>5

\* The number of partial readouts, one less when the deque spans buffer_time.
LEMMA LengthBound ==
  ASSUME NEW d \in Seq(MatchedPacketType), Spread(d), SpanBounded(d)
  PROVE  /\ Len(d) <= BufferTime \div ReadoutTw + 2
         /\ d # << >> /\ ~ Expired(d) => Len(d) <= BufferTime \div ReadoutTw + 1
<1>1. /\ Len(d) \in Nat /\ BufferTime \div ReadoutTw \in Nat
      /\ BufferTime \in Nat /\ ReadoutTw \in Nat
  BY ReadoutTwAssumption, BufferTimeAssumption
<1>2. ASSUME NEW n \in 1 .. Len(d), d[n].tack - d[1].tack <= BufferTime
      PROVE  n - 1 <= BufferTime \div ReadoutTw
  <2>1. /\ 1 \in 1 .. Len(d) /\ d[1].tack \in Nat /\ d[n].tack \in Nat
        /\ n - 1 \in Nat
    BY <1>1, TackType
  <2>2. d[n].tack - d[1].tack >= (n - 1) * ReadoutTw /\ (n - 1) * ReadoutTw \in Nat
    BY <1>1, <2>1 DEF Spread
  <2>3. (n - 1) * ReadoutTw <= BufferTime
    <3> DEFINE A == (n - 1) * ReadoutTw
    <3>1. A \in Nat /\ d[n].tack - d[1].tack >= A
      BY <2>2
    <3> HIDE DEF A
    <3>2. A <= BufferTime
      BY <1>1, <1>2, <2>1, <3>1
    <3>3. QED
      BY <3>2 DEF A
  <2>4. QED
    BY <2>1, <2>3, DivBound
<1>3. Len(d) <= BufferTime \div ReadoutTw + 2
  <2>1. CASE Len(d) <= 1
    BY <1>1, <2>1
  <2>2. CASE Len(d) >= 2
    <3>1. Len(d) - 1 \in 1 .. Len(d) /\ Len(d) - 1 < Len(d)
      BY <1>1, <2>2
    <3>2. (Len(d) - 1) - 1 <= BufferTime \div ReadoutTw
      BY <1>2, <3>1 DEF SpanBounded
    <3>3. QED
      BY <1>1, <3>2
  <2>3. QED
    BY <1>1, <2>1, <2>2
<1>4. ASSUME d # << >>, ~ Expired(d)
      PROVE  Len(d) <= BufferTime \div ReadoutTw + 1
  <2>1. Len(d) \in 1 .. Len(d)
    BY <1>1, <1>4, EmptySeq
  <2>2. d[Len(d)].tack - d[1].tack <= BufferTime
    <3>1. /\ Newest(d).tack \in Nat /\ Oldest(d).tack \in Nat
          /\ ~ (Newest(d).tack - Oldest(d).tack > BufferTime)
      BY <1>4, ExpiredMeansOlder
    <3>2. QED
      BY <1>1, <3>1 DEF Newest, Oldest
  <2>3. QED
    BY <1>1, <1>2, <2>1, <2>2
<1>5. QED
  BY <1>3, <1>4

\* The deque never holds more than buffer_time / readout_tw + 2 partial readouts.
THEOREM Bounded == Spec => []BufferBounded
<1>1. IInv => BufferBounded
  BY LengthBound DEF IInv, TypeOK, BufferInv, BufferBounded
<1>2. QED
  BY <1>1, Invariance, PTL

\* A partial readout whose tack is no longer in the deque after a step had
\* expired, if the deque is long enough.
LEMMA StepRemovesExpired ==
  ASSUME LongEnough, IInv, Next,
         NEW i \in 1 .. Len(partial_ro_buff),
         \A j \in DOMAIN partial_ro_buff' :
           partial_ro_buff'[j].tack # partial_ro_buff[i].tack
  PROVE  Newest(partial_ro_buff).tack - partial_ro_buff[i].tack > BufferTime
<1> DEFINE d == partial_ro_buff
<1>1. /\ d \in Seq(MatchedPacketType) /\ d # << >> /\ Len(d) \in Nat /\ Len(d) >= 1
      /\ Spread(d) /\ SpanBounded(d)
  BY EmptySeq DEF IInv, TypeOK, BufferInv
<1>2. partial_ro_buff' \in Seq(MatchedPacketType)
  BY NextKeepsInv DEF IInv, TypeOK
<1>3. ASSUME UNCHANGED partial_ro_buff
      PROVE  FALSE
  BY <1>1, <1>3
<1>4. ASSUME NEW p, Get(p), Take(p), partial_ro_buff' = DequeAppend(d, MatchedPacket(p)),
             pc \in {"first", "loop"}
      PROVE  FALSE
  <2>1. p \in Packet /\ p.tacks # << >>
    BY <1>4, GetType DEF IInv
  <2>2. MatchedPacket(p) \in MatchedPacketType
    BY <2>1, MatchedPacketProperties
  <2>3. pc = "loop" /\ ~ Expired(d)
    BY <1>1, <1>4 DEF IInv, BufferInv, NeverIndexesEmpty
  <2>4. Len(d) <= BufferTime \div ReadoutTw + 1
    BY <1>1, <2>3, LengthBound
  <2>5. Len(d) < BufferLen
    BY <1>1, <2>4, BufferLenAssumption, BufferTimeAssumption, ReadoutTwAssumption DEF LongEnough
  <2>6. partial_ro_buff' = Append(d, MatchedPacket(p))
    BY <1>4, <2>5 DEF DequeAppend
  <2>7. /\ Len(partial_ro_buff') = Len(d) + 1
        /\ partial_ro_buff'[i] = d[i]
    BY <1>1, <2>2, <2>6, AppendProperties
  <2>8. i \in DOMAIN partial_ro_buff'
    BY <1>1, <1>2, <2>7
  <2>9. QED
    BY <2>7, <2>8
<1>5. ASSUME NEW p, MatchNewest(p)
      PROVE  FALSE
  <2>1. partial_ro_buff' = [d EXCEPT ![Len(d)] = AddPart(d[Len(d)], p)]
    BY <1>5 DEF MatchNewest
  <2>2. d[Len(d)] \in MatchedPacketType
    BY <1>1
  <2>3. AddPart(d[Len(d)], p).tack = d[Len(d)].tack
    BY <2>2 DEF AddPart, MatchedPacketType
  <2>4. i \in DOMAIN partial_ro_buff' /\ partial_ro_buff'[i].tack = d[i].tack
    BY <1>1, <2>1, <2>3
  <2>5. QED
    BY <2>4
<1>6. ASSUME Expired(d), partial_ro_buff' = Tail(d)
      PROVE  d[Len(d)].tack - d[i].tack > BufferTime
  <2>1. CASE i = 1
    <3>1. Newest(d).tack - Oldest(d).tack > BufferTime
      BY <1>1, <1>6, ExpiredMeansOlder
    <3>2. QED
      BY <2>1, <3>1 DEF Newest, Oldest
  <2>2. CASE i # 1
    <3>1. /\ Len(Tail(d)) = Len(d) - 1
          /\ \A j \in 1 .. Len(Tail(d)) : Tail(d)[j] = d[j + 1]
          /\ Tail(d) \in Seq(MatchedPacketType)
      BY <1>1, HeadTailProperties
    <3>2. i - 1 \in 1 .. Len(Tail(d)) /\ (i - 1) + 1 = i
      BY <1>1, <2>2, <3>1
    <3>3. i - 1 \in DOMAIN Tail(d) /\ Tail(d)[i - 1] = d[i]
      BY <3>1, <3>2
    <3>4. QED
      BY <1>6, <3>3
  <2>3. QED
    BY <2>1, <2>2
<1>7. CASE Network \/ PutTask
  BY <1>7, <1>3 DEF Network, DatagramReceived, PutTask, buffVars
<1>8. CASE DrainGet \/ DrainTimeout \/ AssembleNothing \/ Publish
  BY <1>8, <1>3 DEF DrainGet, DrainTimeout, AssembleNothing, Publish, buffVars
<1>9. ASSUME NEW p, LatePacket(p) \/ EmptyPacket(p)
      PROVE  FALSE
  BY <1>9, <1>3 DEF LatePacket, EmptyPacket, buffVars
<1>10. ASSUME NEW p, FirstPacket(p) \/ NewPartial(p)
       PROVE  FALSE
  BY <1>10, <1>4 DEF FirstPacket, NewPartial, Take
<1>11. CASE Assemble \/ AssembleFails
  BY <1>11, <1>6 DEF Assemble, AssembleFails, Newest
<1>12. QED
  BY <1>5, <1>7, <1>8, <1>9, <1>10, <1>11 DEF Next, Coroutine

\* With a deque of buffer_time / readout_tw + 2 places, its maxlen never evicts
\* a partial readout: each one that leaves has expired and is being assembled.
THEOREM NoEviction == ASSUME LongEnough PROVE Spec => OnlyExpiredLeave
<1>1. IInv /\ [Next]_vars =>
        [ \A i \in DOMAIN partial_ro_buff :
            (\A j \in DOMAIN partial_ro_buff' :
               partial_ro_buff'[j].tack # partial_ro_buff[i].tack)
            => Newest(partial_ro_buff).tack - partial_ro_buff[i].tack > BufferTime
        ]_partial_ro_buff
  <2> SUFFICES ASSUME IInv, Next, NEW i \in DOMAIN partial_ro_buff,
                      \A j \in DOMAIN partial_ro_buff' :
                        partial_ro_buff'[j].tack # partial_ro_buff[i].tack
               PROVE  Newest(partial_ro_buff).tack - partial_ro_buff[i].tack > BufferTime
    BY DEF vars, buffVars
  <2>1. i \in 1 .. Len(partial_ro_buff)
    BY DEF IInv, TypeOK
  <2>2. QED
    BY <2>1, StepRemovesExpired
<1>2. QED
  BY <1>1, Invariance, PTL DEF Spec, OnlyExpiredLeave

------------------------------------------------------------------------------
(* With a deque that is long enough the assembler implements EventBuilder: the deque, *)
(* the queue, the put tasks and the steps of the coroutine cannot be seen in what     *)
(* becomes of the packets.                                                            *)

\* What an append, a pop and a change of the last element do to the members of d.
LEMMA MembersAppend ==
  ASSUME NEW S, NEW d \in Seq(S), NEW m \in S
  PROVE  Members(Append(d, m)) = Members(d) \cup {m}
<1>1. /\ Len(d) \in Nat /\ Len(Append(d, m)) = Len(d) + 1
      /\ \A i \in 1 .. Len(d) : Append(d, m)[i] = d[i]
      /\ Append(d, m)[Len(d) + 1] = m
  BY AppendProperties
<1>2. 1 .. Len(d) + 1 = (1 .. Len(d)) \cup {Len(d) + 1}
  BY <1>1
<1>3. QED
  BY <1>1, <1>2 DEF Members

\* The partial readouts of the deque differ in their tacks.
LEMMA MembersDiffer ==
  ASSUME NEW d \in Seq(MatchedPacketType), Spread(d),
         NEW i \in 1 .. Len(d), NEW j \in 1 .. Len(d), i < j
  PROVE  d[i].tack < d[j].tack
<1>1. d[i].tack \in Nat /\ d[j].tack \in Nat
  BY TackType
<1>2. d[j].tack - d[i].tack >= (j - i) * ReadoutTw
  BY DEF Spread
<1>3. /\ j - i \in Nat /\ j - i >= 1 /\ ReadoutTw \in Nat /\ ReadoutTw >= 1
  BY ReadoutTwAssumption
<1>4. (j - i) * ReadoutTw >= 1
  BY <1>3
<1>5. QED
  BY <1>1, <1>2, <1>3, <1>4

\* The oldest packet is taken from the buffer.
LEMMA MembersPop ==
  ASSUME NEW d \in Seq(MatchedPacketType), d # << >>, Spread(d)
  PROVE  Members(Tail(d)) = Members(d) \ {Oldest(d)}
<1>1. /\ Len(d) \in Nat /\ Len(d) >= 1 /\ Len(Tail(d)) = Len(d) - 1
      /\ \A i \in 1 .. Len(d) - 1 : Tail(d)[i] = d[i + 1]
  BY HeadTailProperties, EmptySeq
<1>2. \A i \in 2 .. Len(d) : d[i] # d[1]
  <2>1. \A i \in 2 .. Len(d) : d[1].tack < d[i].tack /\ d[1].tack \in Nat /\ d[i].tack \in Nat
    BY <1>1, MembersDiffer, TackType
  <2>2. QED
    BY <2>1
<1>3. Members(Tail(d)) = {d[i] : i \in 2 .. Len(d)}
  <2>1. \A i \in 2 .. Len(d) : i - 1 \in 1 .. Len(d) - 1 /\ Tail(d)[i - 1] = d[i]
    BY <1>1
  <2>2. \A i \in 1 .. Len(d) - 1 : i + 1 \in 2 .. Len(d) /\ Tail(d)[i] = d[i + 1]
    BY <1>1
  <2>3. Members(Tail(d)) = {Tail(d)[i] : i \in 1 .. Len(d) - 1}
    BY <1>1 DEF Members
  <2>4. QED
    BY <2>1, <2>2, <2>3
<1>4. 1 .. Len(d) = {1} \cup (2 .. Len(d))
  BY <1>1
<1>5. Members(d) = {d[1]} \cup {d[i] : i \in 2 .. Len(d)}
  BY <1>4 DEF Members
<1>6. QED
  BY <1>2, <1>3, <1>5 DEF Oldest

\* The newest packet of the buffer is completed.
LEMMA MembersReplace ==
  ASSUME NEW d \in Seq(MatchedPacketType), d # << >>, Spread(d), NEW m
  PROVE  Members([d EXCEPT ![Len(d)] = m]) = (Members(d) \ {Newest(d)}) \cup {m}
<1> DEFINE n == Len(d)
           e == [d EXCEPT ![n] = m]
<1>1. n \in Nat /\ n >= 1
  BY EmptySeq
<1>2. \A i \in 1 .. n - 1 : d[i] # d[n]
  <2>1. \A i \in 1 .. n - 1 : d[i].tack < d[n].tack /\ d[i].tack \in Nat /\ d[n].tack \in Nat
    BY <1>1, MembersDiffer, TackType
  <2>2. QED
    BY <2>1
<1>3. /\ Len(e) = n /\ e[n] = m
      /\ \A i \in 1 .. n - 1 : e[i] = d[i]
  BY <1>1
<1>4. 1 .. n = (1 .. n - 1) \cup {n}
  BY <1>1
<1>5. Members(d) = {d[i] : i \in 1 .. n - 1} \cup {d[n]}
  BY <1>4 DEF Members
<1>6. Members(e) = {d[i] : i \in 1 .. n - 1} \cup {m}
  BY <1>1, <1>3, <1>4 DEF Members
<1>7. QED
  BY <1>2, <1>5, <1>6 DEF Newest

-----------------------------------------------------------------------------
(* Each step of the assembler is a step of EventBuilder or none *)

\* Datagrams, put tasks, the drain, testing the deque and dropping a packet are not
\* seen.
LEMMA Unseen ==
  ASSUME UNCHANGED <<partial_ro_buff, published, readouts>>, pc # "dead" <=> pc' # "dead"
  PROVE  UNCHANGED Promised!vars
BY DEF Promised!vars

\* A readout is published that was assembled before.
LEMMA PublishUnseen ==
  ASSUME IInv, Publish
  PROVE  UNCHANGED Promised!vars
<1>1. /\ UNCHANGED partial_ro_buff
      /\ pc = "publish" /\ pc' # "dead"
      /\ published' = Append(published, Head(readouts))
      /\ readouts' = Tail(readouts)
  BY DEF Publish
<1>2. readouts \in Seq(ReadoutType) /\ readouts # << >> /\ published \in Seq(ReadoutType)
  BY <1>1 DEF IInv, TypeOK, BufferInv, PendingWhilePublishing
<1>3. published' \o readouts' = published \o readouts
  BY <1>1, <1>2
<1>4. QED
  BY <1>1, <1>3 DEF Promised!vars

\* A packet that starts a partial readout opens an event.
LEMMA OpenRefines ==
  ASSUME IInv, LongEnough, NEW p, FirstPacket(p) \/ NewPartial(p)
  PROVE  Promised!Open
<1> DEFINE d == partial_ro_buff
           m == MatchedPacket(p)
<1>1. /\ Get(p) /\ Take(p)
      /\ UNCHANGED <<readouts, published>>
      /\ pc \in {"first", "loop"} /\ pc' # "dead"
      /\ d' = DequeAppend(d, m)
  BY DEF FirstPacket, NewPartial, Take
<1>2. p \in Packet /\ p.tacks # << >> /\ p.tacks[1] \in Nat
  BY <1>1, GetType DEF IInv
<1>3. /\ d \in Seq(MatchedPacketType) /\ Len(d) \in Nat
      /\ Spread(d) /\ SpanBounded(d)
      /\ pc = "first" => d = << >>
      /\ pc = "loop" => d # << >> /\ ~ Expired(d)
  BY DEF IInv, TypeOK, BufferInv, NeverIndexesEmpty
<1>4. m \in MatchedPacketType /\ m.tack = p.tacks[1] /\ InWindow(m)
  BY <1>2, MatchedPacketProperties
<1>5. Len(d) < BufferLen
  <2>1. CASE d = << >>
    BY <2>1, BufferLenAssumption
  <2>2. CASE d # << >>
    <3>1. Len(d) <= BufferTime \div ReadoutTw + 1
      BY <1>1, <1>3, <2>2, LengthBound
    <3>2. QED
      BY <1>3, <3>1, BufferLenAssumption, BufferTimeAssumption, ReadoutTwAssumption
      DEF LongEnough
  <2>3. QED
    BY <2>1, <2>2
<1>6. Members(d)' = Members(d) \cup {m}
  <2>1. d' = Append(d, m)
    BY <1>1, <1>5 DEF DequeAppend
  <2>2. QED
    BY <1>3, <1>4, <2>1, MembersAppend
<1>7. \A e \in Members(d) : m.tack >= e.tack + ReadoutTw
  <2> SUFFICES ASSUME NEW i \in 1 .. Len(d)
               PROVE  m.tack >= d[i].tack + ReadoutTw
    BY DEF Members
  <2>1. d # << >> /\ NewPartial(p)
    BY <1>1, <1>3 DEF FirstPacket
  <2>2. /\ Len(d) \in 1 .. Len(d)
        /\ d[i].tack \in Nat /\ d[Len(d)].tack \in Nat
    BY <1>3, TackType
  <2>3. m.tack >= d[Len(d)].tack + ReadoutTw
    BY <1>2, <1>4, <2>1, <2>2, ReadoutTwAssumption DEF NewPartial, Dt, Newest, Abs
  <2>4. d[i].tack <= d[Len(d)].tack
    <3>1. CASE i = Len(d)
      BY <2>2, <3>1
    <3>2. CASE i < Len(d)
      BY <1>3, <2>2, <3>2, MembersDiffer
    <3>3. QED
      BY <1>3, <3>1, <3>2
  <2>5. QED
    BY <1>4, <1>2, <2>2, <2>3, <2>4, ReadoutTwAssumption
<1>8. /\ Promised!Present(m) = {p.tm}
      /\ p.tm \in TM
      /\ m.tack = m.data[p.tm][1]
      /\ m.nreadouts = Len(m.data[p.tm])
  BY <1>2 DEF Promised!Present, MatchedPacket, Packet
<1>9. m \in Members(d)'
  BY <1>6
<1> HIDE DEF m
<1>10. QED
  BY <1>1, <1>6, <1>7, <1>8, <1>9 DEF Promised!Open

\* A packet that matches the newest partial readout joins its event.
LEMMA JoinRefines ==
  ASSUME IInv, NEW p, MatchNewest(p)
  PROVE  Promised!Join
<1> DEFINE d == partial_ro_buff
           e == Newest(d)
           f == AddPart(e, p)
<1>1. /\ Get(p) /\ Take(p)
      /\ UNCHANGED <<readouts, published>>
      /\ pc = "loop" /\ pc' # "dead"
      /\ Abs(e.tack - p.tacks[1]) < ReadoutTw
      /\ d' = [d EXCEPT ![Len(d)] = f]
  BY DEF MatchNewest, Take, Dt, Newest
<1>2. p \in Packet /\ p.tacks # << >> /\ p.tacks[1] \in Nat
  BY <1>1, GetType DEF IInv
<1>3. d \in Seq(MatchedPacketType) /\ d # << >> /\ Spread(d) /\ PartsInWindow(d)
  BY <1>1 DEF IInv, TypeOK, BufferInv, NeverIndexesEmpty
<1>4. e \in Members(d) /\ e \in MatchedPacketType
  <2>1. Len(d) \in 1 .. Len(d)
    BY <1>3, EmptySeq
  <2>2. QED
    BY <1>3, <2>1 DEF Newest, Members
<1>5. /\ p.tm \in TM /\ e.tack \in Nat
      /\ f.tack = e.tack /\ f.nreadouts = e.nreadouts
      /\ f.data[p.tm] = p.tacks
      /\ \A u \in TM \ {p.tm} : f.data[u] = e.data[u]
  BY <1>2, <1>4 DEF AddPart, MatchedPacketType, Packet
<1>6. Promised!Distance(p.tacks[1], e.tack) < ReadoutTw
  BY <1>1, <1>2, <1>5 DEF Abs, Promised!Distance
<1>7. Promised!Extends(f, e)
  BY <1>2, <1>5, <1>6 DEF Promised!Extends, Promised!Present
<1>8. Members(d)' = (Members(d) \ {e}) \cup {f}
  BY <1>1, <1>3, MembersReplace
<1> HIDE DEF f, e
<1>9. f \in Members(d)'
  BY <1>8
<1>10. QED
  BY <1>1, <1>4, <1>7, <1>8, <1>9 DEF Promised!Join

\* The oldest partial readout is that of the event to be closed.
LEMMA OldestIsDue ==
  ASSUME IInv, pc = "assemble", Expired(partial_ro_buff)
  PROVE  /\ Oldest(partial_ro_buff) \in Members(partial_ro_buff)
         /\ Promised!Due(Oldest(partial_ro_buff))
         /\ Members(Tail(partial_ro_buff)) =
              Members(partial_ro_buff) \ {Oldest(partial_ro_buff)}
<1> DEFINE d == partial_ro_buff
<1>1. d \in Seq(MatchedPacketType) /\ d # << >> /\ Spread(d)
  BY DEF IInv, TypeOK, BufferInv, NeverIndexesEmpty
<1>2. 1 \in 1 .. Len(d) /\ Len(d) \in 1 .. Len(d)
  BY <1>1, EmptySeq
<1>3. Oldest(d) \in Members(d) /\ Newest(d) \in Members(d)
  BY <1>2 DEF Members, Oldest, Newest
<1>4. \A f \in Members(d) : Oldest(d).tack <= f.tack
  <2> SUFFICES ASSUME NEW i \in 1 .. Len(d)
               PROVE  d[1].tack <= d[i].tack
    BY DEF Members, Oldest
  <2>1. d[1].tack \in Nat /\ d[i].tack \in Nat
    BY <1>1, <1>2, TackType
  <2>2. CASE i = 1
    BY <2>1, <2>2
  <2>3. CASE i # 1
    BY <1>1, <1>2, <2>1, <2>3, MembersDiffer
  <2>4. QED
    BY <2>2, <2>3
<1>5. Newest(d).tack > Oldest(d).tack + BufferTime
  BY <1>1, ExpiredMeansOlder, BufferTimeAssumption
<1>6. Promised!Due(Oldest(d))
  BY <1>3, <1>4, <1>5 DEF Promised!Due, Promised!Oldest
<1>7. QED
  BY <1>1, <1>3, <1>6, MembersPop

\* Assembling the oldest partial readout closes its event.
LEMMA CompleteRefines ==
  ASSUME IInv, Assemble
  PROVE  Promised!Complete
<1> DEFINE m == Oldest(partial_ro_buff)
<1>1. /\ UNCHANGED published
      /\ pc = "assemble" /\ pc' = "publish"
      /\ Expired(partial_ro_buff)
      /\ HasReadouts(m, m.nreadouts)
      /\ readouts' = AssembleReadouts(m)
      /\ partial_ro_buff' = Tail(partial_ro_buff)
  BY DEF Assemble
<1>2. m \in MatchedPacketType /\ Tms(m) # {}
  BY <1>1, PoppedOldest
<1>3. /\ m \in Members(partial_ro_buff)
      /\ Promised!Due(m)
      /\ Members(partial_ro_buff)' = Members(partial_ro_buff) \ {m}
  BY <1>1, OldestIsDue
<1>4. /\ readouts = << >> /\ published \in Seq(ReadoutType) /\ Len(published) \in Nat
      /\ readout_count = Len(published) + 1
  BY <1>1 DEF IInv, TypeOK, BufferInv, PendingWhilePublishing, ConsecutiveNumbers
<1>5. published \o readouts = published
  BY <1>4
<1>6. Promised!Present(m) = Tms(m)
  BY DEF Promised!Present, Tms
<1>7. FirstTm(m) \in Tms(m)
  BY <1>2, FirstTmProperties
<1>8. m.nreadouts \in Nat \ {0}
  BY <1>2 DEF MatchedPacketType
<1>9. AssembleReadouts(m) = Promised!Built(m, FirstTm(m))
  <2>1. ASSUME NEW i \in 1 .. m.nreadouts
        PROVE  readout_count + i - 1 = Len(published \o readouts) + i
    BY <1>4, <1>5, <1>8
  <2>2. ASSUME NEW i \in 1 .. m.nreadouts
        PROVE  Readout(m, i, readout_count + i - 1) =
                 [iro  |-> Len(published \o readouts) + i,
                  tack |-> m.data[FirstTm(m)][i],
                  rows |-> [t \in TM |-> IF t \in Promised!Present(m)
                                         THEN m.data[t][i] ELSE -1]]
    BY <2>1, <1>6, Zenon DEF Readout, NoRow
  <2>3. QED
    BY <2>2, Zenon DEF AssembleReadouts, Promised!Built
<1>10. Promised!Filled(m)
  BY <1>1, <1>6 DEF HasReadouts, Promised!Filled
<1>11. published' \o readouts' = (published \o readouts) \o Promised!Built(m, FirstTm(m))
  BY <1>1, <1>5, <1>9
<1> HIDE DEF m
<1>12. QED
  BY <1>1, <1>3, <1>6, <1>7, <1>10, <1>11 DEF Promised!Complete

\* An exception ends the builder, with or without the event it was closing.
LEMMA FailRefines ==
  ASSUME IInv, AssembleFails \/ (\E p \in NextPacket : EmptyPacket(p) \/ LatePacket(p)),
         pc' = "dead"
  PROVE  Promised!Fail
<1>1. pc # "dead" /\ UNCHANGED <<published, readouts>>
  BY DEF AssembleFails, EmptyPacket, LatePacket, buffVars
<1>2. CASE UNCHANGED partial_ro_buff
  BY <1>1, <1>2 DEF Promised!Fail
<1>3. CASE AssembleFails
  <2>1. /\ pc = "assemble" /\ Expired(partial_ro_buff)
        /\ partial_ro_buff' = Tail(partial_ro_buff)
    BY <1>3 DEF AssembleFails
  <2>2. QED
    BY <1>1, <2>1, OldestIsDue DEF Promised!Fail
<1>4. QED
  BY <1>2, <1>3 DEF EmptyPacket, LatePacket, buffVars

\* The empty deque is no event.
LEMMA InitRefines == Init => Promised!Init
BY DEF Init, Members, Promised!Init

\* Each step of the assembler is one of the event builder, or none.
LEMMA StepRefines ==
  ASSUME IInv, LongEnough, [Next]_vars
  PROVE  [Promised!Next]_(Promised!vars)
<1>1. CASE Network \/ PutTask
  BY <1>1, Unseen DEF Network, DatagramReceived, PutTask, buffVars
<1>2. CASE DrainGet \/ DrainTimeout \/ AssembleNothing
  BY <1>2, Unseen DEF DrainGet, DrainTimeout, AssembleNothing, buffVars
<1>3. ASSUME NEW p \in NextPacket, FirstPacket(p) \/ NewPartial(p)
      PROVE  Promised!Next
  BY <1>3, OpenRefines DEF Promised!Next
<1>4. ASSUME NEW p \in NextPacket, MatchNewest(p)
      PROVE  Promised!Next
  BY <1>4, JoinRefines DEF Promised!Next
<1>5. ASSUME NEW p \in NextPacket, LatePacket(p), pc' # "dead"
      PROVE  UNCHANGED Promised!vars
  BY <1>5, Unseen DEF LatePacket, buffVars
<1>6. ASSUME NEW p \in NextPacket, LatePacket(p) \/ EmptyPacket(p), pc' = "dead"
      PROVE  Promised!Next
  BY <1>6, FailRefines DEF Promised!Next
<1>7. CASE Assemble
  BY <1>7, CompleteRefines DEF Promised!Next
<1>8. CASE AssembleFails
  BY <1>8, FailRefines DEF AssembleFails, Promised!Next
<1>9. CASE Publish
  BY <1>9, PublishUnseen
<1>10. CASE UNCHANGED vars
  BY <1>10, Unseen DEF vars, buffVars
<1>11. ASSUME NEW p, EmptyPacket(p)
       PROVE  pc' = "dead"
  BY <1>11 DEF EmptyPacket
<1>12. QED
  BY <1>1, <1>2, <1>3, <1>4, <1>5, <1>6, <1>7, <1>8, <1>9, <1>10, <1>11
  DEF Next, Coroutine

\* The assembler is an event builder: with a deque of buffer_time / readout_tw + 2
\* places every behaviour of ct_assembler, whatever the network delivers, is one of
\* EventBuilder, so that readers of the stream need not know of the deque.
THEOREM AssemblerBuildsEvents == ASSUME LongEnough PROVE Spec => BuildsEvents
<1>1. IInv /\ [Next]_vars => [Promised!Next]_(Promised!vars)
  BY StepRefines
<1>2. QED
  BY <1>1, InitRefines, Invariance, PTL DEF Spec, BuildsEvents, Promised!Spec

------------------------------------------------------------------------------
(* The events, for inputs that are Separated: one readout per packet, and modules     *)
(* whose clocks agree so well that readout_tw tells one trigger from the next.        *)
(* Datagrams may still come in any order, any number of times, or not at all.         *)

\* The tacks that the datagrams carry.
Tacks == {d.tacks[1] : d \in Datagrams}

\* A packet of one readout that a datagram carried.
OneReadout(p) == Len(p.tacks) = 1 /\ p.tacks[1] \in Tacks

\* A partial readout of such packets.
OneEvent(m) ==
  /\ m.nreadouts = 1
  /\ m.tack \in Tacks
  /\ \A t \in Tms(m) : Len(m.data[t]) = 1 /\ m.data[t][1] \in Tacks

\* A readout filled by packets of one trigger, that of its own tack.
GoodReadout(r) ==
  /\ r.tack \in Tacks
  /\ \A t \in Filled(r) : r.rows[t] \in Tacks /\ SameEvent(r.rows[t], r.tack)

\* The readouts that have left the deque.
Out == published \o readouts

(* The parts of the inductive invariant *)

Received ==
  /\ \A i \in 1 .. Len(puts)  : OneReadout(puts[i])
  /\ \A i \in 1 .. Len(queue) : OneReadout(queue[i])
  /\ \A i \in 1 .. Len(taken) : OneReadout(taken[i])

PartsOfEvents == \A i \in 1 .. Len(partial_ro_buff) : OneEvent(partial_ro_buff[i])

OutIsGood == \A i \in 1 .. Len(Out) : GoodReadout(Out[i])

OutIsApart ==
  \A i, j \in 1 .. Len(Out) : i < j => Out[i].tack + ReadoutTw <= Out[j].tack

OutComesFirst ==
  \A i \in 1 .. Len(Out), j \in 1 .. Len(partial_ro_buff) :
    Out[i].tack + ReadoutTw <= partial_ro_buff[j].tack

NothingYet == pc \in {"drain", "first"} => Out = << >>

EventInv ==
  /\ Received
  /\ PartsOfEvents
  /\ OutIsGood
  /\ OutIsApart
  /\ OutComesFirst
  /\ NothingYet

\* Packet number i of those taken is in a readout or in a partial readout.
KeptOut(i) ==
  \E k \in 1 .. Len(Out) :
    /\ taken[i].tm \in Filled(Out[k])
    /\ SameEvent(Out[k].rows[taken[i].tm], taken[i].tacks[1])

KeptIn(i) ==
  \E k \in 1 .. Len(partial_ro_buff) :
    /\ taken[i].tm \in Tms(partial_ro_buff[k])
    /\ SameEvent(partial_ro_buff[k].tack, taken[i].tacks[1])

OpenedByPacket ==
  \A k \in 1 .. Len(partial_ro_buff) :
    \E i \in 1 .. Len(taken) : partial_ro_buff[k].tack = taken[i].tacks[1]

KeepInv ==
  /\ OpenedByPacket
  /\ \A i \in 1 .. Len(taken) : OnTime(i) => KeptOut(i) \/ KeptIn(i)

-----------------------------------------------------------------------------
(* Tacks of one trigger and of different triggers *)

\* Tacks are numbers, so that they can be compared.
LEMMA TacksAreNumbers ==
  ASSUME Separated
  PROVE  Tacks \subseteq Nat
<1> SUFFICES ASSUME NEW d \in Datagrams
             PROVE  d.tacks[1] \in Nat
  BY DEF Tacks
<1>1. d.tacks \in Seq(Nat) /\ Len(d.tacks) = 1
  BY DatagramsAssumption DEF Separated, DatagramType
<1>2. QED
  BY <1>1

\* Being of one event, without Abs; it does not depend on the order.
LEMMA SameEventMeans ==
  ASSUME NEW a \in Nat, NEW b \in Nat
  PROVE  /\ SameEvent(a, b) <=> a - b < ReadoutTw /\ b - a < ReadoutTw
         /\ SameEvent(a, b) <=> SameEvent(b, a)
         /\ SameEvent(a, a)
BY ReadoutTwAssumption DEF SameEvent, Abs

\* What Separated says, of tacks instead of datagrams.
LEMMA SameEventTransitive ==
  ASSUME Separated, NEW a \in Tacks, NEW b \in Tacks, NEW c \in Tacks,
         SameEvent(a, b), SameEvent(b, c)
  PROVE  SameEvent(a, c)
<1>1. PICK d \in Datagrams, e \in Datagrams, f \in Datagrams :
        a = d.tacks[1] /\ b = e.tacks[1] /\ c = f.tacks[1]
  BY DEF Tacks
<1>2. QED
  BY <1>1 DEF Separated

\* Two triggers are apart by readout_tw whichever of their tacks is taken.
LEMMA TriggersAreApart ==
  ASSUME Separated,
         NEW a \in Tacks, NEW b \in Tacks, a + ReadoutTw <= b,
         NEW x \in Tacks, NEW y \in Tacks, SameEvent(x, a), SameEvent(y, b)
  PROVE  x + ReadoutTw <= y
<1>1. /\ a \in Nat /\ b \in Nat /\ x \in Nat /\ y \in Nat
      /\ ReadoutTw \in Nat /\ ReadoutTw > 0
  BY TacksAreNumbers, ReadoutTwAssumption
<1>2. /\ x - a < ReadoutTw /\ a - x < ReadoutTw
      /\ y - b < ReadoutTw /\ b - y < ReadoutTw
  BY <1>1, SameEventMeans
<1>3. ~ SameEvent(a, b)
  BY <1>1, SameEventMeans
<1>4. ~ SameEvent(x, y)
  <2>1. SUFFICES ASSUME SameEvent(x, y)
                 PROVE  SameEvent(a, b)
    BY <1>3
  <2>2. SameEvent(a, x)
    BY <1>1, SameEventMeans
  <2>3. SameEvent(a, y)
    BY <2>1, <2>2, SameEventTransitive
  <2>4. QED
    BY <2>3, SameEventTransitive
<1>5. ~ (x - y < ReadoutTw /\ y - x < ReadoutTw)
  BY <1>1, <1>4, SameEventMeans
<1>6. QED
  BY <1>1, <1>2, <1>5

-----------------------------------------------------------------------------
(* Partial readouts and readouts of one event *)

\* Every part of a partial readout is of the event that opened it.
LEMMA PartsAreClose ==
  ASSUME Separated, NEW m \in MatchedPacketType, InWindow(m), OneEvent(m),
         NEW t \in Tms(m)
  PROVE  m.data[t][1] \in Tacks /\ SameEvent(m.data[t][1], m.tack)
BY DEF OneEvent, InWindow, SameEvent

\* A packet of one readout starts a partial readout of one event.
LEMMA OneEventOfPacket ==
  ASSUME NEW p \in Packet, p.tacks # << >>, OneReadout(p)
  PROVE  /\ OneEvent(MatchedPacket(p))
         /\ p.tm \in Tms(MatchedPacket(p))
<1>1. p.tm \in TM /\ MatchedPacket(p).data[p.tm] = p.tacks
  BY DEF Packet, MatchedPacket
<1>2. Tms(MatchedPacket(p)) = {p.tm}
  BY DEF Tms, MatchedPacket, Packet
<1>3. MatchedPacket(p).nreadouts = 1 /\ MatchedPacket(p).tack = p.tacks[1]
  BY DEF MatchedPacket, OneReadout
<1>4. QED
  BY <1>1, <1>2, <1>3 DEF OneEvent, OneReadout

\* Such a packet keeps a partial readout one of one event, with its modules.
LEMMA OneEventOfPart ==
  ASSUME NEW m \in MatchedPacketType, OneEvent(m),
         NEW p \in Packet, p.tacks # << >>, OneReadout(p)
  PROVE  /\ OneEvent(AddPart(m, p))
         /\ AddPart(m, p).tack = m.tack
         /\ Tms(AddPart(m, p)) = Tms(m) \cup {p.tm}
<1>1. p.tm \in TM /\ m.data \in [TM -> Seq(Nat)]
  BY DEF Packet, MatchedPacketType
<1>2. /\ AddPart(m, p).data = [m.data EXCEPT ![p.tm] = p.tacks]
      /\ AddPart(m, p).tack = m.tack
      /\ AddPart(m, p).nreadouts = m.nreadouts
  BY DEF AddPart, MatchedPacketType
<1>3. \A t \in TM : AddPart(m, p).data[t] = IF t = p.tm THEN p.tacks ELSE m.data[t]
  BY <1>1, <1>2
<1>4. Tms(AddPart(m, p)) = Tms(m) \cup {p.tm}
  BY <1>1, <1>3 DEF Tms
<1>5. \A t \in Tms(AddPart(m, p)) :
        Len(AddPart(m, p).data[t]) = 1 /\ AddPart(m, p).data[t][1] \in Tacks
  BY <1>1, <1>3, <1>4 DEF OneEvent, OneReadout, Tms
<1>6. QED
  BY <1>2, <1>4, <1>5 DEF OneEvent

\* A partial readout of one event yields a good readout with the rows of its
\* modules, whatever its number.
LEMMA ReadoutOfEvent ==
  ASSUME Separated, NEW m \in MatchedPacketType, InWindow(m), OneEvent(m), NEW n
  PROVE  /\ GoodReadout(Readout(m, 1, n))
         /\ SameEvent(Readout(m, 1, n).tack, m.tack)
         /\ Filled(Readout(m, 1, n)) = Tms(m)
         /\ \A t \in Tms(m) : Readout(m, 1, n).rows[t] = m.data[t][1]
<1> DEFINE r == Readout(m, 1, n)
<1>1. /\ r.tack = m.data[FirstTm(m)][1]
      /\ \A t \in TM : r.rows[t] = IF t \in Tms(m) THEN m.data[t][1] ELSE NoRow
  BY DEF Readout
<1> HIDE DEF r
<1>2. FirstTm(m) \in Tms(m) /\ Tms(m) \subseteq TM
  BY FirstTmProperties DEF InWindow, Tms
<1>3. \A t \in Tms(m) : m.data[t][1] \in Tacks /\ SameEvent(m.data[t][1], m.tack)
  BY PartsAreClose
<1>4. Filled(r) = Tms(m)
  <2>1. \A t \in Tms(m) : m.data[t][1] # NoRow
    BY <1>3, TacksAreNumbers DEF NoRow
  <2>2. QED
    BY <1>1, <1>2, <2>1 DEF Filled
<1>5. r.tack \in Tacks /\ SameEvent(r.tack, m.tack)
  BY <1>1, <1>2, <1>3
<1>6. m.tack \in Tacks
  BY DEF OneEvent
<1>7. ASSUME NEW t \in Tms(m)
      PROVE  r.rows[t] \in Tacks /\ SameEvent(r.rows[t], r.tack)
  <2>1. r.rows[t] = m.data[t][1]
    BY <1>1, <1>2
  <2>2. r.rows[t] \in Tacks /\ SameEvent(r.rows[t], m.tack)
    BY <1>3, <2>1
  <2>3. SameEvent(m.tack, r.tack)
    BY <1>5, <1>6, TacksAreNumbers, SameEventMeans
  <2>4. QED
    BY <1>5, <1>6, <2>2, <2>3, SameEventTransitive
<1>8. GoodReadout(r)
  BY <1>4, <1>5, <1>7 DEF GoodReadout
<1>9. QED
  BY <1>1, <1>2, <1>4, <1>5, <1>8 DEF r

-----------------------------------------------------------------------------
(* The readouts that leave the deque *)

\* The two parts of the stream, element by element.
LEMMA OutElements ==
  ASSUME TypeOK
  PROVE  /\ Out \in Seq(ReadoutType)
         /\ Len(Out) \in Nat
         /\ Len(Out) = Len(published) + Len(readouts)
BY ConcatProperties DEF Out, TypeOK

\* Publishing moves a readout from one part to the other.
LEMMA PublishKeepsOut ==
  ASSUME IInv, Publish
  PROVE  Out' = Out
<1>1. /\ pc = "publish"
      /\ published' = Append(published, Head(readouts))
      /\ readouts' = Tail(readouts)
  BY DEF Publish
<1>2. readouts \in Seq(ReadoutType) /\ readouts # << >> /\ published \in Seq(ReadoutType)
  BY <1>1 DEF IInv, TypeOK, BufferInv, PendingWhilePublishing
<1>3. published' \o readouts' = published \o readouts
  BY <1>1, <1>2
<1>4. QED
  BY <1>3 DEF Out

\* Assembling moves the oldest partial readout to the end of the stream, as one
\* good readout.
LEMMA AssembleExtendsOut ==
  ASSUME Separated, IInv, PartsOfEvents, Assemble
  PROVE  LET m == partial_ro_buff[1]
             n == Len(Out) + 1
         IN  /\ m \in MatchedPacketType /\ InWindow(m) /\ OneEvent(m)
             /\ Len(Out') = n
             /\ \A i \in 1 .. Len(Out) : Out'[i] = Out[i]
             /\ Out'[n] = Readout(m, 1, readout_count)
<1> DEFINE m == partial_ro_buff[1]
           r == Readout(m, 1, readout_count)
<1>1. /\ pc = "assemble"
      /\ Expired(partial_ro_buff)
      /\ published' = published
      /\ readouts' = AssembleReadouts(m)
      /\ HasReadouts(m, m.nreadouts)
  BY DEF Assemble, Oldest
<1>2. /\ readouts = << >> /\ published \in Seq(ReadoutType)
      /\ partial_ro_buff \in Seq(MatchedPacketType) /\ partial_ro_buff # << >>
      /\ readout_count \in Nat \ {0}
  BY <1>1 DEF IInv, TypeOK, BufferInv, PendingWhilePublishing, NeverIndexesEmpty
<1>3. 1 \in 1 .. Len(partial_ro_buff)
  BY <1>2, EmptySeq
<1>4. m \in MatchedPacketType /\ InWindow(m) /\ OneEvent(m)
  BY <1>2, <1>3 DEF IInv, BufferInv, PartsInWindow, PartsOfEvents
<1>5. m.nreadouts = 1 /\ Tms(m) # {}
  BY <1>4 DEF OneEvent, InWindow
<1>6. /\ AssembleReadouts(m) \in Seq(ReadoutType)
      /\ Len(AssembleReadouts(m)) = 1
  BY <1>1, <1>2, <1>4, <1>5, AssembledType
<1>7. AssembleReadouts(m)[1] = r
  <2>1. AssembleReadouts(m)[1] = Readout(m, 1, readout_count + 1 - 1)
    BY <1>5 DEF AssembleReadouts
  <2>2. readout_count + 1 - 1 = readout_count
    BY <1>2
  <2>3. QED
    BY <2>1, <2>2
<1> HIDE DEF m, r
<1>8. Out = published
  BY <1>2, ConcatEmptySeq DEF Out
<1>9. Out' = published \o readouts'
  BY <1>1 DEF Out
<1>10. /\ Len(Out') = Len(published) + 1
       /\ \A i \in 1 .. Len(published) + 1 :
            Out'[i] = IF i <= Len(published) THEN published[i]
                      ELSE readouts'[i - Len(published)]
  <2>1. /\ published \in Seq(ReadoutType) /\ readouts' \in Seq(ReadoutType)
        /\ Len(readouts') = 1
    BY <1>1, <1>2, <1>6
  <2>2. /\ Len(published \o readouts') = Len(published) + Len(readouts')
        /\ \A i \in 1 .. Len(published) + Len(readouts') :
             (published \o readouts')[i] = IF i <= Len(published) THEN published[i]
                                           ELSE readouts'[i - Len(published)]
    BY <2>1, ConcatProperties
  <2>3. QED
    BY <1>9, <2>1, <2>2
<1>11. Len(published) \in Nat
  BY <1>2
<1>12. \A i \in 1 .. Len(Out) : Out'[i] = Out[i]
  BY <1>8, <1>10, <1>11
<1>13. Out'[Len(Out) + 1] = r
  BY <1>1, <1>7, <1>8, <1>10, <1>11
<1>14. QED
  BY <1>4, <1>8, <1>10, <1>12, <1>13 DEF m, r

\* With one readout in each packet, unpacking never runs past a payload.
LEMMA AssemblingSucceeds ==
  ASSUME IInv, PartsOfEvents
  PROVE  ~ AssembleFails
<1> SUFFICES ASSUME AssembleFails
             PROVE  FALSE
  OBVIOUS
<1> DEFINE m == partial_ro_buff[1]
<1>1. PICK k \in 0 .. m.nreadouts - 1 : ~ HasReadouts(m, k + 1)
  BY DEF AssembleFails, Oldest
<1>2. pc = "assemble"
  BY DEF AssembleFails
<1>3. partial_ro_buff \in Seq(MatchedPacketType) /\ partial_ro_buff # << >>
  BY <1>2 DEF IInv, TypeOK, BufferInv, NeverIndexesEmpty
<1>4. 1 \in 1 .. Len(partial_ro_buff)
  BY <1>3, EmptySeq
<1>5. OneEvent(m)
  BY <1>4 DEF PartsOfEvents
<1>6. k = 0
  BY <1>1, <1>5 DEF OneEvent
<1>7. HasReadouts(m, 1)
  BY <1>5 DEF HasReadouts, OneEvent
<1>8. QED
  BY <1>1, <1>6, <1>7

-----------------------------------------------------------------------------
(* The packets on their way *)

\* Nothing has been received at the start.
LEMMA ReceivedInit == Init => Received
BY DEF Init, Received

\* Appending and removing keep what holds of every element of a sequence.
LEMMA AppendOneReadout ==
  ASSUME NEW s \in Seq(Packet), NEW p \in Packet, OneReadout(p),
         \A i \in 1 .. Len(s) : OneReadout(s[i])
  PROVE  \A i \in 1 .. Len(Append(s, p)) : OneReadout(Append(s, p)[i])
BY AppendProperties

\* The same when the first element is taken.
LEMMA TailOneReadout ==
  ASSUME NEW s \in Seq(Packet), s # << >>,
         \A i \in 1 .. Len(s) : OneReadout(s[i])
  PROVE  /\ OneReadout(Head(s))
         /\ \A i \in 1 .. Len(Tail(s)) : OneReadout(Tail(s)[i])
<1>1. Len(s) \in Nat \ {0} /\ Head(s) = s[1]
  BY EmptySeq
<1>2. OneReadout(Head(s))
  BY <1>1
<1>3. Len(Tail(s)) = Len(s) - 1 /\ \A i \in 1 .. Len(Tail(s)) : Tail(s)[i] = s[i + 1]
  BY HeadTailProperties
<1>4. QED
  BY <1>1, <1>2, <1>3

\* The packet that a get returns came from a datagram.
LEMMA GetReceived ==
  ASSUME IInv, Received, NEW p, Get(p)
  PROVE  /\ p \in Packet /\ OneReadout(p)
         /\ \A i \in 1 .. Len(queue') : OneReadout(queue'[i])
         /\ Take(p) => \A i \in 1 .. Len(taken') : OneReadout(taken'[i])
<1>1. queue # << >> /\ p = Head(queue) /\ queue' = Tail(queue)
  BY DEF Get, NextPacket
<1>2. p \in Packet /\ queue \in Seq(Packet) /\ taken \in Seq(Packet)
  BY GetType DEF IInv, TypeOK
<1>3. OneReadout(p) /\ \A i \in 1 .. Len(queue') : OneReadout(queue'[i])
  BY <1>1, <1>2, TailOneReadout DEF Received
<1>4. ASSUME Take(p)
      PROVE  \A i \in 1 .. Len(taken') : OneReadout(taken'[i])
  <2>1. taken' = Append(taken, p)
    BY <1>4 DEF Take
  <2>2. QED
    BY <1>2, <1>3, <2>1, AppendOneReadout DEF Received
<1>5. QED
  BY <1>2, <1>3, <1>4

\* Packets are only passed on: what is on its way came from a datagram.
LEMMA StepKeepsReceived ==
  ASSUME Separated, IInv, Received, [Next]_vars
  PROVE  Received'
<1>1. CASE Network
  <2>1. PICK d \in Datagrams : DatagramReceived(d)
    BY <1>1 DEF Network
  <2>2. Accepted(d) /\ Len(d.tacks) = 1 /\ d.tacks[1] \in Tacks
    BY DEF Separated, Tacks
  <2> DEFINE p == [tm |-> ModuleNr(d), tacks |-> d.tacks]
  <2>3. p \in Packet /\ OneReadout(p)
    BY <2>2, DatagramsAssumption DEF Accepted, Packet, DatagramType, OneReadout
  <2>4. puts' = Append(puts, p) /\ UNCHANGED <<queue, taken>>
    BY <2>1, <2>2 DEF DatagramReceived
  <2> HIDE DEF p
  <2>5. \A i \in 1 .. Len(puts') : OneReadout(puts'[i])
    BY <2>3, <2>4, AppendOneReadout DEF Received, IInv, TypeOK
  <2>6. QED
    BY <2>4, <2>5 DEF Received
<1>2. CASE PutTask
  <2>1. /\ puts # << >> /\ puts' = Tail(puts) /\ queue' = Append(queue, Head(puts))
        /\ taken' = taken
    BY <1>2 DEF PutTask
  <2>2. puts \in Seq(Packet) /\ queue \in Seq(Packet) /\ Head(puts) \in Packet
    BY <2>1, HeadTailProperties DEF IInv, TypeOK
  <2>3. OneReadout(Head(puts)) /\ \A i \in 1 .. Len(puts') : OneReadout(puts'[i])
    BY <2>1, <2>2, TailOneReadout DEF Received
  <2>4. \A i \in 1 .. Len(queue') : OneReadout(queue'[i])
    BY <2>1, <2>2, <2>3, AppendOneReadout DEF Received
  <2>5. QED
    BY <2>1, <2>3, <2>4 DEF Received
<1>3. CASE DrainGet
  <2>1. queue # << >> /\ queue' = Tail(queue) /\ UNCHANGED <<puts, taken>>
    BY <1>3 DEF DrainGet, netVars
  <2>2. \A i \in 1 .. Len(queue') : OneReadout(queue'[i])
    BY <2>1, TailOneReadout DEF Received, IInv, TypeOK
  <2>3. QED
    BY <2>1, <2>2 DEF Received
<1>4. ASSUME NEW p, FirstPacket(p) \/ MatchNewest(p) \/ NewPartial(p) \/ LatePacket(p)
      PROVE  Received'
  <2>1. Get(p) /\ Take(p) /\ puts' = puts
    BY <1>4 DEF FirstPacket, MatchNewest, NewPartial, LatePacket, Take, netVars
  <2>2. QED
    BY <2>1, GetReceived DEF Received
<1>5. ASSUME NEW p, EmptyPacket(p)
      PROVE  Received'
  <2>1. Get(p) /\ puts' = puts /\ taken' = taken
    BY <1>5 DEF EmptyPacket, netVars
  <2>2. QED
    BY <2>1, GetReceived DEF Received
<1>6. CASE DrainTimeout \/ Assemble \/ AssembleFails \/ AssembleNothing \/ Publish
           \/ UNCHANGED vars
  <2>1. UNCHANGED <<puts, queue, taken>>
    BY <1>6 DEF DrainTimeout, Assemble, AssembleFails, AssembleNothing, Publish,
       netVars, vars
  <2>2. QED
    BY <2>1 DEF Received
<1>7. QED
  BY <1>1, <1>2, <1>3, <1>4, <1>5, <1>6 DEF Next, Coroutine

-----------------------------------------------------------------------------
(* The invariant of the events *)

\* The start has no event.
LEMMA InitEvents == Init => EventInv
<1> SUFFICES ASSUME Init
             PROVE  EventInv
  OBVIOUS
<1>1. Out = << >> /\ Len(<< >>) = 0
  BY DEF Init, Out
<1>2. Received
  BY ReceivedInit
<1>3. Len(partial_ro_buff) = 0
  BY DEF Init
<1>4. QED
  BY <1>1, <1>2, <1>3
  DEF EventInv, PartsOfEvents, OutIsGood, OutIsApart, OutComesFirst, NothingYet

\* Steps that the deque and the stream do not see.
LEMMA QuietStep ==
  ASSUME IInv,
         \/ Network \/ PutTask \/ DrainGet \/ DrainTimeout
         \/ AssembleNothing \/ Publish \/ UNCHANGED vars
         \/ \E p : LatePacket(p) \/ EmptyPacket(p)
  PROVE  /\ partial_ro_buff' = partial_ro_buff /\ Out' = Out
         /\ pc' \in {"drain", "first"} => pc \in {"drain", "first"}
<1>1. CASE Network \/ PutTask
  BY <1>1 DEF Network, DatagramReceived, PutTask, buffVars, Out
<1>2. CASE DrainGet \/ DrainTimeout \/ AssembleNothing
  BY <1>2 DEF DrainGet, DrainTimeout, AssembleNothing, buffVars, Out
<1>3. CASE Publish
  <2>1. pc' \in {"assemble", "publish"} /\ partial_ro_buff' = partial_ro_buff
    BY <1>3 DEF Publish
  <2>2. QED
    BY <1>3, <2>1, PublishKeepsOut
<1>4. CASE UNCHANGED vars
  BY <1>4 DEF vars, buffVars, Out
<1>5. ASSUME NEW p, LatePacket(p) \/ EmptyPacket(p)
      PROVE  UNCHANGED <<partial_ro_buff, Out>> /\ pc' \in {"dead", "assemble"}
  BY <1>5 DEF LatePacket, EmptyPacket, buffVars, Out
<1>6. QED
  BY <1>1, <1>2, <1>3, <1>4, <1>5

\* They keep the invariant of the events.
LEMMA QuietKeepsEvents ==
  ASSUME EventInv, Received', partial_ro_buff' = partial_ro_buff, Out' = Out,
         pc' \in {"drain", "first"} => pc \in {"drain", "first"}
  PROVE  EventInv'
<1>1. PartsOfEvents'
  BY DEF EventInv, PartsOfEvents
<1>2. OutIsGood' /\ OutIsApart' /\ OutComesFirst'
  BY DEF EventInv, OutIsGood, OutIsApart, OutComesFirst
<1>3. NothingYet'
  BY DEF EventInv, NothingYet
<1>4. QED
  BY <1>1, <1>2, <1>3 DEF EventInv

\* What a packet that opens a partial readout brings: it is of one event, and
\* later than every partial readout there is.
LEMMA Opening ==
  ASSUME IInv, Received, NEW p, FirstPacket(p) \/ NewPartial(p)
  PROVE  /\ MatchedPacket(p) \in MatchedPacketType
         /\ OneEvent(MatchedPacket(p))
         /\ p.tm \in Tms(MatchedPacket(p))
         /\ MatchedPacket(p).tack = p.tacks[1]
         /\ p.tacks[1] \in Nat
         /\ partial_ro_buff' = DequeAppend(partial_ro_buff, MatchedPacket(p))
         /\ Out' = Out /\ pc' \notin {"drain", "first"}
         /\ Get(p) /\ Take(p)
         /\ partial_ro_buff # << >> => pc = "loop"
         /\ pc = "loop" => /\ partial_ro_buff # << >>
                           /\ Newest(partial_ro_buff).tack < p.tacks[1]
<1>1. /\ Get(p) /\ Take(p)
      /\ partial_ro_buff' = DequeAppend(partial_ro_buff, MatchedPacket(p))
      /\ UNCHANGED <<readouts, published>>
      /\ pc \in {"first", "loop"} /\ pc' \in {"loop", "assemble"}
  BY DEF FirstPacket, NewPartial, Take
<1>2. p \in Packet /\ OneReadout(p) /\ p.tacks # << >> /\ p.tacks[1] \in Nat
  BY <1>1, GetReceived, GetType DEF IInv
<1>3. /\ MatchedPacket(p) \in MatchedPacketType
      /\ MatchedPacket(p).tack = p.tacks[1]
  BY <1>2, MatchedPacketProperties
<1>4. OneEvent(MatchedPacket(p)) /\ p.tm \in Tms(MatchedPacket(p))
  BY <1>2, OneEventOfPacket
<1>5. partial_ro_buff # << >> => pc = "loop"
  BY <1>1 DEF IInv, BufferInv, NeverIndexesEmpty
<1>6. ASSUME pc = "loop"
      PROVE  partial_ro_buff # << >> /\ Newest(partial_ro_buff).tack < p.tacks[1]
  <2>1. partial_ro_buff # << >>
    BY <1>6 DEF IInv, BufferInv, NeverIndexesEmpty
  <2>2. Newest(partial_ro_buff).tack - p.tacks[1] < 0
    BY <1>6 DEF FirstPacket, NewPartial, Dt
  <2>3. Newest(partial_ro_buff).tack \in Nat
    BY <2>1, ExpiredMeansOlder DEF IInv, TypeOK, BufferInv
  <2>4. QED
    BY <1>2, <2>1, <2>2, <2>3
<1>7. QED
  BY <1>1, <1>2, <1>3, <1>4, <1>5, <1>6 DEF Out

\* A new partial readout comes after every readout, whether or not the deque
\* drops its oldest one.
LEMMA OpenKeepsEvents ==
  ASSUME IInv, EventInv, Received', NEW p, FirstPacket(p) \/ NewPartial(p)
  PROVE  EventInv'
<1> DEFINE d == partial_ro_buff
           m == MatchedPacket(p)
<1>1. /\ m \in MatchedPacketType /\ OneEvent(m) /\ m.tack = p.tacks[1] /\ p.tacks[1] \in Nat
      /\ d' = DequeAppend(d, m)
      /\ Out' = Out /\ pc' \notin {"drain", "first"}
      /\ pc \in {"first", "loop"}
      /\ pc = "loop" => d # << >> /\ Newest(d).tack < p.tacks[1]
  BY Opening DEF EventInv, FirstPacket, NewPartial
<1>2. d \in Seq(MatchedPacketType) /\ Len(d) \in Nat
  BY DEF IInv, TypeOK
<1> HIDE DEF m
<1>3. PICK k \in 0 .. 1 :
        /\ k <= Len(d)
        /\ Len(d') = Len(d) + 1 - k
        /\ \A i \in 1 .. Len(d) - k : d'[i] = d[i + k]
        /\ d'[Len(d) + 1 - k] = m
  <2> DEFINE e == DequeAppend(d, m)
  <2>1. \E k \in 0 .. 1 :
          /\ k <= Len(d)
          /\ Len(e) = Len(d) + 1 - k
          /\ \A i \in 1 .. Len(d) - k : e[i] = d[i + k]
          /\ e[Len(d) + 1 - k] = m
    <3>1. m \in MatchedPacketType /\ d \in Seq(MatchedPacketType)
      BY <1>1, <1>2
    <3>2. QED
      BY <3>1, DequeAppendProperties
  <2>2. d' = e
    BY <1>1
  <2> HIDE DEF e
  <2>3. QED
    BY <2>1, <2>2
<1>4. PartsOfEvents'
  <2> SUFFICES ASSUME NEW i \in 1 .. Len(d')
               PROVE  OneEvent(d'[i])
    BY DEF PartsOfEvents
  <2>1. CASE i < Len(d')
    <3>1. i + k \in 1 .. Len(d) /\ d'[i] = d[i + k]
      BY <2>1, <1>2, <1>3
    <3>2. QED
      BY <3>1 DEF EventInv, PartsOfEvents
  <2>2. CASE i = Len(d')
    BY <2>2, <1>1, <1>3
  <2>3. QED
    BY <2>1, <2>2, <1>2, <1>3
<1>5. ASSUME NEW i \in 1 .. Len(Out), NEW j \in 1 .. Len(d')
      PROVE  Out[i].tack + ReadoutTw <= d'[j].tack
  <2>1. CASE j < Len(d')
    <3>1. j + k \in 1 .. Len(d) /\ d'[j] = d[j + k]
      BY <2>1, <1>2, <1>3
    <3>2. QED
      BY <3>1 DEF EventInv, OutComesFirst
  <2>2. CASE j = Len(d')
    <3>1. Out # << >>
      <4>1. Len(<< >>) = 0
        OBVIOUS
      <4>2. QED
        BY <4>1
    <3>2. pc = "loop"
      BY <1>1, <3>1 DEF EventInv, NothingYet
    <3>3. Len(d) \in 1 .. Len(d) /\ Newest(d) = d[Len(d)] /\ d[Len(d)].tack < p.tacks[1]
      BY <1>1, <1>2, <3>2, EmptySeq DEF Newest
    <3>4. Out[i].tack + ReadoutTw <= d[Len(d)].tack
      BY <3>3 DEF EventInv, OutComesFirst
    <3>5. d'[j].tack = p.tacks[1]
      BY <2>2, <1>1, <1>3
    <3>6. Out[i].tack \in Nat /\ d[Len(d)].tack \in Nat
      <4>1. Out[i] \in ReadoutType
        BY OutElements DEF IInv
      <4>2. QED
        BY <4>1, <1>2, <3>3, TackType DEF ReadoutType
    <3>7. QED
      BY <1>1, <3>3, <3>4, <3>5, <3>6, ReadoutTwAssumption
  <2>3. QED
    BY <2>1, <2>2, <1>2, <1>3
<1>6. OutComesFirst'
  BY <1>1, <1>5 DEF OutComesFirst
<1>7. OutIsGood' /\ OutIsApart'
  BY <1>1 DEF EventInv, OutIsGood, OutIsApart
<1>8. NothingYet'
  BY <1>1 DEF NothingYet
<1>9. QED
  BY <1>4, <1>6, <1>7, <1>8 DEF EventInv

\* What a packet that joins the newest partial readout brings.
LEMMA Joining ==
  ASSUME IInv, EventInv, NEW p, MatchNewest(p)
  PROVE  LET d == partial_ro_buff
             n == Len(partial_ro_buff)
             m == AddPart(d[n], p)
         IN  /\ Get(p) /\ Take(p)
             /\ Out' = Out /\ pc' \notin {"drain", "first"}
             /\ n \in 1 .. n /\ d[n] \in MatchedPacketType
             /\ d' = [d EXCEPT ![n] = m]
             /\ Len(d') = n
             /\ \A i \in 1 .. n : d'[i] = IF i = n THEN m ELSE d[i]
             /\ OneEvent(m) /\ m.tack = d[n].tack /\ Tms(m) = Tms(d[n]) \cup {p.tm}
             /\ SameEvent(d[n].tack, p.tacks[1])
<1> DEFINE d == partial_ro_buff
           n == Len(partial_ro_buff)
           m == AddPart(d[n], p)
<1>1. /\ Get(p) /\ Take(p) /\ pc = "loop" /\ pc' = "assemble"
      /\ UNCHANGED <<readouts, published>>
      /\ Abs(d[n].tack - p.tacks[1]) < ReadoutTw
      /\ d' = [d EXCEPT ![n] = m]
  BY DEF MatchNewest, Take, Dt, Newest
<1>2. d \in Seq(MatchedPacketType) /\ d # << >>
  BY <1>1 DEF IInv, TypeOK, BufferInv, NeverIndexesEmpty
<1>3. n \in 1 .. n /\ d[n] \in MatchedPacketType
  BY <1>2, EmptySeq
<1>4. OneEvent(d[n])
  BY <1>3 DEF EventInv, PartsOfEvents
<1>5. p \in Packet /\ OneReadout(p) /\ p.tacks # << >>
  BY <1>1, GetReceived, GetType DEF IInv, EventInv
<1>6. OneEvent(m) /\ m.tack = d[n].tack /\ Tms(m) = Tms(d[n]) \cup {p.tm}
  BY <1>3, <1>4, <1>5, OneEventOfPart
<1> HIDE DEF m
<1>7. Len(d') = n /\ \A i \in 1 .. n : d'[i] = IF i = n THEN m ELSE d[i]
  BY <1>1, <1>2
<1>8. QED
  BY <1>1, <1>3, <1>6, <1>7 DEF Out, SameEvent, m

\* Joining does not move a partial readout: its tack stays.
LEMMA JoinKeepsEvents ==
  ASSUME IInv, EventInv, Received', NEW p, MatchNewest(p)
  PROVE  EventInv'
<1> DEFINE d == partial_ro_buff
           n == Len(partial_ro_buff)
           m == AddPart(d[n], p)
<1>1. /\ Out' = Out /\ pc' \notin {"drain", "first"}
      /\ Len(d') = n
      /\ \A i \in 1 .. n : d'[i] = IF i = n THEN m ELSE d[i]
      /\ OneEvent(m) /\ m.tack = d[n].tack
  BY Joining
<1> HIDE DEF m
<1>2. PartsOfEvents'
  BY <1>1 DEF EventInv, PartsOfEvents
<1>3. \A i \in 1 .. n : d'[i].tack = d[i].tack
  BY <1>1
<1>4. OutComesFirst'
  BY <1>1, <1>3 DEF EventInv, OutComesFirst
<1>5. OutIsGood' /\ OutIsApart'
  BY <1>1 DEF EventInv, OutIsGood, OutIsApart
<1>6. NothingYet'
  BY <1>1 DEF NothingYet
<1>7. QED
  BY <1>2, <1>4, <1>5, <1>6 DEF EventInv

\* The readout that is assembled is later than those before it and earlier than
\* what stays in the deque, by the tacks of its modules too.
LEMMA AssembleKeepsEvents ==
  ASSUME Separated, IInv, EventInv, Received', Assemble
  PROVE  EventInv'
<1> DEFINE d == partial_ro_buff
           m == d[1]
           n == Len(Out) + 1
           r == Readout(m, 1, readout_count)
<1>1. /\ m \in MatchedPacketType /\ InWindow(m) /\ OneEvent(m)
      /\ Len(Out') = n
      /\ \A i \in 1 .. Len(Out) : Out'[i] = Out[i]
      /\ Out'[n] = r
  BY AssembleExtendsOut DEF EventInv
<1>2. pc = "assemble" /\ pc' = "publish" /\ d' = Tail(d)
  BY DEF Assemble
<1>3. d \in Seq(MatchedPacketType) /\ d # << >> /\ Spread(d)
  BY <1>2 DEF IInv, TypeOK, BufferInv, NeverIndexesEmpty
<1>4. /\ Len(d) \in Nat /\ Len(d) >= 1 /\ Len(d') = Len(d) - 1
      /\ \A j \in 1 .. Len(d') : j + 1 \in 1 .. Len(d) /\ d'[j] = d[j + 1]
  BY <1>2, <1>3, EmptySeq, HeadTailProperties
<1>5. Len(Out) \in Nat /\ \A i \in 1 .. Len(Out) : Out[i].tack \in Tacks
  BY OutElements DEF IInv, EventInv, OutIsGood, GoodReadout
<1>6. /\ GoodReadout(r)
      /\ r.tack \in Tacks /\ SameEvent(r.tack, m.tack) /\ m.tack \in Tacks
  BY <1>1, ReadoutOfEvent DEF OneEvent, GoodReadout
<1>7. \A j \in 1 .. Len(d) : d[j].tack \in Tacks
  BY DEF EventInv, PartsOfEvents, OneEvent
<1>8. \A x \in Tacks : x \in Nat /\ SameEvent(x, x)
  BY TacksAreNumbers, SameEventMeans
<1>9. ReadoutTw \in Nat
  BY ReadoutTwAssumption
<1>10. ASSUME NEW i \in 1 .. Len(Out)
       PROVE  Out[i].tack + ReadoutTw <= r.tack
  <2>1. Out[i].tack + ReadoutTw <= m.tack
    BY <1>4 DEF EventInv, OutComesFirst
  <2>2. QED
    BY <1>5, <1>6, <1>8, <2>1, TriggersAreApart
<1>11. ASSUME NEW j \in 2 .. Len(d)
       PROVE  r.tack + ReadoutTw <= d[j].tack
  <2>1. d[j].tack - d[1].tack >= (j - 1) * ReadoutTw
    BY <1>4, <1>3 DEF Spread
  <2>2. d[j].tack \in Nat /\ d[1].tack \in Nat
    BY <1>4, <1>7, <1>8
  <2>3. (j - 1) * ReadoutTw >= ReadoutTw
    <3>1. (j - 1) * ReadoutTw = (j - 2) * ReadoutTw + ReadoutTw
      BY <1>9, <1>4
    <3>2. (j - 2) * ReadoutTw >= 0
      BY <1>9, <1>4
    <3>3. QED
      BY <3>1, <3>2, <1>9, <1>4
  <2>4. m.tack + ReadoutTw <= d[j].tack
    <3> DEFINE A == (j - 1) * ReadoutTw
    <3>1. A \in Int /\ A >= ReadoutTw /\ d[j].tack - d[1].tack >= A
      BY <2>1, <2>3, <1>9, <1>4
    <3> HIDE DEF A
    <3>2. QED
      BY <3>1, <2>2, <1>9
  <2>5. QED
    BY <1>6, <1>7, <1>8, <1>4, <2>4, TriggersAreApart
<1>12. n \in Nat /\ \A i \in 1 .. n : i = n \/ i \in 1 .. Len(Out)
  BY <1>5
<1> HIDE DEF r, m, n
<1>13. PartsOfEvents'
  BY <1>4 DEF EventInv, PartsOfEvents
<1>14. OutIsGood'
  BY <1>1, <1>6, <1>12 DEF EventInv, OutIsGood
<1>15. OutIsApart'
  <2> SUFFICES ASSUME NEW i \in 1 .. n, NEW j \in 1 .. n, i < j
               PROVE  Out'[i].tack + ReadoutTw <= Out'[j].tack
    BY <1>1 DEF OutIsApart
  <2>1. i \in 1 .. Len(Out) /\ Out'[i] = Out[i]
    BY <1>1, <1>12 DEF n
  <2>2. CASE j = n
    BY <1>1, <1>10, <2>1, <2>2
  <2>3. CASE j \in 1 .. Len(Out)
    BY <1>1, <2>1, <2>3 DEF EventInv, OutIsApart
  <2>4. QED
    BY <1>12, <2>2, <2>3
<1>16. OutComesFirst'
  <2> SUFFICES ASSUME NEW i \in 1 .. n, NEW j \in 1 .. Len(d')
               PROVE  Out'[i].tack + ReadoutTw <= d'[j].tack
    BY <1>1 DEF OutComesFirst
  <2>1. j + 1 \in 1 .. Len(d) /\ j + 1 \in 2 .. Len(d) /\ d'[j] = d[j + 1]
    BY <1>4
  <2>2. CASE i = n
    BY <1>1, <1>11, <2>1, <2>2
  <2>3. CASE i \in 1 .. Len(Out)
    BY <1>1, <2>1, <2>3 DEF EventInv, OutComesFirst
  <2>4. QED
    BY <1>12, <2>2, <2>3
<1>17. NothingYet'
  BY <1>2 DEF NothingYet
<1>18. QED
  BY <1>13, <1>14, <1>15, <1>16, <1>17 DEF EventInv

\* Every step keeps the invariant of the events.
LEMMA StepKeepsEvents ==
  ASSUME Separated, IInv, EventInv, [Next]_vars
  PROVE  EventInv'
<1>1. Received'
  BY StepKeepsReceived DEF EventInv
<1>2. CASE \/ Network \/ PutTask \/ DrainGet \/ DrainTimeout
           \/ AssembleNothing \/ Publish \/ UNCHANGED vars
           \/ \E p : LatePacket(p) \/ EmptyPacket(p)
  BY <1>1, <1>2, QuietStep, QuietKeepsEvents
<1>3. ASSUME NEW p, FirstPacket(p) \/ NewPartial(p)
      PROVE  EventInv'
  BY <1>1, <1>3, OpenKeepsEvents
<1>4. ASSUME NEW p, MatchNewest(p)
      PROVE  EventInv'
  BY <1>1, <1>4, JoinKeepsEvents
<1>5. CASE Assemble
  BY <1>1, <1>5, AssembleKeepsEvents
<1>6. ~ AssembleFails
  BY AssemblingSucceeds DEF EventInv
<1>7. QED
  BY <1>2, <1>3, <1>4, <1>5, <1>6 DEF Next, Coroutine

\* Together in every reachable state: what is received, waits in the deque and
\* leaves it has one event in each packet, partial readout and readout.
THEOREM EventInvariance == ASSUME Separated PROVE Spec => [](IInv /\ EventInv)
<1>1. Init => IInv /\ EventInv
  BY InitInv, InitEvents
<1>2. IInv /\ EventInv /\ [Next]_vars => (IInv /\ EventInv)'
  BY NextKeepsInv, StepKeepsEvents
<1>3. QED
  BY <1>1, <1>2, PTL DEF Spec

-----------------------------------------------------------------------------
(* The stream *)

\* The tack that the deque ordered element number i of the stream by, once it
\* is out that of its lowest module.
Opened(i) == IF i <= Len(Out) THEN Out[i].tack
                              ELSE partial_ro_buff[i - Len(Out)].tack

\* The stream, element by element.
LEMMA StreamElements ==
  ASSUME TypeOK
  PROVE  /\ DOMAIN Stream = 1 .. Len(Out) + Len(partial_ro_buff)
         /\ \A i \in DOMAIN Stream :
              Stream[i] = IF i <= Len(Out) THEN Out[i]
                          ELSE Readout(partial_ro_buff[i - Len(Out)], 1, readout_count)
<1> DEFINE q == [i \in DOMAIN partial_ro_buff |->
                   Readout(partial_ro_buff[i], 1, readout_count)]
           S == {q[i] : i \in DOMAIN partial_ro_buff} \cup ReadoutType
<1>1. /\ Len(partial_ro_buff) \in Nat
      /\ DOMAIN partial_ro_buff = 1 .. Len(partial_ro_buff)
  BY DEF TypeOK
<1>2. /\ q \in Seq(S) /\ Len(q) = Len(partial_ro_buff)
      /\ \A i \in 1 .. Len(partial_ro_buff) :
           q[i] = Readout(partial_ro_buff[i], 1, readout_count)
  <2>1. \A i \in 1 .. Len(partial_ro_buff) : q[i] \in S
    BY <1>1
  <2>2. q \in [1 .. Len(partial_ro_buff) -> S]
    BY <1>1, <2>1
  <2>3. QED
    BY <1>1, <2>2
<1>3. Out \in Seq(S) /\ Len(Out) \in Nat
  BY OutElements, SeqMonotonic
<1>4. Stream = Out \o q
  BY DEF Stream, Out
<1> HIDE DEF q, S
<1>5. /\ Stream \in Seq(S)
      /\ Len(Stream) = Len(Out) + Len(q)
      /\ \A i \in 1 .. Len(Out) + Len(q) :
           Stream[i] = IF i <= Len(Out) THEN Out[i] ELSE q[i - Len(Out)]
  <2>1. /\ Out \o q \in Seq(S)
        /\ Len(Out \o q) = Len(Out) + Len(q)
        /\ \A i \in 1 .. Len(Out) + Len(q) :
             (Out \o q)[i] = IF i <= Len(Out) THEN Out[i] ELSE q[i - Len(Out)]
    BY <1>2, <1>3, ConcatProperties
  <2>2. QED
    BY <1>4, <2>1
<1>6. DOMAIN Stream = 1 .. Len(Out) + Len(partial_ro_buff)
  BY <1>2, <1>5
<1>7. \A i \in 1 .. Len(Out) + Len(partial_ro_buff) :
        ~ (i <= Len(Out)) => i - Len(Out) \in 1 .. Len(partial_ro_buff)
  BY <1>1, <1>3
<1>8. QED
  BY <1>2, <1>5, <1>6, <1>7

\* Each element of the stream holds one event, and the events are readout_tw
\* apart and in their order.
LEMMA StreamOfEvents ==
  ASSUME Separated, IInv, EventInv
  PROVE  /\ \A i \in DOMAIN Stream :
              /\ GoodReadout(Stream[i])
              /\ Opened(i) \in Tacks /\ SameEvent(Stream[i].tack, Opened(i))
         /\ \A i, j \in DOMAIN Stream : i < j => Opened(i) + ReadoutTw <= Opened(j)
<1> DEFINE d == partial_ro_buff
<1>1. /\ DOMAIN Stream = 1 .. Len(Out) + Len(d)
      /\ \A i \in DOMAIN Stream :
           Stream[i] = IF i <= Len(Out) THEN Out[i]
                       ELSE Readout(d[i - Len(Out)], 1, readout_count)
  BY StreamElements DEF IInv
<1>2. Len(Out) \in Nat /\ d \in Seq(MatchedPacketType) /\ Len(d) \in Nat
  BY OutElements DEF IInv, TypeOK
<1>3. \A i \in DOMAIN Stream :
        \/ i \in 1 .. Len(Out) /\ i <= Len(Out)
        \/ i - Len(Out) \in 1 .. Len(d) /\ ~ (i <= Len(Out))
  BY <1>1, <1>2
<1>4. ASSUME NEW i \in DOMAIN Stream
      PROVE  /\ GoodReadout(Stream[i])
             /\ Opened(i) \in Tacks /\ SameEvent(Stream[i].tack, Opened(i))
  <2>1. CASE i \in 1 .. Len(Out) /\ i <= Len(Out)
    <3>1. Stream[i] = Out[i] /\ Opened(i) = Out[i].tack
      BY <1>1, <2>1 DEF Opened
    <3>2. GoodReadout(Out[i]) /\ Out[i].tack \in Tacks
      BY <2>1 DEF EventInv, OutIsGood, GoodReadout
    <3>3. SameEvent(Out[i].tack, Out[i].tack)
      BY <3>2, TacksAreNumbers, SameEventMeans
    <3>4. QED
      BY <3>1, <3>2, <3>3
  <2>2. CASE i - Len(Out) \in 1 .. Len(d) /\ ~ (i <= Len(Out))
    <3> DEFINE m == d[i - Len(Out)]
    <3>1. Stream[i] = Readout(m, 1, readout_count) /\ Opened(i) = m.tack
      BY <1>1, <2>2 DEF Opened
    <3>2. m \in MatchedPacketType /\ InWindow(m) /\ OneEvent(m)
      BY <1>2, <2>2 DEF IInv, BufferInv, PartsInWindow, EventInv, PartsOfEvents
    <3>3. QED
      BY <3>1, <3>2, ReadoutOfEvent DEF OneEvent
  <2>3. QED
    BY <1>3, <2>1, <2>2
<1>5. ASSUME NEW i \in DOMAIN Stream, NEW j \in DOMAIN Stream, i < j
      PROVE  Opened(i) + ReadoutTw <= Opened(j)
  <2>1. CASE j <= Len(Out)
    <3>1. i \in 1 .. Len(Out) /\ j \in 1 .. Len(Out) /\ i <= Len(Out)
      BY <1>1, <1>2, <1>5, <2>1
    <3>2. QED
      BY <1>5, <2>1, <3>1 DEF Opened, EventInv, OutIsApart
  <2>2. CASE i <= Len(Out) /\ ~ (j <= Len(Out))
    <3>1. i \in 1 .. Len(Out) /\ j - Len(Out) \in 1 .. Len(d)
      BY <1>3, <2>2
    <3>2. QED
      BY <2>2, <3>1 DEF Opened, EventInv, OutComesFirst
  <2>3. CASE ~ (i <= Len(Out)) /\ ~ (j <= Len(Out))
    <3> DEFINE a == i - Len(Out)
               b == j - Len(Out)
    <3>1. a \in 1 .. Len(d) /\ b \in 1 .. Len(d) /\ a < b /\ b - a >= 1 /\ b - a \in Nat
      BY <1>1, <1>2, <1>3, <1>5, <2>3
    <3>2. Opened(i) = d[a].tack /\ Opened(j) = d[b].tack
      BY <2>3 DEF Opened
    <3> HIDE DEF a, b
    <3>3. d[a].tack \in Nat /\ d[b].tack \in Nat
      BY <1>2, <3>1, TackType
    <3>4. d[b].tack - d[a].tack >= (b - a) * ReadoutTw
      BY <3>1 DEF IInv, BufferInv, Spread
    <3>5. (b - a) * ReadoutTw >= ReadoutTw /\ (b - a) * ReadoutTw \in Nat
      <4>1. (b - a) * ReadoutTw = ((b - a) - 1) * ReadoutTw + ReadoutTw
        BY <3>1, ReadoutTwAssumption
      <4>2. ((b - a) - 1) * ReadoutTw \in Nat
        BY <3>1, ReadoutTwAssumption
      <4>3. QED
        BY <4>1, <4>2, ReadoutTwAssumption
    <3> DEFINE A == (b - a) * ReadoutTw
    <3>6. A \in Nat /\ A >= ReadoutTw /\ d[b].tack - d[a].tack >= A
      BY <3>4, <3>5
    <3> HIDE DEF A
    <3>7. d[a].tack + ReadoutTw <= d[b].tack
      BY <3>3, <3>6, ReadoutTwAssumption
    <3>8. QED
      BY <3>2, <3>7
  <2>4. QED
    BY <1>2, <2>1, <2>2, <2>3, <1>1, <1>5
<1>6. QED
  BY <1>4, <1>5

\* Readouts go out in the order of their own tacks, although the deque orders
\* them by the tack of the packet that came first; with a deque of any length.
THEOREM InTimeOrder == ASSUME Separated PROVE Spec => []StreamInTimeOrder
<1>1. ASSUME IInv, EventInv
      PROVE  StreamInTimeOrder
  <2> SUFFICES ASSUME NEW i \in DOMAIN Stream, NEW j \in DOMAIN Stream, i < j
               PROVE  Stream[i].tack < Stream[j].tack
    BY DEF StreamInTimeOrder
  <2>1. /\ Stream[i].tack \in Tacks /\ Opened(i) \in Tacks
        /\ Stream[j].tack \in Tacks /\ Opened(j) \in Tacks
        /\ SameEvent(Stream[i].tack, Opened(i)) /\ SameEvent(Stream[j].tack, Opened(j))
        /\ Opened(i) + ReadoutTw <= Opened(j)
    BY <1>1, StreamOfEvents DEF GoodReadout
  <2>2. Stream[i].tack + ReadoutTw <= Stream[j].tack
    BY <2>1, TriggersAreApart
  <2>3. Stream[i].tack \in Nat /\ Stream[j].tack \in Nat
    BY <2>1, TacksAreNumbers
  <2>4. QED
    BY <2>2, <2>3, ReadoutTwAssumption
<1>2. QED
  BY <1>1, EventInvariance, PTL

\* A readout holds the packets of one trigger and no trigger is spread over two,
\* in whatever order datagrams come, lost and repeated ones included; with a
\* deque of any length.
THEOREM EventsAreBuilt == ASSUME Separated PROVE Spec => []EventBuilding
<1>1. ASSUME IInv, EventInv
      PROVE  EventBuilding
  <2>1. ASSUME NEW i \in DOMAIN Stream, NEW t \in Filled(Stream[i])
        PROVE  /\ Stream[i].rows[t] \in Tacks /\ Opened(i) \in Tacks
               /\ SameEvent(Stream[i].rows[t], Opened(i))
    <3>1. /\ Stream[i].rows[t] \in Tacks /\ Stream[i].tack \in Tacks /\ Opened(i) \in Tacks
          /\ SameEvent(Stream[i].rows[t], Stream[i].tack)
          /\ SameEvent(Stream[i].tack, Opened(i))
      BY <1>1, <2>1, StreamOfEvents DEF GoodReadout
    <3>2. QED
      BY <3>1, SameEventTransitive
  <2>2. ASSUME NEW i \in DOMAIN Stream, NEW j \in DOMAIN Stream, i < j,
               NEW t \in Filled(Stream[i]), NEW u \in Filled(Stream[j])
        PROVE  /\ ~ SameEvent(Stream[i].rows[t], Stream[j].rows[u])
               /\ ~ SameEvent(Stream[j].rows[u], Stream[i].rows[t])
    <3> DEFINE x == Stream[i].rows[t]
               y == Stream[j].rows[u]
    <3>1. /\ x \in Tacks /\ y \in Tacks /\ Opened(i) \in Tacks /\ Opened(j) \in Tacks
          /\ SameEvent(x, Opened(i)) /\ SameEvent(y, Opened(j))
      BY <2>1
    <3>2. Opened(i) + ReadoutTw <= Opened(j)
      BY <1>1, <2>2, StreamOfEvents
    <3> HIDE DEF x, y
    <3>3. x + ReadoutTw <= y
      BY <3>1, <3>2, TriggersAreApart
    <3>4. x \in Nat /\ y \in Nat
      BY <3>1, TacksAreNumbers
    <3>5. ~ SameEvent(x, y) /\ ~ SameEvent(y, x)
      BY <3>3, <3>4, ReadoutTwAssumption, SameEventMeans
    <3>6. QED
      BY <3>5 DEF x, y
  <2>3. ASSUME NEW i \in DOMAIN Stream,
               NEW t \in Filled(Stream[i]), NEW u \in Filled(Stream[i])
        PROVE  SameEvent(Stream[i].rows[t], Stream[i].rows[u])
    <3> DEFINE x == Stream[i].rows[t]
               y == Stream[i].rows[u]
    <3>1. /\ x \in Tacks /\ y \in Tacks /\ Opened(i) \in Tacks
          /\ SameEvent(x, Opened(i)) /\ SameEvent(y, Opened(i))
      BY <2>1
    <3> HIDE DEF x, y
    <3>2. SameEvent(Opened(i), y)
      BY <3>1, TacksAreNumbers, SameEventMeans
    <3>3. SameEvent(x, y)
      BY <3>1, <3>2, SameEventTransitive
    <3>4. QED
      BY <3>3 DEF x, y
  <2>4. DOMAIN Stream \subseteq Int
    BY <1>1, StreamElements, OutElements DEF IInv, TypeOK
  <2>5. SUFFICES ASSUME NEW i \in DOMAIN Stream, NEW j \in DOMAIN Stream,
                        NEW t \in Filled(Stream[i]), NEW u \in Filled(Stream[j])
                 PROVE  SameEvent(Stream[i].rows[t], Stream[j].rows[u]) <=> i = j
    BY DEF EventBuilding
  <2>6. i < j \/ j < i \/ i = j
    BY <2>4
  <2>7. QED
    BY <2>2, <2>3, <2>6, <2>4
<1>2. QED
  BY <1>1, EventInvariance, PTL

-----------------------------------------------------------------------------
(* Packets that are on time *)

\* Taking a packet puts it last and leaves what was said of the others.
LEMMA TakingOne ==
  ASSUME IInv, NEW p, Get(p), Take(p)
  PROVE  LET n == Len(taken) + 1
         IN  /\ Len(taken) \in Nat /\ Len(taken') = n
             /\ \A i \in 1 .. n : i \in 1 .. Len(taken) \/ i = n
             /\ \A i \in 1 .. Len(taken) : taken'[i] = taken[i]
             /\ taken'[n] = p
             /\ \A i \in 1 .. Len(taken) : OnTime(i)' => OnTime(i)
<1>1. taken \in Seq(Packet) /\ p \in Packet /\ taken' = Append(taken, p)
  BY GetType DEF IInv, Take
<1>2. /\ Len(taken) \in Nat /\ Len(taken') = Len(taken) + 1
      /\ \A i \in 1 .. Len(taken) : taken'[i] = taken[i]
      /\ taken'[Len(taken) + 1] = p
  BY <1>1, AppendProperties
<1>3. ASSUME NEW i \in 1 .. Len(taken), OnTime(i)'
      PROVE  OnTime(i)
  <2> SUFFICES ASSUME NEW j \in 1 .. i - 1
               PROVE  taken[j].tacks[1] - taken[i].tacks[1] < ReadoutTw
    BY DEF OnTime
  <2>1. taken'[j].tacks[1] - taken'[i].tacks[1] < ReadoutTw
    BY <1>3 DEF OnTime
  <2>2. j \in 1 .. Len(taken)
    BY <1>2
  <2>3. taken'[i] = taken[i] /\ taken'[j] = taken[j]
    BY <1>2, <2>2
  <2>4. QED
    BY <2>1, <2>3
<1>4. \A i \in 1 .. Len(taken) + 1 : i \in 1 .. Len(taken) \/ i = Len(taken) + 1
  BY <1>2
<1>5. QED
  BY <1>2, <1>3, <1>4

\* The start has taken no packet.
LEMMA InitKept == Init => KeepInv
<1> SUFFICES ASSUME Init
             PROVE  KeepInv
  OBVIOUS
<1>1. Len(partial_ro_buff) = 0 /\ Len(taken) = 0
  BY DEF Init
<1>2. QED
  BY <1>1 DEF KeepInv, OpenedByPacket

\* Nothing happens to the deque, the stream and the packets taken.
LEMMA QuietKeeps ==
  ASSUME KeepInv, partial_ro_buff' = partial_ro_buff, Out' = Out, taken' = taken
  PROVE  KeepInv'
BY DEF KeepInv, OpenedByPacket, OnTime, KeptOut, KeptIn

\* A packet that matches nothing is late: the newest partial readout was opened
\* by a packet of a later trigger.
LEMMA LateKeeps ==
  ASSUME Separated, IInv, EventInv, KeepInv, NEW p, LatePacket(p)
  PROVE  KeepInv'
<1> DEFINE d == partial_ro_buff
           n == Len(taken) + 1
<1>1. /\ Get(p) /\ Take(p) /\ pc = "loop"
      /\ d' = d /\ UNCHANGED <<readouts, published>>
      /\ Abs(Newest(d).tack - p.tacks[1]) >= ReadoutTw
      /\ Newest(d).tack - p.tacks[1] >= 0
  BY DEF LatePacket, Take, buffVars, Dt
<1>2. Out' = Out
  BY <1>1 DEF Out
<1>3. /\ Len(taken) \in Nat /\ Len(taken') = n
      /\ \A i \in 1 .. n : i \in 1 .. Len(taken) \/ i = n
      /\ \A i \in 1 .. Len(taken) : taken'[i] = taken[i]
      /\ taken'[n] = p
      /\ \A i \in 1 .. Len(taken) : OnTime(i)' => OnTime(i)
  BY <1>1, TakingOne
<1>4. d \in Seq(MatchedPacketType) /\ d # << >> /\ Spread(d)
  BY <1>1 DEF IInv, TypeOK, BufferInv, NeverIndexesEmpty
<1>5. Len(d) \in 1 .. Len(d) /\ Newest(d) = d[Len(d)] /\ d[Len(d)].tack \in Nat
  BY <1>4, EmptySeq, TackType DEF Newest
<1>6. ~ OnTime(Len(taken))'
  <2>1. PICK i \in 1 .. Len(taken) : d[Len(d)].tack = taken[i].tacks[1]
    BY <1>5 DEF KeepInv, OpenedByPacket
  <2>2. i \in 1 .. n - 1 /\ taken'[i] = taken[i]
    BY <1>3
  <2>3. p.tacks[1] \in Nat
    BY <1>1, GetType DEF IInv
  <2>4. Newest(d).tack - p.tacks[1] >= ReadoutTw
    BY <1>1, <1>5, <2>3, ReadoutTwAssumption DEF Abs
  <2>5. ~ (taken'[i].tacks[1] - taken'[n].tacks[1] < ReadoutTw)
    BY <1>3, <1>5, <2>1, <2>2, <2>3, <2>4, ReadoutTwAssumption
  <2>6. QED
    BY <1>3, <2>2, <2>5 DEF OnTime
<1>7. OpenedByPacket'
  <2> SUFFICES ASSUME NEW k \in 1 .. Len(d)
               PROVE  \E i \in 1 .. Len(taken') : d[k].tack = taken'[i].tacks[1]
    BY <1>1 DEF OpenedByPacket
  <2>1. PICK i \in 1 .. Len(taken) : d[k].tack = taken[i].tacks[1]
    BY DEF KeepInv, OpenedByPacket
  <2>2. i \in 1 .. Len(taken') /\ taken'[i] = taken[i]
    BY <1>3
  <2>3. QED
    BY <2>1, <2>2
<1>8. ASSUME NEW i \in 1 .. Len(taken'), OnTime(i)'
      PROVE  KeptOut(i)' \/ KeptIn(i)'
  <2>1. i \in 1 .. Len(taken)
    BY <1>3, <1>6, <1>8
  <2>2. KeptOut(i) \/ KeptIn(i)
    BY <1>3, <1>8, <2>1 DEF KeepInv
  <2>3. taken'[i] = taken[i]
    BY <1>3, <2>1
  <2>4. QED
    BY <1>1, <1>2, <2>2, <2>3 DEF KeptOut, KeptIn
<1>9. QED
  BY <1>7, <1>8 DEF KeepInv

\* A packet that opens a partial readout is kept there, and with a deque that is
\* long enough nothing leaves at the other end.
LEMMA OpenKeeps ==
  ASSUME Separated, LongEnough, IInv, EventInv, KeepInv,
         NEW p, FirstPacket(p) \/ NewPartial(p)
  PROVE  KeepInv'
<1> DEFINE d == partial_ro_buff
           m == MatchedPacket(p)
           n == Len(taken) + 1
<1>1. /\ m \in MatchedPacketType /\ p.tm \in Tms(m)
      /\ m.tack = p.tacks[1] /\ p.tacks[1] \in Nat
      /\ d' = DequeAppend(d, m)
      /\ Out' = Out /\ Get(p) /\ Take(p)
      /\ d # << >> => pc = "loop"
  BY Opening DEF EventInv
<1>2. /\ Len(taken) \in Nat /\ Len(taken') = n
      /\ \A i \in 1 .. n : i \in 1 .. Len(taken) \/ i = n
      /\ \A i \in 1 .. Len(taken) : taken'[i] = taken[i]
      /\ taken'[n] = p
      /\ \A i \in 1 .. Len(taken) : OnTime(i)' => OnTime(i)
  BY <1>1, TakingOne
<1>3. d \in Seq(MatchedPacketType) /\ Len(d) \in Nat
  BY DEF IInv, TypeOK
<1>4. Len(d) < BufferLen
  <2>1. CASE d = << >>
    BY <2>1, BufferLenAssumption
  <2>2. CASE d # << >>
    <3>1. ~ Expired(d) /\ Spread(d) /\ SpanBounded(d)
      BY <1>1, <2>2 DEF IInv, BufferInv
    <3>2. Len(d) <= BufferTime \div ReadoutTw + 1
      BY <1>3, <2>2, <3>1, LengthBound
    <3>3. QED
      BY <1>3, <3>2, BufferLenAssumption, BufferTimeAssumption, ReadoutTwAssumption
      DEF LongEnough
  <2>3. QED
    BY <2>1, <2>2
<1> HIDE DEF m
<1>5. /\ Len(d') = Len(d) + 1
      /\ \A k \in 1 .. Len(d) : d'[k] = d[k]
      /\ d'[Len(d) + 1] = m
  <2>1. d' = Append(d, m)
    BY <1>1, <1>4 DEF DequeAppend
  <2>2. /\ Len(Append(d, m)) = Len(d) + 1
        /\ \A k \in 1 .. Len(d) : Append(d, m)[k] = d[k]
        /\ Append(d, m)[Len(d) + 1] = m
    BY <1>1, <1>3, AppendProperties
  <2>3. QED
    BY <2>1, <2>2
<1>6. \A k \in 1 .. Len(d) : k \in 1 .. Len(d')
  BY <1>3, <1>5
<1>7. Len(d) + 1 \in 1 .. Len(d')
  BY <1>3, <1>5
<1>8. OpenedByPacket'
  <2> SUFFICES ASSUME NEW k \in 1 .. Len(d')
               PROVE  \E i \in 1 .. Len(taken') : d'[k].tack = taken'[i].tacks[1]
    BY DEF OpenedByPacket
  <2>1. CASE k \in 1 .. Len(d)
    <3>1. PICK i \in 1 .. Len(taken) : d[k].tack = taken[i].tacks[1]
      BY <2>1 DEF KeepInv, OpenedByPacket
    <3>2. i \in 1 .. Len(taken') /\ taken'[i] = taken[i] /\ d'[k] = d[k]
      BY <1>2, <1>5, <2>1
    <3>3. QED
      BY <3>1, <3>2
  <2>2. CASE k = Len(d) + 1
    <3>1. n \in 1 .. Len(taken') /\ d'[k].tack = taken'[n].tacks[1]
      BY <1>1, <1>2, <1>5, <2>2
    <3>2. QED
      BY <3>1
  <2>3. QED
    BY <1>3, <1>5, <2>1, <2>2
<1>9. ASSUME NEW i \in 1 .. Len(taken'), OnTime(i)'
      PROVE  KeptOut(i)' \/ KeptIn(i)'
  <2>1. CASE i \in 1 .. Len(taken)
    <3>1. taken'[i] = taken[i]
      BY <1>2, <2>1
    <3>2. CASE KeptOut(i)
      BY <1>1, <3>1, <3>2 DEF KeptOut
    <3>3. CASE KeptIn(i)
      <4>1. PICK k \in 1 .. Len(d) : /\ taken[i].tm \in Tms(d[k])
                                    /\ SameEvent(d[k].tack, taken[i].tacks[1])
        BY <3>3 DEF KeptIn
      <4>2. k \in 1 .. Len(d') /\ d'[k] = d[k]
        BY <1>5, <1>6
      <4>3. /\ taken'[i].tm \in Tms(d'[k])
            /\ SameEvent(d'[k].tack, taken'[i].tacks[1])
        BY <3>1, <4>1, <4>2
      <4>4. KeptIn(i)'
        BY <4>2, <4>3 DEF KeptIn
      <4>5. QED
        BY <4>4
    <3>4. QED
      BY <1>2, <1>9, <2>1, <3>2, <3>3 DEF KeepInv
  <2>2. CASE i = n
    <3> DEFINE k == Len(d) + 1
    <3>1. k \in 1 .. Len(d') /\ d'[k] = m /\ taken'[i] = p
      BY <1>2, <1>5, <1>7, <2>2
    <3>2. SameEvent(m.tack, p.tacks[1])
      BY <1>1, SameEventMeans
    <3>3. /\ taken'[i].tm \in Tms(d'[k])
          /\ SameEvent(d'[k].tack, taken'[i].tacks[1])
      BY <1>1, <3>1, <3>2
    <3> HIDE DEF k
    <3>4. KeptIn(i)'
      BY <3>1, <3>3 DEF KeptIn
    <3>5. QED
      BY <3>4
  <2>3. QED
    BY <1>2, <2>1, <2>2
<1>10. QED
  BY <1>8, <1>9 DEF KeepInv

\* A packet that joins the newest partial readout is kept there; it may replace
\* an earlier one of its module, but only one of the same trigger.
LEMMA JoinKeeps ==
  ASSUME Separated, IInv, EventInv, KeepInv, NEW p, MatchNewest(p)
  PROVE  KeepInv'
<1> DEFINE d == partial_ro_buff
           l == Len(partial_ro_buff)
           m == AddPart(d[l], p)
           n == Len(taken) + 1
<1>1. /\ Get(p) /\ Take(p) /\ Out' = Out
      /\ l \in 1 .. l
      /\ Len(d') = l
      /\ \A k \in 1 .. l : d'[k] = IF k = l THEN m ELSE d[k]
      /\ m.tack = d[l].tack /\ Tms(m) = Tms(d[l]) \cup {p.tm}
      /\ SameEvent(d[l].tack, p.tacks[1])
  BY Joining
<1>2. /\ Len(taken) \in Nat /\ Len(taken') = n
      /\ \A i \in 1 .. n : i \in 1 .. Len(taken) \/ i = n
      /\ \A i \in 1 .. Len(taken) : taken'[i] = taken[i]
      /\ taken'[n] = p
      /\ \A i \in 1 .. Len(taken) : OnTime(i)' => OnTime(i)
  BY <1>1, TakingOne
<1> HIDE DEF m
<1>3. \A k \in 1 .. l : d'[k].tack = d[k].tack /\ Tms(d[k]) \subseteq Tms(d'[k])
  BY <1>1
<1>4. OpenedByPacket'
  <2> SUFFICES ASSUME NEW k \in 1 .. l
               PROVE  \E i \in 1 .. Len(taken') : d'[k].tack = taken'[i].tacks[1]
    BY <1>1 DEF OpenedByPacket
  <2>1. PICK i \in 1 .. Len(taken) : d[k].tack = taken[i].tacks[1]
    BY DEF KeepInv, OpenedByPacket
  <2>2. i \in 1 .. Len(taken') /\ taken'[i] = taken[i] /\ d'[k].tack = d[k].tack
    BY <1>2, <1>3
  <2>3. QED
    BY <2>1, <2>2
<1>5. ASSUME NEW i \in 1 .. Len(taken'), OnTime(i)'
      PROVE  KeptOut(i)' \/ KeptIn(i)'
  <2>1. CASE i \in 1 .. Len(taken)
    <3>1. taken'[i] = taken[i]
      BY <1>2, <2>1
    <3>2. CASE KeptOut(i)
      BY <1>1, <3>1, <3>2 DEF KeptOut
    <3>3. CASE KeptIn(i)
      <4>1. PICK k \in 1 .. l : /\ taken[i].tm \in Tms(d[k])
                               /\ SameEvent(d[k].tack, taken[i].tacks[1])
        BY <3>3 DEF KeptIn
      <4>2. /\ taken'[i].tm \in Tms(d'[k])
            /\ SameEvent(d'[k].tack, taken'[i].tacks[1])
        BY <1>3, <3>1, <4>1
      <4>3. KeptIn(i)'
        BY <1>1, <4>2 DEF KeptIn
      <4>4. QED
        BY <4>3
    <3>4. QED
      BY <1>2, <1>5, <2>1, <3>2, <3>3 DEF KeepInv
  <2>2. CASE i = n
    <3>1. /\ taken'[i].tm \in Tms(d'[l])
          /\ SameEvent(d'[l].tack, taken'[i].tacks[1])
      BY <1>1, <1>2, <2>2
    <3>2. KeptIn(i)'
      BY <1>1, <3>1 DEF KeptIn
    <3>3. QED
      BY <3>2
  <2>3. QED
    BY <1>2, <2>1, <2>2
<1>6. QED
  BY <1>4, <1>5 DEF KeepInv

\* What the oldest partial readout kept is kept by its readout.
LEMMA AssembleKeeps ==
  ASSUME Separated, IInv, EventInv, KeepInv, Assemble
  PROVE  KeepInv'
<1> DEFINE d == partial_ro_buff
           m == d[1]
           n == Len(Out) + 1
           r == Readout(m, 1, readout_count)
<1>1. /\ m \in MatchedPacketType /\ InWindow(m) /\ OneEvent(m)
      /\ Len(Out') = n
      /\ \A i \in 1 .. Len(Out) : Out'[i] = Out[i]
      /\ Out'[n] = r
  BY AssembleExtendsOut DEF EventInv
<1>2. pc = "assemble" /\ d' = Tail(d) /\ taken' = taken
  BY DEF Assemble
<1>3. d \in Seq(MatchedPacketType) /\ d # << >>
  BY <1>2 DEF IInv, TypeOK, BufferInv, NeverIndexesEmpty
<1>4. /\ Len(d) \in Nat /\ Len(d) >= 1 /\ Len(d') = Len(d) - 1
      /\ \A j \in 1 .. Len(d') : j + 1 \in 1 .. Len(d) /\ d'[j] = d[j + 1]
  BY <1>2, <1>3, EmptySeq, HeadTailProperties
<1>5. Len(Out) \in Nat /\ n \in 1 .. n /\ \A k \in 1 .. Len(Out) : k \in 1 .. n
  BY OutElements DEF IInv
<1>6. Filled(r) = Tms(m) /\ \A t \in Tms(m) : r.rows[t] = m.data[t][1]
  BY <1>1, ReadoutOfEvent
<1>7. \A t \in Tms(m) : m.data[t][1] \in Tacks /\ SameEvent(m.data[t][1], m.tack)
  BY <1>1, PartsAreClose
<1>8. m.tack \in Tacks
  BY <1>1 DEF OneEvent
<1> HIDE DEF r, m, n
<1>9. OpenedByPacket'
  BY <1>2, <1>4 DEF KeepInv, OpenedByPacket
<1>10. ASSUME NEW i \in 1 .. Len(taken), OnTime(i)
       PROVE  KeptOut(i)' \/ KeptIn(i)'
  <2>1. CASE KeptOut(i)
    <3>1. PICK k \in 1 .. Len(Out) : /\ taken[i].tm \in Filled(Out[k])
                                    /\ SameEvent(Out[k].rows[taken[i].tm], taken[i].tacks[1])
      BY <2>1 DEF KeptOut
    <3>2. k \in 1 .. Len(Out') /\ Out'[k] = Out[k]
      BY <1>1, <1>5
    <3>3. KeptOut(i)'
      BY <1>2, <3>1, <3>2 DEF KeptOut
    <3>4. QED
      BY <3>3
  <2>2. CASE KeptIn(i)
    <3>1. PICK k \in 1 .. Len(d) : /\ taken[i].tm \in Tms(d[k])
                                  /\ SameEvent(d[k].tack, taken[i].tacks[1])
      BY <2>2 DEF KeptIn
    <3>2. CASE k = 1
      <4>1. taken[i].tm \in Tms(m) /\ SameEvent(m.tack, taken[i].tacks[1])
        BY <3>1, <3>2 DEF m
      <4>2. taken[i].tacks[1] \in Tacks
        BY DEF EventInv, Received, OneReadout
      <4>3. SameEvent(m.data[taken[i].tm][1], taken[i].tacks[1])
        BY <1>7, <1>8, <4>1, <4>2, SameEventTransitive
      <4>4. n \in 1 .. Len(Out') /\ Out'[n] = r
        BY <1>1, <1>5
      <4>5. /\ taken[i].tm \in Filled(Out'[n])
            /\ SameEvent(Out'[n].rows[taken[i].tm], taken[i].tacks[1])
        BY <1>6, <4>1, <4>3, <4>4
      <4>6. KeptOut(i)'
        BY <1>2, <4>4, <4>5 DEF KeptOut
      <4>7. QED
        BY <4>6
    <3>3. CASE k # 1
      <4>1. k - 1 \in 1 .. Len(d') /\ (k - 1) + 1 = k
        BY <1>4, <3>3
      <4>2. d'[k - 1] = d[k]
        BY <1>4, <4>1
      <4>3. KeptIn(i)'
        BY <1>2, <3>1, <4>1, <4>2 DEF KeptIn
      <4>4. QED
        BY <4>3
    <3>4. QED
      BY <3>2, <3>3
  <2>3. QED
    BY <1>10, <2>1, <2>2 DEF KeepInv
<1>11. \A i \in 1 .. Len(taken) : OnTime(i)' <=> OnTime(i)
  BY <1>2 DEF OnTime
<1>12. QED
  BY <1>2, <1>9, <1>10, <1>11 DEF KeepInv

\* Every step keeps the packets that were on time.
LEMMA StepKeeps ==
  ASSUME Separated, LongEnough, IInv, EventInv, KeepInv, [Next]_vars
  PROVE  KeepInv'
<1>1. CASE \/ Network \/ PutTask \/ DrainGet \/ DrainTimeout
           \/ AssembleNothing \/ Publish \/ UNCHANGED vars
           \/ \E p : EmptyPacket(p)
  <2>1. partial_ro_buff' = partial_ro_buff /\ Out' = Out
    BY <1>1, QuietStep
  <2>2. taken' = taken
    BY <1>1 DEF Network, DatagramReceived, PutTask, DrainGet, DrainTimeout,
                AssembleNothing, Publish, EmptyPacket, vars
  <2>3. QED
    BY <2>1, <2>2, QuietKeeps
<1>2. ASSUME NEW p, LatePacket(p)
      PROVE  KeepInv'
  BY <1>2, LateKeeps
<1>3. ASSUME NEW p, FirstPacket(p) \/ NewPartial(p)
      PROVE  KeepInv'
  BY <1>3, OpenKeeps
<1>4. ASSUME NEW p, MatchNewest(p)
      PROVE  KeepInv'
  BY <1>4, JoinKeeps
<1>5. CASE Assemble
  BY <1>5, AssembleKeeps
<1>6. ~ AssembleFails
  BY AssemblingSucceeds DEF EventInv
<1>7. QED
  BY <1>1, <1>2, <1>3, <1>4, <1>5, <1>6 DEF Next, Coroutine

\* Every packet that is taken before any packet of a later trigger fills its
\* module's row of the readout of its trigger, whatever else arrives, if the deque
\* has buffer_time / readout_tw + 2 places.
THEOREM OnTimePacketsAreKept ==
  ASSUME Separated, LongEnough PROVE Spec => []OnTimeIsKept
<1>1. ASSUME IInv, EventInv, KeepInv
      PROVE  OnTimeIsKept
  <2> DEFINE d == partial_ro_buff
  <2>1. /\ DOMAIN Stream = 1 .. Len(Out) + Len(d)
        /\ \A j \in DOMAIN Stream :
             Stream[j] = IF j <= Len(Out) THEN Out[j]
                         ELSE Readout(d[j - Len(Out)], 1, readout_count)
    BY <1>1, StreamElements DEF IInv
  <2>2. Len(Out) \in Nat /\ d \in Seq(MatchedPacketType) /\ Len(d) \in Nat
    BY <1>1, OutElements DEF IInv, TypeOK
  <2> SUFFICES ASSUME NEW i \in DOMAIN taken, OnTime(i)
               PROVE  \E j \in DOMAIN Stream :
                        /\ taken[i].tm \in Filled(Stream[j])
                        /\ SameEvent(Stream[j].rows[taken[i].tm], taken[i].tacks[1])
    BY DEF OnTimeIsKept
  <2>3. i \in 1 .. Len(taken) /\ taken[i].tacks[1] \in Tacks
    BY <1>1 DEF IInv, TypeOK, EventInv, Received, OneReadout
  <2>4. CASE KeptOut(i)
    <3>1. PICK k \in 1 .. Len(Out) :
            /\ taken[i].tm \in Filled(Out[k])
            /\ SameEvent(Out[k].rows[taken[i].tm], taken[i].tacks[1])
      BY <2>4 DEF KeptOut
    <3>2. k \in DOMAIN Stream /\ Stream[k] = Out[k]
      BY <2>1, <2>2
    <3>3. QED
      BY <3>1, <3>2
  <2>5. CASE KeptIn(i)
    <3>1. PICK k \in 1 .. Len(d) : /\ taken[i].tm \in Tms(d[k])
                                  /\ SameEvent(d[k].tack, taken[i].tacks[1])
      BY <2>5 DEF KeptIn
    <3> DEFINE m == d[k]
               j == Len(Out) + k
               r == Readout(m, 1, readout_count)
    <3>2. m \in MatchedPacketType /\ InWindow(m) /\ OneEvent(m)
      BY <1>1, <2>2 DEF IInv, BufferInv, PartsInWindow, EventInv, PartsOfEvents
    <3>3. j \in DOMAIN Stream /\ ~ (j <= Len(Out)) /\ j - Len(Out) = k
      BY <2>1, <2>2
    <3>4. Stream[j] = r
      BY <2>1, <3>3
    <3>5. Filled(r) = Tms(m) /\ r.rows[taken[i].tm] = m.data[taken[i].tm][1]
      BY <3>1, <3>2, ReadoutOfEvent
    <3>6. /\ m.data[taken[i].tm][1] \in Tacks /\ m.tack \in Tacks
          /\ SameEvent(m.data[taken[i].tm][1], m.tack)
      BY <3>1, <3>2, PartsAreClose DEF OneEvent
    <3>7. SameEvent(m.data[taken[i].tm][1], taken[i].tacks[1])
      BY <2>3, <3>1, <3>6, SameEventTransitive
    <3> HIDE DEF j, r
    <3>8. /\ taken[i].tm \in Filled(Stream[j])
          /\ SameEvent(Stream[j].rows[taken[i].tm], taken[i].tacks[1])
      BY <3>1, <3>4, <3>5, <3>7
    <3>9. QED
      BY <3>3, <3>8
  <2>6. QED
    BY <1>1, <2>3, <2>4, <2>5 DEF KeepInv
<1>2. ASSUME IInv, EventInv, KeepInv, [Next]_vars
      PROVE  KeepInv'
  BY <1>2, StepKeeps
<1>3. IInv /\ EventInv /\ KeepInv => OnTimeIsKept
  BY <1>1
<1>4. (IInv /\ EventInv) /\ KeepInv /\ [Next]_vars => KeepInv'
  BY <1>2
<1>5. QED
  BY <1>3, <1>4, InitKept, EventInvariance, PTL DEF Spec
=============================================================================
