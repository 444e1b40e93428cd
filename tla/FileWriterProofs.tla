-------------------------- MODULE FileWriterProofs --------------------------
(***************************************************************************)
(* Theorems about the rotation of files (FileWriter), for all data and     *)
(* limits, however often files are opened and writers are killed.          *)
(***************************************************************************)
EXTENDS FileWriter, SequenceTheorems, TLAPS

SegmentType == [name : Nat, items : Seq(Data), session : Nat, crashed : BOOLEAN]

Typed ==
  /\ minute \in Nat /\ data_counter \in Nat /\ file_counter \in Nat
  /\ open \in BOOLEAN
  /\ file_enumerator \in {"date", "order", "None"}
  /\ segments \in Seq(SegmentType)
  /\ buffer \in Seq(Data)
  /\ \A n \in DOMAIN disk : disk[n] \in Seq(Data)
  /\ \A k \in DOMAIN segments : segments[k].name \in DOMAIN disk

\* The file that is open is the one of the last segment.
LastIsOpen ==
  open => /\ segments # << >>
          /\ LastSegment.name = filename
          /\ ~ LastSegment.crashed
          /\ data_counter = 0 => LastSegment.items = << >>

\* Sessions follow one another, and in each the names are counted.
Counted ==
  /\ \A j, k \in DOMAIN segments : j < k => segments[j].session <= segments[k].session
  /\ file_enumerator = "order" =>
       /\ segments # << >> => LastSegment.name = file_counter
       /\ \A j, k \in DOMAIN segments :
            j < k /\ segments[j].session = segments[k].session
            => segments[j].name < segments[k].name

FInv ==
  /\ Typed
  /\ LastIsOpen
  /\ Counted
  /\ KeptUnlessReopened
  /\ RunsApart

-----------------------------------------------------------------------------
(* Sequences, the disk and the list of segments *)

\* A sequence is put on disk in two parts.
LEMMA TwoParts ==
  ASSUME NEW s \in Seq(Data), NEW k \in 0 .. Len(s)
  PROVE  /\ SubSeq(s, 1, k) \in Seq(Data)
         /\ SubSeq(s, k + 1, Len(s)) \in Seq(Data)
         /\ SubSeq(s, 1, k) \o SubSeq(s, k + 1, Len(s)) = s
<1>1. Len(s) \in Nat /\ \A i \in 1 .. Len(s) : s[i] \in Data
  BY LenProperties, ElementOfSeq
<1>2. SubSeq(s, 1, k) \in Seq(Data)
  <2>1. \A i \in 1 .. k : s[i] \in Data
    BY <1>1
  <2>2. QED
    BY <1>1, <2>1, SubSeqProperties
<1>3. SubSeq(s, k + 1, Len(s)) \in Seq(Data)
  <2>1. \A i \in k + 1 .. Len(s) : s[i] \in Data
    BY <1>1
  <2>2. QED
    BY <1>1, <2>1, SubSeqProperties
<1>4. SubSeq(s, 1, k) \o SubSeq(s, k + 1, Len(s)) = SubSeq(s, 1, Len(s))
  <2>1. 1 \in 1 .. Len(s) + 1 /\ k \in 1 - 1 .. Len(s) /\ Len(s) \in k .. Len(s)
    BY <1>1
  <2>2. QED
    BY <2>1, ConcatAdjacentSubSeq
<1>5. QED
  BY <1>2, <1>3, <1>4, SubSeqFull

\* The first part of a sequence is a prefix of it.
LEMMA PrefixOfConcat ==
  ASSUME NEW s \in Seq(Data), NEW t \in Seq(Data)
  PROVE  IsPrefix(s, s \o t)
<1> DEFINE u == s \o t
<1>1. /\ u \in Seq(Data) /\ Len(u) = Len(s) + Len(t)
      /\ Len(s) \in Nat /\ Len(t) \in Nat
      /\ \A i \in 1 .. Len(s) : u[i] = s[i]
  BY ConcatProperties, LenProperties
<1> HIDE DEF u
<1>2. \A i \in 1 .. Len(s) : u[i] \in Data
  BY <1>1, ElementOfSeq
<1>3. /\ SubSeq(u, 1, Len(s)) \in Seq(Data)
      /\ Len(SubSeq(u, 1, Len(s))) = Len(s)
      /\ \A i \in 1 .. Len(s) : SubSeq(u, 1, Len(s))[i] = u[i]
  BY <1>1, <1>2, SubSeqProperties
<1>4. s = SubSeq(u, 1, Len(s))
  BY <1>1, <1>3, SeqEqual
<1>5. QED
  BY <1>1, <1>4 DEF IsPrefix, u

\* What is on disk, what goes there and what is left are one sequence.
LEMMA Associative ==
  \A s, t, u \in Seq(Data) : (s \o t) \o u = s \o (t \o u)
BY ConcatAssociative

\* Storing adds to one file.
LEMMA StoredFacts ==
  ASSUME NEW d, NEW name \in DOMAIN d, NEW items
  PROVE  /\ DOMAIN Stored(d, name, items) = DOMAIN d
         /\ \A n \in DOMAIN d :
              Stored(d, name, items)[n] = IF n = name THEN d[n] \o items ELSE d[n]
BY DEF Stored

\* Opening for writing empties one file, or makes it.
LEMMA TruncatedFacts ==
  ASSUME NEW d, NEW name
  PROVE  /\ DOMAIN Truncated(d, name) = DOMAIN d \union {name}
         /\ \A n \in DOMAIN d \union {name} :
              Truncated(d, name)[n] = IF n = name THEN << >> ELSE d[n]
BY DEF Truncated

\* Names are numbers.
LEMMA SuffixType ==
  ASSUME Typed, NEW n \in Nat
  PROVE  Suffix(n) \in Nat
BY DEF Typed, Suffix

\* The history is a sequence of segments.
LEMMA SegmentFacts ==
  ASSUME Typed
  PROVE  /\ Len(segments) \in Nat
         /\ DOMAIN segments = 1 .. Len(segments)
         /\ segments # << >> => Len(segments) > 0
         /\ Len(segments) > 0 => segments # << >> /\ Len(segments) \in DOMAIN segments
         /\ \A k \in DOMAIN segments :
              /\ segments[k] \in SegmentType
              /\ segments[k].name \in Nat
              /\ segments[k].items \in Seq(Data)
              /\ segments[k].session \in Nat
              /\ segments[k].crashed \in BOOLEAN
<1>1. segments \in Seq(SegmentType)
  BY DEF Typed
<1>2. /\ Len(segments) \in Nat
      /\ DOMAIN segments = 1 .. Len(segments)
      /\ segments # << >> => Len(segments) > 0
      /\ Len(segments) > 0 => segments # << >> /\ Len(segments) \in DOMAIN segments
  BY <1>1, LenProperties, EmptySeq
<1>3. \A k \in DOMAIN segments : segments[k] \in SegmentType
  BY <1>1, <1>2, ElementOfSeq
<1>4. QED
  BY <1>2, <1>3 DEF SegmentType

\* Opening a file adds a segment.
LEMMA AddedSegment ==
  ASSUME Typed, NEW seg \in SegmentType, segments' = Append(segments, seg)
  PROVE  /\ segments' \in Seq(SegmentType)
         /\ Len(segments') = Len(segments) + 1
         /\ DOMAIN segments' = DOMAIN segments \union {Len(segments) + 1}
         /\ \A k \in DOMAIN segments : segments'[k] = segments[k] /\ k < Len(segments) + 1
         /\ segments'[Len(segments) + 1] = seg
         /\ segments' # << >>
         /\ LastSegment' = seg
<1>1. segments \in Seq(SegmentType)
  BY DEF Typed
<1>2. /\ segments' \in Seq(SegmentType) /\ segments' # << >>
      /\ Len(segments') = Len(segments) + 1
      /\ \A k \in 1 .. Len(segments) : segments'[k] = segments[k]
      /\ segments'[Len(segments) + 1] = seg
  BY <1>1, AppendProperties
<1>3. DOMAIN segments' = 1 .. Len(segments) + 1
  BY <1>2, LenProperties
<1>4. QED
  BY <1>2, <1>3, SegmentFacts DEF LastSegment

\* Writing to the open file, and a crash, change the last segment.
LEMMA ChangedSegment ==
  ASSUME Typed, segments # << >>, NEW seg \in SegmentType,
         segments' = [segments EXCEPT ![Len(segments)] = seg]
  PROVE  /\ segments' \in Seq(SegmentType)
         /\ Len(segments') = Len(segments)
         /\ DOMAIN segments' = DOMAIN segments
         /\ \A k \in DOMAIN segments :
              segments'[k] = IF k = Len(segments) THEN seg ELSE segments[k]
         /\ segments' # << >>
         /\ LastSegment' = seg
<1>1. segments \in Seq(SegmentType) /\ Len(segments) \in 1 .. Len(segments)
  BY SegmentFacts DEF Typed
<1>2. /\ segments' \in Seq(SegmentType)
      /\ Len(segments') = Len(segments)
      /\ \A k \in 1 .. Len(segments) :
           segments'[k] = IF k = Len(segments) THEN seg ELSE segments[k]
  BY <1>1, ExceptSeq
<1>3. DOMAIN segments' = 1 .. Len(segments)
  BY <1>2, LenProperties
<1>4. segments' # << >>
  BY <1>1, <1>2, EmptySeq
<1>5. QED
  BY <1>1, <1>2, <1>3, <1>4, SegmentFacts DEF LastSegment

-----------------------------------------------------------------------------
(* The steps *)

\* What KeptUnlessReopened says of a segment whose file was not opened again
Holds(k) ==
  LET seg == segments[k]
      current == open /\ k = Len(segments)
  IN  IF seg.crashed THEN IsPrefix(disk[seg.name], seg.items)
      ELSE disk[seg.name] \o (IF current THEN buffer ELSE << >>) = seg.items

\* KeptUnlessReopened is about one segment at a time.
LEMMA KeptByHolds ==
  /\ KeptUnlessReopened <=> \A k \in DOMAIN segments : NotReopened(k) => Holds(k)
  /\ KeptUnlessReopened' <=> \A k \in DOMAIN segments' : NotReopened(k)' => Holds(k)'
BY DEF KeptUnlessReopened, Holds

\* The last segment was not reopened, so that the open file and what is to be
\* written to it are its items.
LEMMA OpenFileHolds ==
  ASSUME FInv, open
  PROVE  /\ segments # << >>
         /\ Len(segments) \in DOMAIN segments
         /\ LastSegment = segments[Len(segments)]
         /\ LastSegment \in SegmentType
         /\ filename = LastSegment.name /\ filename \in DOMAIN disk
         /\ disk[filename] \in Seq(Data)
         /\ disk[filename] \o buffer = LastSegment.items
<1> DEFINE L == Len(segments)
<1>1. /\ segments # << >> /\ L \in DOMAIN segments /\ L \in Nat
      /\ LastSegment = segments[L] /\ LastSegment \in SegmentType
      /\ filename = LastSegment.name /\ ~ LastSegment.crashed
  BY SegmentFacts DEF FInv, LastIsOpen, LastSegment
<1>2. filename \in DOMAIN disk /\ disk[filename] \in Seq(Data)
  BY <1>1 DEF FInv, Typed
<1>3. NotReopened(L)
  BY <1>1 DEF NotReopened
<1>4. Holds(L)
  BY <1>1, <1>3, KeptByHolds DEF FInv
<1>5. QED
  BY <1>1, <1>2, <1>4 DEF Holds

\* A session's number is that of its last segment.
LEMMA SessionFacts ==
  ASSUME FInv
  PROVE  /\ Session \in Nat
         /\ segments # << >> => Session = LastSegment.session
         /\ \A k \in DOMAIN segments : segments[k].session <= Session
<1>1. CASE segments = << >>
  <2>1. DOMAIN segments = {}
    BY <1>1, EmptySeq, SegmentFacts DEF FInv
  <2>2. QED
    BY <1>1, <2>1 DEF Session
<1>2. CASE segments # << >>
  <2>1. /\ Len(segments) \in DOMAIN segments
        /\ Session = segments[Len(segments)].session
        /\ DOMAIN segments = 1 .. Len(segments) /\ Len(segments) \in Nat
        /\ \A k \in DOMAIN segments : segments[k].session \in Nat
    BY <1>2, SegmentFacts DEF FInv, Session, LastSegment
  <2>2. \A k \in DOMAIN segments : segments[k].session <= Session
    BY <2>1 DEF FInv, Counted
  <2>3. QED
    BY <2>1, <2>2 DEF Session, LastSegment
<1>3. QED
  BY <1>1, <1>2

\* A new segment of this session or a later one, with the next number.
LEMMA CountedStep ==
  ASSUME FInv, NEW seg \in SegmentType, segments' = Append(segments, seg),
         file_enumerator' = file_enumerator,
         file_enumerator = "order" => seg.name = file_counter',
         \/ seg.session > Session
         \/ /\ seg.session = Session /\ segments # << >>
            /\ file_enumerator = "order" => seg.name > file_counter
  PROVE  Counted'
<1> DEFINE L == Len(segments)
<1>1. /\ L \in Nat /\ DOMAIN segments = 1 .. L
      /\ DOMAIN segments' = 1 .. L \union {L + 1}
      /\ \A k \in 1 .. L : segments'[k] = segments[k]
      /\ segments'[L + 1] = seg
      /\ LastSegment' = seg
      /\ \A k \in 1 .. L : segments[k].name \in Nat /\ segments[k].session \in Nat
      /\ seg.name \in Nat /\ seg.session \in Nat
  BY SegmentFacts, AddedSegment DEF FInv, SegmentType
<1>2. /\ Session \in Nat
      /\ \A k \in 1 .. L : segments[k].session <= Session
      /\ segments # << >> => Session = LastSegment.session
  BY <1>1, SessionFacts
<1>3. ASSUME NEW j \in 1 .. L, NEW k \in 1 .. L, j < k
      PROVE  /\ segments'[j].session <= segments'[k].session
             /\ file_enumerator = "order" /\ segments'[j].session = segments'[k].session
                => segments'[j].name < segments'[k].name
  BY <1>1, <1>3 DEF FInv, Counted
<1>4. ASSUME NEW j \in 1 .. L
      PROVE  segments'[j].session <= seg.session
  BY <1>1, <1>2
<1>5. ASSUME NEW j \in 1 .. L, file_enumerator = "order",
             segments'[j].session = seg.session
      PROVE  segments'[j].name < seg.name
  <2>1. /\ segments[j].session = Session /\ seg.session = Session
        /\ segments # << >> /\ seg.name > file_counter
    BY <1>1, <1>2, <1>5
  <2>2. LastSegment = segments[L] /\ LastSegment.name = file_counter /\ L \in 1 .. L
    BY <1>1, <1>5, <2>1, SegmentFacts DEF FInv, Counted, LastSegment
  <2>3. CASE j = L
    BY <1>1, <2>1, <2>2, <2>3
  <2>4. CASE j < L
    <3>1. segments[j].session = segments[L].session
      BY <1>2, <2>1, <2>2
    <3>2. segments[j].name < segments[L].name
      BY <1>1, <1>5, <2>2, <2>4, <3>1 DEF FInv, Counted
    <3>3. QED
      BY <1>1, <2>1, <2>2, <3>2
  <2>5. QED
    BY <2>3, <2>4
<1>6. QED
  <2>1. ASSUME NEW j \in DOMAIN segments', NEW k \in DOMAIN segments', j < k
        PROVE  /\ segments'[j].session <= segments'[k].session
               /\ file_enumerator = "order" /\ segments'[j].session = segments'[k].session
                  => segments'[j].name < segments'[k].name
    <3>1. j \in 1 .. L /\ (k \in 1 .. L \/ k = L + 1)
      BY <1>1, <2>1
    <3>2. QED
      BY <1>1, <1>3, <1>4, <1>5, <2>1, <3>1
  <2>2. file_enumerator' = "order" => LastSegment'.name = file_counter'
    BY <1>1
  <2>3. QED
    BY <2>1, <2>2 DEF Counted

\* The last segment changes, but neither its name nor its session.
LEMMA CountedSame ==
  ASSUME FInv, segments # << >>, NEW seg \in SegmentType,
         segments' = [segments EXCEPT ![Len(segments)] = seg],
         seg.name = LastSegment.name, seg.session = LastSegment.session,
         file_enumerator' = file_enumerator, file_counter' = file_counter
  PROVE  Counted'
<1>1. /\ DOMAIN segments' = DOMAIN segments
      /\ \A k \in DOMAIN segments :
           /\ segments'[k].name = segments[k].name
           /\ segments'[k].session = segments[k].session
      /\ LastSegment' = seg
  BY ChangedSegment DEF FInv, LastSegment
<1>2. QED
  BY <1>1 DEF FInv, Counted

\* A session that starts keeps the invariant: what its first file replaces is
\* reopened.
LEMMA StartStep ==
  ASSUME FInv, Start
  PROVE  FInv'
<1> DEFINE L == Len(segments)
           name == Suffix(1)
           seg == Segment(name, << >>, Session + 1)
<1>1. /\ Typed /\ ~ open /\ open' = TRUE
      /\ data_counter' = 0 /\ file_counter' = 1 /\ filename' = name
      /\ disk' = Truncated(disk, name)
      /\ buffer' = << >>
      /\ segments' = Append(segments, seg)
      /\ minute' = minute /\ file_enumerator' = file_enumerator
  BY DEF FInv, Start, config
<1>2. name \in Nat /\ (file_enumerator = "order" => name = 1)
  BY <1>1, SuffixType DEF Suffix
<1>3. /\ seg \in SegmentType
      /\ seg.name = name /\ seg.items = << >> /\ ~ seg.crashed
      /\ seg.session = Session + 1 /\ seg.session > Session
  BY <1>2, SessionFacts, EmptySeq DEF Segment, SegmentType
<1> HIDE DEF name, seg
<1>4. /\ DOMAIN disk' = DOMAIN disk \union {name}
      /\ \A n \in DOMAIN disk \union {name} :
           disk'[n] = IF n = name THEN << >> ELSE disk[n]
  BY <1>1, TruncatedFacts
<1>5. /\ segments' \in Seq(SegmentType)
      /\ Len(segments') = L + 1 /\ L \in Nat
      /\ DOMAIN segments = 1 .. L
      /\ DOMAIN segments' = DOMAIN segments \union {L + 1}
      /\ \A k \in DOMAIN segments : segments'[k] = segments[k] /\ k < L + 1
      /\ segments'[L + 1] = seg
      /\ segments' # << >> /\ LastSegment' = seg
  BY <1>1, <1>3, AddedSegment, SegmentFacts
<1>6. Typed'
  <2>1. \A n \in DOMAIN disk' : disk'[n] \in Seq(Data)
    BY <1>1, <1>4, EmptySeq DEF Typed
  <2>2. \A k \in DOMAIN segments' : segments'[k].name \in DOMAIN disk'
    BY <1>1, <1>3, <1>4, <1>5 DEF Typed
  <2>3. buffer' \in Seq(Data)
    BY <1>1, EmptySeq
  <2>4. QED
    BY <1>1, <1>5, <2>1, <2>2, <2>3 DEF Typed
<1>7. LastIsOpen'
  BY <1>1, <1>3, <1>5 DEF LastIsOpen
<1>8. Counted'
  BY <1>1, <1>2, <1>3, CountedStep
<1>9. KeptUnlessReopened'
  <2>1. ASSUME NEW k \in DOMAIN segments, NotReopened(k)' PROVE Holds(k)'
    <3>1. NotReopened(k) /\ segments[k].name # name
      BY <1>3, <1>5, <2>1 DEF NotReopened
    <3>2. Holds(k)
      BY <3>1, KeptByHolds DEF FInv
    <3>3. segments[k].name \in DOMAIN disk /\ disk'[segments[k].name] = disk[segments[k].name]
      BY <1>1, <1>4, <3>1 DEF Typed
    <3>4. segments'[k] = segments[k] /\ k # Len(segments')
      BY <1>5
    <3>5. QED
      BY <1>1, <3>2, <3>3, <3>4 DEF Holds
  <2>2. Holds(Len(segments))'
    <3>1. disk'[name] = << >> /\ segments'[L + 1] = seg
      BY <1>4, <1>5
    <3>2. << >> \o << >> = << >>
      BY EmptySeq, ConcatEmptySeq
    <3>3. segments'[L + 1].name = name /\ segments'[L + 1].items = << >>
          /\ ~ segments'[L + 1].crashed
      BY <1>3, <3>1
    <3>4. (IF open' /\ L + 1 = Len(segments') THEN buffer' ELSE << >>) = << >>
      BY <1>1
    <3>5. QED
      BY <1>5, <3>1, <3>2, <3>3, <3>4 DEF Holds
  <2>3. ASSUME NEW k \in DOMAIN segments', NotReopened(k)' PROVE Holds(k)'
    <3>1. CASE k \in DOMAIN segments
      BY <2>1, <2>3, <3>1
    <3>2. CASE k = Len(segments')
      BY <2>2, <3>2
    <3>3. QED
      BY <1>5, <3>1, <3>2
  <2>4. QED
    BY <2>3, KeptByHolds
<1>10. RunsApart'
  <2>1. \A k \in DOMAIN segments : \A i \in 2 .. Len(segments'[k].items) :
          segments'[k].items[i] \notin NewFileData
    BY <1>5 DEF FInv, RunsApart
  <2>2. \A i \in 2 .. Len(segments'[L + 1].items) :
          segments'[L + 1].items[i] \notin NewFileData
    BY <1>3, <1>5, EmptySeq
  <2>3. QED
    BY <1>5, <2>1, <2>2 DEF RunsApart
<1>11. QED
  BY <1>6, <1>7, <1>8, <1>9, <1>10 DEF FInv

\* A write to the open file keeps the invariant, however much of it goes to disk.
LEMMA WriteSameStep ==
  ASSUME FInv, NEW x \in Data, WriteSame(x)
  PROVE  FInv'
<1> DEFINE L == Len(segments)
           last == segments[L]
           given == Append(buffer, x)
           seg == [last EXCEPT !.items = Append(@, x)]
<1>1. /\ Typed /\ open /\ open' = TRUE
      /\ ~ DataCond(x)
      /\ data_counter' = data_counter + 1
      /\ segments' = [segments EXCEPT ![L] = seg]
      /\ minute' = minute /\ filename' = filename /\ file_counter' = file_counter
      /\ file_enumerator' = file_enumerator
  BY DEF FInv, WriteSame, config
<1>2. PICK k \in 0 .. Len(given) :
        /\ disk' = Stored(disk, filename, SubSeq(given, 1, k))
        /\ buffer' = SubSeq(given, k + 1, Len(given))
  BY DEF WriteSame
<1>3. /\ segments # << >> /\ L \in DOMAIN segments
      /\ LastSegment = last /\ last \in SegmentType
      /\ filename = last.name /\ filename \in DOMAIN disk
      /\ disk[filename] \in Seq(Data)
      /\ disk[filename] \o buffer = last.items
      /\ ~ last.crashed
      /\ data_counter = 0 => last.items = << >>
  BY <1>1, OpenFileHolds DEF FInv, LastIsOpen
<1>4. /\ given \in Seq(Data) /\ buffer \in Seq(Data)
      /\ given = buffer \o <<x>>
  BY <1>1, AppendProperties, AppendIsConcat DEF Typed
<1> HIDE DEF given
<1>5. /\ seg \in SegmentType
      /\ seg.name = last.name /\ seg.session = last.session /\ seg.crashed = last.crashed
      /\ seg.items = Append(last.items, x)
      /\ last.items \in Seq(Data)
  BY <1>3, AppendProperties DEF SegmentType
<1>6. /\ SubSeq(given, 1, k) \in Seq(Data) /\ buffer' \in Seq(Data)
      /\ SubSeq(given, 1, k) \o buffer' = given
  BY <1>2, <1>4, TwoParts
<1>7. /\ DOMAIN disk' = DOMAIN disk
      /\ \A n \in DOMAIN disk :
           disk'[n] = IF n = filename THEN disk[n] \o SubSeq(given, 1, k) ELSE disk[n]
  BY <1>2, <1>3, StoredFacts
<1>8. disk'[filename] \in Seq(Data) /\ disk'[filename] \o buffer' = seg.items
  <2>1. disk'[filename] = disk[filename] \o SubSeq(given, 1, k)
    BY <1>3, <1>7
  <2>2. disk'[filename] \in Seq(Data)
    BY <1>3, <1>6, <2>1, ConcatProperties
  <2>3. disk'[filename] \o buffer' = disk[filename] \o given
    <3>1. (disk[filename] \o SubSeq(given, 1, k)) \o buffer'
            = disk[filename] \o (SubSeq(given, 1, k) \o buffer')
      <4>1. disk[filename] \in Seq(Data) /\ SubSeq(given, 1, k) \in Seq(Data)
            /\ buffer' \in Seq(Data)
        BY <1>3, <1>6
      <4>2. QED
        BY <4>1, Associative
    <3>2. QED
      BY <1>6, <2>1, <3>1
  <2>4. <<x>> \in Seq(Data)
    OBVIOUS
  <2>5. disk[filename] \o given = last.items \o <<x>>
    <3>1. (disk[filename] \o buffer) \o <<x>> = disk[filename] \o (buffer \o <<x>>)
      <4>1. disk[filename] \in Seq(Data) /\ buffer \in Seq(Data) /\ <<x>> \in Seq(Data)
        BY <1>3, <1>4, <2>4
      <4>2. QED
        BY <4>1, Associative
    <3>2. QED
      BY <1>3, <1>4, <3>1
  <2>6. QED
    BY <1>5, <2>2, <2>3, <2>5, AppendIsConcat
<1> HIDE DEF seg
<1>9. /\ segments' \in Seq(SegmentType)
      /\ Len(segments') = L
      /\ DOMAIN segments' = DOMAIN segments /\ DOMAIN segments = 1 .. L /\ L \in Nat
      /\ \A j \in DOMAIN segments : segments'[j] = IF j = L THEN seg ELSE segments[j]
      /\ \A j \in DOMAIN segments : segments'[j].name = segments[j].name
      /\ segments' # << >> /\ LastSegment' = seg
  BY <1>1, <1>3, <1>5, ChangedSegment, SegmentFacts
<1>10. Typed'
  <2>1. \A n \in DOMAIN disk' : disk'[n] \in Seq(Data)
    BY <1>1, <1>7, <1>8 DEF Typed
  <2>2. \A j \in DOMAIN segments' : segments'[j].name \in DOMAIN disk'
    BY <1>1, <1>7, <1>9 DEF Typed
  <2>3. QED
    BY <1>1, <1>6, <1>9, <2>1, <2>2 DEF Typed
<1>11. LastIsOpen'
  BY <1>1, <1>3, <1>5, <1>9 DEF LastIsOpen, Typed
<1>12. Counted'
  BY <1>1, <1>3, <1>5, CountedSame
<1>13. KeptUnlessReopened'
  <2>1. ASSUME NEW j \in DOMAIN segments, NotReopened(j)', j # L PROVE Holds(j)'
    <3>1. NotReopened(j) /\ segments[j].name # filename
      <4>1. \A i \in j + 1 .. L : i \in DOMAIN segments /\ segments[i].name # segments[j].name
        BY <1>9, <2>1 DEF NotReopened
      <4>2. L \in j + 1 .. L
        BY <1>9, <2>1
      <4>3. QED
        BY <1>3, <4>1, <4>2 DEF NotReopened
    <3>2. Holds(j)
      BY <3>1, KeptByHolds DEF FInv
    <3>3. segments[j].name \in DOMAIN disk /\ disk'[segments[j].name] = disk[segments[j].name]
      BY <1>1, <1>7, <3>1 DEF Typed
    <3>4. segments'[j] = segments[j] /\ j # Len(segments')
      BY <1>9, <2>1
    <3>5. QED
      BY <2>1, <3>2, <3>3, <3>4 DEF Holds
  <2>2. Holds(L)'
    BY <1>1, <1>3, <1>5, <1>8, <1>9 DEF Holds
  <2>3. QED
    BY <1>9, <2>1, <2>2, KeptByHolds
<1>14. RunsApart'
  <2>1. ASSUME NEW i \in 2 .. Len(seg.items) PROVE seg.items[i] \notin NewFileData
    <3>1. /\ Len(last.items) \in Nat
          /\ Len(seg.items) = Len(last.items) + 1
          /\ \A n \in 1 .. Len(last.items) : seg.items[n] = last.items[n]
          /\ seg.items[Len(last.items) + 1] = x
      BY <1>5, AppendProperties, LenProperties
    <3>2. CASE i <= Len(last.items)
      <4>1. i \in 1 .. Len(last.items) /\ i \in 2 .. Len(last.items)
        BY <2>1, <3>1, <3>2
      <4>2. last.items[i] \notin NewFileData
        BY <1>3, <4>1 DEF FInv, RunsApart
      <4>3. QED
        BY <3>1, <4>1, <4>2
    <3>3. CASE i = Len(last.items) + 1
      <4>1. data_counter # 0
        BY <1>3, <2>1, <3>1, <3>3, EmptySeq
      <4>2. QED
        BY <1>1, <3>1, <3>3, <4>1 DEF DataCond, Typed
    <3>4. i <= Len(last.items) \/ i = Len(last.items) + 1
      BY <2>1, <3>1
    <3>5. QED
      BY <3>2, <3>3, <3>4
  <2>2. QED
    BY <1>9, <2>1 DEF FInv, RunsApart
<1>15. QED
  BY <1>10, <1>11, <1>12, <1>13, <1>14 DEF FInv

\* A write that rotates keeps the invariant: the old file is closed, and thus
\* complete, before the new one is opened.
LEMMA WriteNewStep ==
  ASSUME FInv, NEW x \in Data, WriteNew(x)
  PROVE  FInv'
<1> DEFINE L == Len(segments)
           name == Suffix(file_counter + 1)
           closed == Stored(disk, filename, buffer)
           seg == Segment(name, <<x>>, Session)
<1>1. /\ Typed /\ open /\ open' = TRUE
      /\ data_counter' = data_counter + 1 /\ file_counter' = file_counter + 1
      /\ filename' = name
      /\ segments' = Append(segments, seg)
      /\ minute' = minute /\ file_enumerator' = file_enumerator
  BY DEF FInv, WriteNew, config
<1>2. PICK k \in 0 .. 1 :
        /\ disk' = Stored(Truncated(closed, name), name, SubSeq(<<x>>, 1, k))
        /\ buffer' = SubSeq(<<x>>, k + 1, 1)
  BY DEF WriteNew
<1>3. /\ segments # << >> /\ L \in DOMAIN segments
      /\ LastSegment = segments[L]
      /\ filename = segments[L].name /\ filename \in DOMAIN disk
      /\ disk[filename] \in Seq(Data)
      /\ disk[filename] \o buffer = segments[L].items
      /\ segments[L].items \in Seq(Data)
      /\ ~ segments[L].crashed
  BY <1>1, OpenFileHolds, SegmentFacts DEF FInv, LastIsOpen
<1>4. /\ name \in Nat
      /\ file_enumerator = "order" => name = file_counter + 1 /\ name > file_counter
  BY <1>1, SuffixType DEF Suffix, Typed
<1>5. /\ <<x>> \in Seq(Data) /\ Len(<<x>>) = 1
      /\ SubSeq(<<x>>, 1, k) \in Seq(Data) /\ buffer' \in Seq(Data)
      /\ SubSeq(<<x>>, 1, k) \o buffer' = <<x>>
  <2>1. <<x>> \in Seq(Data) /\ Len(<<x>>) = 1
    OBVIOUS
  <2>2. QED
    BY <1>2, <2>1, TwoParts
<1>6. /\ seg \in SegmentType
      /\ seg.name = name /\ seg.items = <<x>> /\ ~ seg.crashed /\ seg.session = Session
  BY <1>4, <1>5, SessionFacts DEF Segment, SegmentType
<1>7. /\ DOMAIN closed = DOMAIN disk
      /\ \A n \in DOMAIN disk :
           closed[n] = IF n = filename THEN segments[L].items ELSE disk[n]
  <2>1. /\ DOMAIN closed = DOMAIN disk
        /\ \A n \in DOMAIN disk :
             closed[n] = IF n = filename THEN disk[n] \o buffer ELSE disk[n]
    BY <1>3, StoredFacts
  <2>2. QED
    BY <1>3, <2>1
<1> HIDE DEF name, closed, seg
<1>8. /\ DOMAIN disk' = DOMAIN disk \union {name}
      /\ disk'[name] = SubSeq(<<x>>, 1, k)
      /\ \A n \in DOMAIN disk : n # name => disk'[n] = closed[n]
  <2> DEFINE d == Truncated(closed, name)
  <2>1. /\ DOMAIN d = DOMAIN disk \union {name}
        /\ d[name] = << >>
        /\ \A n \in DOMAIN disk : n # name => d[n] = closed[n]
    <3>1. /\ DOMAIN d = DOMAIN closed \union {name}
          /\ \A n \in DOMAIN closed \union {name} :
               d[n] = IF n = name THEN << >> ELSE closed[n]
      BY TruncatedFacts
    <3>2. QED
      BY <1>7, <3>1
  <2> HIDE DEF d
  <2>2. /\ DOMAIN disk' = DOMAIN d
        /\ \A n \in DOMAIN d :
             disk'[n] = IF n = name THEN d[n] \o SubSeq(<<x>>, 1, k) ELSE d[n]
    <3>1. disk' = Stored(d, name, SubSeq(<<x>>, 1, k)) /\ name \in DOMAIN d
      BY <1>2, <2>1 DEF d
    <3>2. QED
      BY <3>1, StoredFacts
  <2>3. << >> \o SubSeq(<<x>>, 1, k) = SubSeq(<<x>>, 1, k)
    BY <1>5, ConcatEmptySeq
  <2>4. QED
    BY <2>1, <2>2, <2>3
<1>9. /\ segments' \in Seq(SegmentType)
      /\ Len(segments') = L + 1 /\ L \in Nat
      /\ DOMAIN segments = 1 .. L
      /\ DOMAIN segments' = DOMAIN segments \union {L + 1}
      /\ \A j \in DOMAIN segments : segments'[j] = segments[j] /\ j < L + 1
      /\ segments'[L + 1] = seg
      /\ segments' # << >> /\ LastSegment' = seg
  BY <1>1, <1>6, AddedSegment, SegmentFacts
<1>10. Typed'
  <2>1. \A n \in DOMAIN disk' : disk'[n] \in Seq(Data)
    BY <1>1, <1>3, <1>5, <1>7, <1>8 DEF Typed
  <2>2. \A j \in DOMAIN segments' : segments'[j].name \in DOMAIN disk'
    BY <1>1, <1>6, <1>8, <1>9 DEF Typed
  <2>3. QED
    BY <1>1, <1>5, <1>9, <2>1, <2>2 DEF Typed
<1>11. LastIsOpen'
  BY <1>1, <1>6, <1>9 DEF LastIsOpen, Typed
<1>12. Counted'
  BY <1>1, <1>3, <1>4, <1>6, CountedStep
<1>13. KeptUnlessReopened'
  <2>1. ASSUME NEW j \in DOMAIN segments, NotReopened(j)' PROVE Holds(j)'
    <3>1. NotReopened(j) /\ segments[j].name # name
      <4>1. \A i \in j + 1 .. L + 1 : segments'[i].name # segments[j].name
        BY <1>9, <2>1 DEF NotReopened
      <4>2. L + 1 \in j + 1 .. L + 1 /\ \A i \in j + 1 .. L : i \in j + 1 .. L + 1 /\ i \in DOMAIN segments
        BY <1>9
      <4>3. QED
        BY <1>6, <1>9, <4>1, <4>2 DEF NotReopened
    <3>2. Holds(j)
      BY <3>1, KeptByHolds DEF FInv
    <3>3. /\ segments[j].name \in DOMAIN disk
          /\ disk'[segments[j].name] = closed[segments[j].name]
      BY <1>1, <1>8, <3>1 DEF Typed
    <3>4. /\ segments'[j] = segments[j] /\ j # Len(segments')
          /\ segments[j].items \in Seq(Data)
      BY <1>1, <1>9, SegmentFacts
    <3>5. CASE j = L
      <4>1. disk'[segments[L].name] = segments[L].items
        BY <1>3, <1>7, <3>3, <3>5
      <4>2. segments[L].items \o << >> = segments[L].items
        BY <1>3, ConcatEmptySeq
      <4>3. QED
        BY <1>3, <3>4, <3>5, <4>1, <4>2 DEF Holds
    <3>6. CASE j # L
      <4>1. segments[j].name # filename
        <5>1. L \in j + 1 .. L
          BY <1>9, <3>6
        <5>2. QED
          BY <1>3, <3>1, <5>1 DEF NotReopened
      <4>2. disk'[segments[j].name] = disk[segments[j].name]
        BY <1>7, <3>3, <4>1
      <4>3. QED
        BY <3>2, <3>4, <3>6, <4>2 DEF Holds
    <3>7. QED
      BY <3>5, <3>6
  <2>2. Holds(Len(segments))'
    <3>1. disk'[name] \o buffer' = <<x>>
      BY <1>5, <1>8
    <3>2. QED
      BY <1>1, <1>6, <1>9, <3>1 DEF Holds
  <2>3. ASSUME NEW j \in DOMAIN segments', NotReopened(j)' PROVE Holds(j)'
    <3>1. CASE j \in DOMAIN segments
      BY <2>1, <2>3, <3>1
    <3>2. CASE j = Len(segments')
      BY <2>2, <3>2
    <3>3. QED
      BY <1>9, <3>1, <3>2
  <2>4. QED
    BY <2>3, KeptByHolds
<1>14. RunsApart'
  <2>1. \A j \in DOMAIN segments : \A i \in 2 .. Len(segments'[j].items) :
          segments'[j].items[i] \notin NewFileData
    BY <1>9 DEF FInv, RunsApart
  <2>2. \A i \in 2 .. Len(segments'[L + 1].items) :
          segments'[L + 1].items[i] \notin NewFileData
    BY <1>5, <1>6, <1>9
  <2>3. QED
    BY <1>9, <2>1, <2>2 DEF RunsApart
<1>15. QED
  BY <1>10, <1>11, <1>12, <1>13, <1>14 DEF FInv

\* Closing keeps the invariant.
LEMMA CloseStep ==
  ASSUME FInv, Close
  PROVE  FInv'
<1> DEFINE L == Len(segments)
<1>1. /\ Typed /\ open /\ open' = FALSE
      /\ disk' = Stored(disk, filename, buffer)
      /\ buffer' = << >>
      /\ UNCHANGED <<minute, file_enumerator, data_counter, file_counter, segments>>
  BY DEF FInv, Close, config, counters
<1>2. /\ segments # << >> /\ L \in DOMAIN segments
      /\ DOMAIN segments = 1 .. L /\ L \in Nat
      /\ filename = segments[L].name /\ filename \in DOMAIN disk
      /\ disk[filename] \o buffer = segments[L].items
      /\ segments[L].items \in Seq(Data)
      /\ ~ segments[L].crashed
  BY <1>1, OpenFileHolds, SegmentFacts DEF FInv, LastIsOpen
<1>3. /\ DOMAIN disk' = DOMAIN disk
      /\ \A n \in DOMAIN disk :
           disk'[n] = IF n = filename THEN segments[L].items ELSE disk[n]
  <2>1. /\ DOMAIN disk' = DOMAIN disk
        /\ \A n \in DOMAIN disk :
             disk'[n] = IF n = filename THEN disk[n] \o buffer ELSE disk[n]
    BY <1>1, <1>2, StoredFacts
  <2>2. QED
    BY <1>2, <2>1
<1>4. Typed'
  <2>1. \A n \in DOMAIN disk' : disk'[n] \in Seq(Data)
    BY <1>1, <1>2, <1>3 DEF Typed
  <2>2. buffer' \in Seq(Data)
    BY <1>1, EmptySeq
  <2>3. QED
    BY <1>1, <1>3, <2>1, <2>2 DEF Typed
<1>5. LastIsOpen'
  BY <1>1 DEF LastIsOpen
<1>6. Counted'
  BY <1>1 DEF FInv, Counted, LastSegment
<1>7. KeptUnlessReopened'
  <2>1. ASSUME NEW j \in DOMAIN segments, NotReopened(j)' PROVE Holds(j)'
    <3>1. NotReopened(j)
      BY <1>1, <2>1 DEF NotReopened
    <3>2. Holds(j) /\ segments[j].name \in DOMAIN disk
      BY <1>1, <3>1, KeptByHolds DEF FInv, Typed
    <3>3. CASE j = L
      <4>1. segments[L].items \o << >> = segments[L].items
        BY <1>2, ConcatEmptySeq
      <4>2. disk'[segments[L].name] = segments[L].items
        BY <1>2, <1>3
      <4>3. QED
        BY <1>1, <1>2, <3>3, <4>1, <4>2 DEF Holds
    <3>4. CASE j # L
      <4>1. segments[j].name # filename
        <5>1. L \in j + 1 .. L
          BY <1>2, <3>4
        <5>2. QED
          BY <1>2, <3>1, <5>1 DEF NotReopened
      <4>2. disk'[segments[j].name] = disk[segments[j].name]
        BY <1>3, <3>2, <4>1
      <4>3. QED
        BY <1>1, <3>2, <3>4, <4>2 DEF Holds
    <3>5. QED
      BY <3>3, <3>4
  <2>2. QED
    BY <1>1, <2>1, KeptByHolds
<1>8. RunsApart'
  BY <1>1 DEF FInv, RunsApart
<1>9. QED
  BY <1>4, <1>5, <1>6, <1>7, <1>8 DEF FInv

\* A crash keeps the invariant: what is on disk is a beginning.
LEMMA CrashStep ==
  ASSUME FInv, Crash
  PROVE  FInv'
<1> DEFINE L == Len(segments)
           last == segments[L]
           seg == [last EXCEPT !.crashed = TRUE]
<1>1. /\ Typed /\ open /\ open' = FALSE
      /\ buffer' = << >>
      /\ segments' = [segments EXCEPT ![L] = seg]
      /\ UNCHANGED <<minute, file_enumerator, data_counter, file_counter, disk>>
  BY DEF FInv, Crash, config, counters
<1>2. /\ segments # << >> /\ L \in DOMAIN segments
      /\ LastSegment = last /\ last \in SegmentType
      /\ filename = last.name /\ filename \in DOMAIN disk
      /\ disk[filename] \in Seq(Data)
      /\ disk[filename] \o buffer = last.items
  BY <1>1, OpenFileHolds DEF FInv
<1>3. /\ seg \in SegmentType
      /\ seg.name = last.name /\ seg.items = last.items
      /\ seg.session = last.session /\ seg.crashed
  BY <1>2 DEF SegmentType
<1> HIDE DEF seg
<1>4. /\ segments' \in Seq(SegmentType)
      /\ Len(segments') = L
      /\ DOMAIN segments' = DOMAIN segments /\ DOMAIN segments = 1 .. L /\ L \in Nat
      /\ \A j \in DOMAIN segments : segments'[j] = IF j = L THEN seg ELSE segments[j]
      /\ \A j \in DOMAIN segments :
           segments'[j].name = segments[j].name /\ segments'[j].items = segments[j].items
  BY <1>1, <1>2, <1>3, ChangedSegment, SegmentFacts
<1>5. Typed'
  <2>1. \A j \in DOMAIN segments' : segments'[j].name \in DOMAIN disk'
    BY <1>1, <1>4 DEF Typed
  <2>2. buffer' \in Seq(Data)
    BY <1>1, EmptySeq
  <2>3. QED
    BY <1>1, <1>4, <2>1, <2>2 DEF Typed
<1>6. LastIsOpen'
  BY <1>1 DEF LastIsOpen
<1>7. Counted'
  BY <1>1, <1>2, <1>3, CountedSame
<1>8. KeptUnlessReopened'
  <2>1. ASSUME NEW j \in DOMAIN segments, NotReopened(j)', j # L PROVE Holds(j)'
    <3>1. NotReopened(j)
      <4>1. \A i \in j + 1 .. L : i \in DOMAIN segments /\ segments[i].name # segments[j].name
        BY <1>4, <2>1 DEF NotReopened
      <4>2. QED
        BY <4>1 DEF NotReopened
    <3>2. Holds(j)
      BY <3>1, KeptByHolds DEF FInv
    <3>3. segments'[j] = segments[j] /\ j # Len(segments')
      BY <1>4, <2>1
    <3>4. QED
      BY <1>1, <2>1, <3>2, <3>3 DEF Holds
  <2>2. Holds(L)'
    <3>1. IsPrefix(disk[filename], last.items)
      BY <1>1, <1>2, PrefixOfConcat DEF Typed
    <3>2. QED
      BY <1>1, <1>2, <1>3, <1>4, <3>1 DEF Holds
  <2>3. QED
    BY <1>4, <2>1, <2>2, KeptByHolds
<1>9. RunsApart'
  BY <1>4 DEF FInv, RunsApart
<1>10. QED
  BY <1>5, <1>6, <1>7, <1>8, <1>9 DEF FInv

\* The clock is only read when a file is opened.
LEMMA ClockStep ==
  ASSUME FInv, Tick \/ UNCHANGED vars
  PROVE  FInv'
<1>1. /\ minute' \in Nat
      /\ UNCHANGED <<file_enumerator, open, filename, data_counter, file_counter,
                     disk, buffer, segments>>
  BY DEF FInv, Typed, Tick, vars, config, counters
<1>2. Typed' /\ LastIsOpen' /\ Counted'
  BY <1>1 DEF FInv, Typed, LastIsOpen, Counted, LastSegment
<1>3. KeptUnlessReopened' /\ RunsApart'
  BY <1>1 DEF FInv, KeptUnlessReopened, NotReopened, RunsApart
<1>4. QED
  BY <1>2, <1>3 DEF FInv

-----------------------------------------------------------------------------
(* The theorems *)

\* The inductive invariant holds.
THEOREM InvariantHolds == Spec => []FInv
<1>1. Init => FInv
  <2>1. SUFFICES ASSUME Init PROVE FInv
    OBVIOUS
  <2>2. /\ segments = << >> /\ DOMAIN segments = {} /\ DOMAIN disk = {} /\ ~ open
        /\ segments \in Seq(SegmentType) /\ buffer \in Seq(Data)
    BY <2>1, EmptySeq DEF Init
  <2>3. Typed
    BY <2>1, <2>2, EnumeratorsAssumption DEF Init, Typed
  <2>4. LastIsOpen /\ Counted /\ KeptUnlessReopened /\ RunsApart
    BY <2>2 DEF LastIsOpen, Counted, KeptUnlessReopened, RunsApart
  <2>5. QED
    BY <2>3, <2>4 DEF FInv
<1>2. FInv /\ [Next]_vars => FInv'
  BY StartStep, WriteSameStep, WriteNewStep, CloseStep, CrashStep, ClockStep DEF Next
<1>3. QED
  BY <1>1, <1>2, PTL DEF Spec

\* A file that is not opened again holds what was written to it
\* (KeptUnlessReopened).
THEOREM FilesAreKept == Spec => []KeptUnlessReopened
<1>1. FInv => KeptUnlessReopened
  BY DEF FInv
<1>2. QED
  BY <1>1, InvariantHolds, PTL

\* With numbered files a session opens no name twice (NumbersAreFresh).
THEOREM NumbersStayFresh == Spec => []NumbersAreFresh
<1>1. FInv => NumbersAreFresh
  <2>1. SUFFICES ASSUME FInv, file_enumerator = "order",
                        NEW j \in DOMAIN segments, NEW k \in DOMAIN segments,
                        segments[j].session = segments[k].session, j # k
                 PROVE  segments[j].name # segments[k].name
    BY DEF NumbersAreFresh
  <2>2. /\ j \in Nat /\ k \in Nat
        /\ segments[j].name \in Nat /\ segments[k].name \in Nat
    BY <2>1, SegmentFacts DEF FInv
  <2>3. j < k => segments[j].name < segments[k].name
    BY <2>1 DEF FInv, Counted
  <2>4. k < j => segments[k].name < segments[j].name
    BY <2>1 DEF FInv, Counted
  <2>5. QED
    BY <2>1, <2>2, <2>3, <2>4
<1>2. QED
  BY <1>1, InvariantHolds, PTL

\* A file never holds readouts of two runs (RunsApart).
THEOREM RunsStayApart == Spec => []RunsApart
<1>1. FInv => RunsApart
  BY DEF FInv
<1>2. QED
  BY <1>1, InvariantHolds, PTL
=============================================================================
