--------------------------- MODULE DataFilesProofs ---------------------------
(***************************************************************************)
(* Theorems about what is read from the files and shown of the streams     *)
(* (DataFiles, Displays), for any readouts, maps of pixels, objects,       *)
(* frames and time stamps.                                                 *)
(***************************************************************************)
EXTENDS Displays, NumberLemmas, SequenceTheorems, FiniteSetTheorems, TLAPS

\* A file keeps its kind, and the displays leave files alone.
LEMMA StepKind ==
  ASSUME [Next]_vars
  PROVE  kind' = kind /\ ([DataNext]_dataVars \/ UNCHANGED dataVars)
<1>1. ASSUME DataNext PROVE kind' = kind
  BY <1>1 DEF DataNext, EmitLog, SendWritten, SendRejected, Publish, PutObject, GetObjects,
              WriteFrame, ReadFrame, WriteReadout, CloseFile, Crash, GetItem, NextRow, LoadAllData
<1>2. UNCHANGED dataVars => kind' = kind
  BY DEF dataVars
<1>3. CASE DataNext
  BY <1>1, <1>3
<1>4. CASE UNCHANGED dataVars
  BY <1>2, <1>4
<1>5. QED
  BY <1>3, <1>4 DEF Next, vars, Lose, DumpTakes, ViewerTakes, ViewerUpdates,
                    SlowSignalDumpTakes, Take

-----------------------------------------------------------------------------
(* Slow signals *)

\* The rows of a table
Rows == {Single(r) : r \in Readouts}

\* What a holder of a row has of rows.
HolderRight(h, rows) ==
  \/ h.by = "iterator"
  \/ h.by = "item" /\ h.at \in DOMAIN rows /\ h.own = Mapped(rows[h.at]).data
  \/ /\ h.by = "load_all_data" /\ h.at \in 1 .. N_TM
     /\ h.own = [i \in DOMAIN rows |-> [place \in DOMAIN Map |-> rows[i].data[h.at][Map[place] + 1]]]

TableInv ==
  kind = "slowsignal" =>
    /\ sent \in Seq(Readouts)
    /\ file \in Seq(Rows)
    /\ Len(file) <= Len(sent)
    /\ \A i \in 1 .. Len(file) : file[i] = Single(sent[i])
    /\ flushed \in Nat /\ flushed <= Len(file) /\ flushed > Len(sent) - Buffer
    /\ ~ reading => Len(file) = Len(sent) /\ held = {}
    /\ \A h \in held : HolderRight(h, file)

\* unpack gives the readout that was packed.
LEMMA UnpackPack ==
  ASSUME NEW r \in Readouts
  PROVE  UnpackReadout(PackReadout(r)) = r
<1> DEFINE S == {r.iro, r.time, r.cpu} \union
                  UNION {{r.data[tm][pix] : pix \in 1 .. N_TM_PIX} : tm \in 1 .. N_TM}
           numbers == <<r.iro, r.time, r.cpu>>
           body == [i \in 1 .. N_TM * N_TM_PIX |->
                      r.data[(i - 1) \div N_TM_PIX + 1][((i - 1) % N_TM_PIX) + 1]]
<1>1. /\ r = SSReadout(r.iro, r.time, r.cpu, r.data)
      /\ r.data = [tm \in 1 .. N_TM |-> [pix \in 1 .. N_TM_PIX |-> r.data[tm][pix]]]
  BY DataAssumption DEF IsReadout
<1>2. PICK T \in Nat \ {0}, P \in Nat \ {0} : T = N_TM /\ P = N_TM_PIX
  BY SlowSignalAssumption
<1>3. T * P \in Nat
  BY <1>2
<1>4. body \in Seq(S)
  <2>1. ASSUME NEW i \in 1 .. T * P
        PROVE  r.data[(i - 1) \div P + 1][((i - 1) % P) + 1] \in S
    <3>1. i - 1 \in Nat /\ i - 1 < T * P
      BY <1>3
    <3>2. PICK q \in 0 .. T - 1, s \in 0 .. P - 1 : q = (i - 1) \div P /\ s = (i - 1) % P
      BY <1>2, <3>1, Division, Zenon
    <3>3. q + 1 \in 1 .. T /\ s + 1 \in 1 .. P
      OBVIOUS
    <3>4. r.data[q + 1][s + 1] \in S
      BY <1>2, <3>3
    <3>5. QED
      BY <3>2, <3>4
  <2>2. body = [i \in 1 .. T * P |-> r.data[(i - 1) \div P + 1][((i - 1) % P) + 1]]
    BY <1>2
  <2> HIDE DEF body, S
  <2>3. QED
    BY <1>3, <2>1, <2>2
<1>5. numbers \in Seq(S) /\ Len(numbers) = 3 /\ Len(body) = T * P
  BY <1>2, <1>3
<1>6. ASSUME NEW i \in 1 .. 3 + T * P
      PROVE  PackReadout(r)[i] = IF i <= 3 THEN numbers[i] ELSE body[i - 3]
  <2>1. PackReadout(r) = numbers \o body
    BY DEF PackReadout
  <2> HIDE DEF numbers, body, S
  <2>2. \A j \in 1 .. Len(numbers) + Len(body) :
          (numbers \o body)[j] = IF j <= Len(numbers) THEN numbers[j] ELSE body[j - Len(numbers)]
    BY <1>4, <1>5, ConcatProperties
  <2>3. QED
    BY <1>3, <1>5, <2>1, <2>2
<1>7. /\ PackReadout(r)[1] = r.iro /\ PackReadout(r)[2] = r.time /\ PackReadout(r)[3] = r.cpu
  <2>1. 1 \in 1 .. 3 + T * P /\ 2 \in 1 .. 3 + T * P /\ 3 \in 1 .. 3 + T * P
    BY <1>3
  <2>2. numbers[1] = r.iro /\ numbers[2] = r.time /\ numbers[3] = r.cpu
    OBVIOUS
  <2> HIDE DEF numbers, body
  <2>3. \A i \in 1 .. 3 + T * P : i <= 3 => PackReadout(r)[i] = numbers[i]
    BY <1>6
  <2>4. /\ PackReadout(r)[1] = numbers[1] /\ PackReadout(r)[2] = numbers[2]
        /\ PackReadout(r)[3] = numbers[3]
    BY <2>1, <2>3
  <2>5. QED
    BY <2>2, <2>4
<1>8. ASSUME NEW tm \in 1 .. T, NEW pix \in 1 .. P
      PROVE  PackReadout(r)[3 + (tm - 1) * P + pix] = r.data[tm][pix]
  <2>1. PICK a \in Nat, b \in 0 .. P - 1 : a = tm - 1 /\ b = pix - 1
    OBVIOUS
  <2>2. PICK n \in Nat : n = a * P /\ n + P <= T * P
    <3>1. PICK d \in Nat : T = a + 1 + d
      BY <2>1
    <3>2. T * P = a * P + P + d * P
      BY <3>1
    <3>3. a * P \in Nat /\ d * P \in Nat
      OBVIOUS
    <3>4. QED
      BY <3>2, <3>3
  <2>3. PICK j \in Nat : j = n + b
    OBVIOUS
  <2>4. j \div P = a /\ j % P = b
    BY <2>2, <2>3, Division2
  <2>5. j + 1 \in 1 .. T * P /\ j + 4 \in 1 .. 3 + T * P /\ ~ j + 4 <= 3 /\ j + 4 - 3 = j + 1 /\ j + 1 - 1 = j
    BY <1>3, <2>2, <2>3
  <2>6. PackReadout(r)[j + 4] = body[j + 1]
    BY <1>6, <2>5
  <2>7. body[j + 1] = r.data[j \div P + 1][(j % P) + 1]
    BY <1>2, <2>5
  <2>8. a + 1 = tm /\ b + 1 = pix /\ 3 + (tm - 1) * P + pix = j + 4
    BY <2>1, <2>2, <2>3
  <2>9. QED
    BY <2>4, <2>6, <2>7, <2>8
<1>9. QED
  BY <1>1, <1>2, <1>7, <1>8 DEF UnpackReadout, SSReadout

\* Of a readout the table gets the row as floats.
LEMMA WriteKeepsTable ==
  ASSUME TableInv, NEW r \in Readouts, WriteReadout(r)
  PROVE  TableInv'
<1>1. /\ kind = "slowsignal" /\ kind' = kind /\ ~ reading /\ reading' = reading /\ held' = held
      /\ sent' = Append(sent, r)
      /\ file' = Append(file, Single(UnpackReadout(PackReadout(r))))
      /\ flushed' = IF Len(file) + 1 - flushed >= Buffer THEN Len(file) + 1 ELSE flushed
  BY DEF WriteReadout
<1>2. /\ sent \in Seq(Readouts) /\ file \in Seq(Rows) /\ Len(file) = Len(sent) /\ held = {}
      /\ \A i \in 1 .. Len(file) : file[i] = Single(sent[i])
      /\ flushed \in Nat /\ flushed <= Len(file) /\ flushed > Len(sent) - Buffer
  BY <1>1 DEF TableInv
<1>3. PICK row \in Rows : row = Single(r)
  BY DEF Rows
<1>4. file' = Append(file, row)
  BY <1>1, <1>3, UnpackPack
<1>5. PICK n \in Nat : n = Len(file)
  BY <1>2, LenProperties
<1>6. /\ sent' \in Seq(Readouts) /\ Len(sent') = n + 1
      /\ \A i \in 1 .. n : sent'[i] = sent[i]
      /\ sent'[n + 1] = r
  BY <1>1, <1>2, <1>5, AppendProperties
<1>7. /\ file' \in Seq(Rows) /\ Len(file') = n + 1
      /\ \A i \in 1 .. n : file'[i] = file[i]
      /\ file'[n + 1] = row
  BY <1>2, <1>4, <1>5, AppendProperties
<1>8. \A i \in 1 .. n + 1 : file'[i] = Single(sent'[i])
  <2>1. ASSUME NEW i \in 1 .. n + 1 PROVE file'[i] = Single(sent'[i])
    <3>1. CASE i \in 1 .. n
      BY <1>2, <1>5, <1>6, <1>7, <3>1
    <3>2. CASE i = n + 1
      BY <1>3, <1>6, <1>7, <3>2
    <3>3. QED
      BY <3>1, <3>2
  <2>2. QED
    BY <2>1
<1>9. flushed' \in Nat /\ flushed' <= n + 1 /\ flushed' > n + 1 - Buffer
  <2>1. PICK m \in Nat, b \in Nat \ {0} : m = flushed /\ b = Buffer /\ m <= n /\ m > n - b
    BY <1>2, <1>5, DataAssumption
  <2>2. flushed' = IF n + 1 - m >= b THEN n + 1 ELSE m
    BY <1>1, <1>5, <2>1
  <2>3. PICK k \in Nat : k = flushed' /\ k <= n + 1 /\ k > n + 1 - b
    BY <2>1, <2>2
  <2>4. QED
    BY <2>1, <2>3
<1>10. /\ Len(file') = Len(sent') /\ Len(file') <= Len(sent')
       /\ flushed' \in Nat /\ flushed' <= Len(file') /\ flushed' > Len(sent') - Buffer
       /\ \A i \in 1 .. Len(file') : file'[i] = Single(sent'[i])
  BY <1>6, <1>7, <1>8, <1>9, DataAssumption
<1>11. \A h \in held' : HolderRight(h, file')
  BY <1>1, <1>2
<1>12. QED
  BY <1>1, <1>6, <1>7, <1>10, <1>11 DEF TableInv

\* close_file flushes all rows.
LEMMA CloseKeepsTable ==
  ASSUME TableInv, CloseFile
  PROVE  TableInv'
<1>1. /\ kind = "slowsignal" /\ kind' = kind /\ ~ reading /\ reading' = TRUE /\ held' = held
      /\ sent' = sent /\ file' = file /\ flushed' = Len(file)
  BY DEF CloseFile
<1>2. Len(file) = Len(sent) /\ Len(file) \in Nat
  BY <1>1, LenProperties DEF TableInv
<1>3. Len(file) > Len(sent) - Buffer
  BY <1>2, DataAssumption
<1>4. QED
  BY <1>1, <1>2, <1>3 DEF TableInv

\* A crash leaves at least the rows that are flushed.
LEMMA CrashKeepsTable ==
  ASSUME TableInv, Crash
  PROVE  TableInv'
<1>1. PICK n \in flushed .. Len(file) : file' = SubSeq(file, 1, n) /\ flushed' = n
  BY DEF Crash
<1>2. /\ kind = "slowsignal" /\ kind' = kind /\ ~ reading /\ reading' = TRUE /\ held' = held
      /\ sent' = sent
  BY DEF Crash
<1>3. /\ sent \in Seq(Readouts) /\ file \in Seq(Rows) /\ Len(file) = Len(sent) /\ held = {}
      /\ \A i \in 1 .. Len(file) : file[i] = Single(sent[i])
      /\ flushed \in Nat /\ flushed > Len(sent) - Buffer
  BY <1>2 DEF TableInv
<1>4. PICK l \in Nat : l = Len(file)
  BY <1>3, LenProperties
<1>5. n \in Nat /\ n <= l /\ n > l - Buffer
  BY <1>1, <1>3, <1>4, DataAssumption
<1>6. /\ file' \in Seq(Rows) /\ Len(file') = n
      /\ \A i \in 1 .. n : file'[i] = file[i]
  <2>1. \A i \in 1 .. n : file[i] \in Rows
    BY <1>3, <1>4, <1>5
  <2>2. file' = [i \in 1 .. n |-> file[i]]
    BY <1>1, <1>5
  <2>3. QED
    BY <1>5, <2>1, <2>2
<1>7. \A i \in 1 .. n : file'[i] = Single(sent'[i])
  BY <1>2, <1>3, <1>4, <1>5, <1>6
<1>8. QED
  BY <1>1, <1>2, <1>3, <1>4, <1>5, <1>6, <1>7 DEF TableInv

\* Readers change nothing of the file, and what they take is right.
LEMMA ReadKeepsTable ==
  ASSUME TableInv,
         \/ \E i \in DOMAIN file : GetItem(i)
         \/ \E i \in DOMAIN file : NextRow(i)
         \/ \E tm \in 1 .. N_TM : LoadAllData(tm)
  PROVE  TableInv'
<1>1. /\ kind = "slowsignal" /\ kind' = kind /\ reading /\ reading' = reading
      /\ sent' = sent /\ file' = file /\ flushed' = flushed
  BY DEF GetItem, NextRow, LoadAllData, ReadRow
<1>2. \E h : held' = held \union {h} /\ HolderRight(h, file)
  <2>1. ASSUME NEW i \in DOMAIN file, GetItem(i)
        PROVE  held' = held \union {Item(i)} /\ HolderRight(Item(i), file)
    BY <2>1 DEF GetItem, Item, HolderRight
  <2>2. ASSUME NEW i \in DOMAIN file, NextRow(i)
        PROVE  /\ held' = held \union {[at |-> i, by |-> "iterator", own |-> Shared]}
               /\ HolderRight([at |-> i, by |-> "iterator", own |-> Shared], file)
    BY <2>2 DEF NextRow, HolderRight
  <2>3. ASSUME NEW tm \in 1 .. N_TM, LoadAllData(tm)
        PROVE  held' = held \union {Loaded(tm)} /\ HolderRight(Loaded(tm), file)
    BY <2>3 DEF LoadAllData, Loaded, HolderRight
  <2>4. QED
    BY <2>1, <2>2, <2>3
<1>3. \A h \in held' : HolderRight(h, file)
  BY <1>1, <1>2 DEF TableInv
<1>4. QED
  BY <1>1, <1>3 DEF TableInv

\* Each step keeps the table right.
LEMMA StepTable == TableInv /\ [Next]_vars => TableInv'
<1> SUFFICES ASSUME TableInv, [Next]_vars PROVE TableInv'
  OBVIOUS
<1>1. kind' = kind /\ ([DataNext]_dataVars \/ UNCHANGED dataVars)
  BY StepKind
<1>2. CASE kind # "slowsignal"
  BY <1>1, <1>2 DEF TableInv
<1>3. CASE kind = "slowsignal" /\ UNCHANGED dataVars
  BY <1>3 DEF TableInv, dataVars
<1>4. CASE kind = "slowsignal" /\ DataNext
  <2>1. \/ \E r \in Readouts : WriteReadout(r)
        \/ CloseFile
        \/ Crash
        \/ \E i \in DOMAIN file : GetItem(i)
        \/ \E i \in DOMAIN file : NextRow(i)
        \/ \E tm \in 1 .. N_TM : LoadAllData(tm)
    BY <1>4 DEF DataNext, EmitLog, Publishable, PutObject, GetObjects, WriteFrame, ReadFrame
  <2>2. QED
    BY <2>1, WriteKeepsTable, CloseKeepsTable, CrashKeepsTable, ReadKeepsTable
<1>5. QED
  BY <1>1, <1>2, <1>3, <1>4

\* Of such a table the rows are read back.
LEMMA TableRead == TableInv => RowsReadBack
<1> SUFFICES ASSUME TableInv, kind = "slowsignal" PROVE RowsReadBack
  BY DEF RowsReadBack
<1>1. /\ sent \in Seq(Readouts) /\ file \in Seq(Rows) /\ Len(file) <= Len(sent)
      /\ \A i \in 1 .. Len(file) : file[i] = Single(sent[i])
      /\ flushed > Len(sent) - Buffer
      /\ \A h \in held : HolderRight(h, file)
  BY DEF TableInv
<1>2. DOMAIN file = 1 .. Len(file)
  BY <1>1, LenProperties
<1>3. ASSUME NEW h \in held, h.by = "item"
      PROVE  ValueOf(h) = Mapped(Single(sent[h.at])).data
  <2>1. h.at \in DOMAIN file /\ h.own = Mapped(file[h.at]).data /\ file[h.at] = Single(sent[h.at])
    BY <1>1, <1>2, <1>3 DEF HolderRight
  <2>2. PICK r \in Readouts : file[h.at] = Single(r)
    BY <1>1, <2>1, ElementOfSeq DEF Rows
  <2>3. DOMAIN Mapped(Single(r)).data = 1 .. N_TM
    <3>1. DOMAIN r.data = 1 .. N_TM /\ r = SSReadout(r.iro, r.time, r.cpu, r.data)
      BY DataAssumption DEF IsReadout
    <3>2. DOMAIN Single(r).data = 1 .. N_TM /\ "data" \in DOMAIN Single(r)
      BY <3>1 DEF Single, SSReadout
    <3>3. QED
      BY <3>1, <3>2 DEF Mapped, MapPixels, Single, SSReadout
  <2>4. h.own # Shared
    <3>1. 1 \in DOMAIN h.own
      BY <2>1, <2>2, <2>3, SlowSignalAssumption
    <3>2. QED
      BY <3>1 DEF Shared
  <2>5. QED
    BY <2>1, <2>4 DEF ValueOf
<1>4. ASSUME NEW h \in held, h.by = "load_all_data"
      PROVE  h.own = [i \in DOMAIN file |-> Mapped(Single(sent[i])).data[h.at]]
  <2>1. /\ h.at \in 1 .. N_TM
        /\ h.own = [i \in DOMAIN file |-> [place \in DOMAIN Map |-> file[i].data[h.at][Map[place] + 1]]]
    BY <1>1, <1>4 DEF HolderRight
  <2>2. ASSUME NEW i \in DOMAIN file
        PROVE  Mapped(Single(sent[i])).data[h.at] = [place \in DOMAIN Map |-> file[i].data[h.at][Map[place] + 1]]
    <3>1. file[i] = Single(sent[i])
      BY <1>1, <1>2
    <3>2. PICK r \in Readouts : file[i] = Single(r)
      BY <1>1, ElementOfSeq DEF Rows
    <3>3. DOMAIN r.data = 1 .. N_TM /\ r = SSReadout(r.iro, r.time, r.cpu, r.data)
      BY DataAssumption DEF IsReadout
    <3>4. DOMAIN Single(r).data = 1 .. N_TM
      BY <3>3 DEF Single, SSReadout
    <3>5. Mapped(Single(r)).data = MapPixels(Single(r).data, Map)
      BY <3>3 DEF Mapped, Single, SSReadout
    <3>6. QED
      BY <2>1, <3>1, <3>2, <3>4, <3>5 DEF MapPixels
  <2>3. QED
    BY <2>1, <2>2
<1>5. QED
  BY <1>1, <1>2, <1>3, <1>4 DEF RowsReadBack

\* The table of slow signals has the readouts written, and fewer than Buffer are lost when
\* the writer's process ends; the rows read stay what they were.
THEOREM RowsAreReadBack == Spec => []RowsReadBack
<1>1. Init => TableInv
  <2> SUFFICES ASSUME DataInit PROVE TableInv
    BY DEF Init
  <2>1. Len(sent) = 0 /\ Len(file) = 0 /\ sent \in Seq(Readouts) /\ file \in Seq(Rows)
    BY DEF DataInit
  <2>2. flushed = 0 /\ held = {}
    BY DEF DataInit
  <2>3. QED
    BY <2>1, <2>2, DataAssumption DEF TableInv
<1>2. QED
  BY <1>1, StepTable, TableRead, PTL DEF Spec

-----------------------------------------------------------------------------
(* Frames *)

\* Frame f has the dictionary d, as far as classes can be restored.
Mirrors(f, d) ==
  /\ f = [objects |-> f.objects, serialized |-> f.serialized]
  /\ FrameKeys(f) = DOMAIN d
  /\ \A k \in DOMAIN d :
       d[k].cls \in Restorable =>
         IF k \in DOMAIN f.objects THEN f.objects[k] = d[k] ELSE f.serialized[k] = d[k]

\* So has what is serialized.
Holds(stream, d) ==
  /\ DOMAIN stream = DOMAIN d
  /\ \A k \in DOMAIN d : d[k].cls \in Restorable => stream[k] = d[k]

FrameInv ==
  kind = "frame" =>
    /\ Mirrors(frame, dict)
    /\ file \in Seq(Range(file)) /\ sent \in Seq(Range(sent))
    /\ Len(file) = Len(sent)
    /\ \A i \in 1 .. Len(file) : Holds(file[i].bytes, sent[i])

\* A sequence with one element more, of whatever kind
LEMMA AppendAny ==
  ASSUME NEW s, s \in Seq(Range(s)), NEW x
  PROVE  /\ Append(s, x) \in Seq(Range(Append(s, x)))
         /\ Len(s) \in Nat /\ Len(Append(s, x)) = Len(s) + 1
         /\ \A i \in 1 .. Len(s) : Append(s, x)[i] = s[i]
         /\ Append(s, x)[Len(s) + 1] = x
<1>1. s \in Seq(Range(s) \union {x}) /\ x \in Range(s) \union {x}
  BY SeqMonotonic
<1> DEFINE S == Range(s) \union {x}
<1>2. s \in Seq(S) /\ x \in S
  BY <1>1
<1> HIDE DEF S
<1>3. Append(s, x) \in Seq(S)
  BY <1>2, AppendProperties
<1>4. Append(s, x) \in Seq(Range(Append(s, x)))
  BY <1>3, SeqOfRange
<1>5. QED
  BY <1>2, <1>4, AppendProperties, LenProperties

\* An object is put in the frame and in the dictionary.
LEMMA AddMirrors ==
  ASSUME NEW f, NEW d, Mirrors(f, d), NEW k, NEW o
  PROVE  Mirrors(Add(f, k, o), Add([objects |-> d], k, o).objects)
<1> DEFINE objects == [j \in DOMAIN f.objects \union {k} |-> IF j = k THEN o ELSE f.objects[j]]
           e == [j \in DOMAIN d \union {k} |-> IF j = k THEN o ELSE d[j]]
<1>1. Add([objects |-> d], k, o).objects = e
  BY DEF Add
<1>2. Add(f, k, o) = [objects |-> objects, serialized |-> f.serialized]
  BY DEF Add, Mirrors
<1>3. Mirrors([objects |-> objects, serialized |-> f.serialized], e)
  BY DEF Mirrors, FrameKeys
<1>4. QED
  BY <1>1, <1>2, <1>3

\* Deserializing does not change what a frame has.
LEMMA DeserializeMirrors ==
  ASSUME NEW f, NEW d, Mirrors(f, d), NEW ks
  PROVE  Mirrors(DeserializeAt(f, ks), d)
<1> DEFINE objects ==
      [j \in DOMAIN f.objects \union (ks \intersect Deserializable(f)) |->
         IF j \in DOMAIN f.objects THEN f.objects[j] ELSE Deserialized(f.serialized[j])]
           g == [objects |-> objects, serialized |-> f.serialized]
<1>1. DeserializeAt(f, ks) = g
  BY DEF DeserializeAt, Mirrors
<1>2. FrameKeys(g) = DOMAIN d
  BY DEF Mirrors, FrameKeys, Deserializable, Untouched
<1>3. ASSUME NEW k \in DOMAIN d, d[k].cls \in Restorable
      PROVE  IF k \in DOMAIN g.objects THEN g.objects[k] = d[k] ELSE g.serialized[k] = d[k]
  <2>1. CASE k \in DOMAIN f.objects
    BY <1>3, <2>1 DEF Mirrors
  <2>2. CASE k \notin DOMAIN f.objects
    <3>1. f.serialized[k] = d[k]
      BY <1>3, <2>2 DEF Mirrors
    <3>2. Deserialized(f.serialized[k]) = d[k]
      BY <1>3, <3>1, FrameAssumption DEF Deserialized
    <3>3. QED
      BY <2>2, <3>1, <3>2
  <2>3. QED
    BY <2>1, <2>2
<1>4. QED
  BY <1>1, <1>2, <1>3 DEF Mirrors

\* All of it can be serialized,
LEMMA SerializeHolds ==
  ASSUME NEW f, NEW d, Mirrors(f, d), Serializable(f)
  PROVE  Holds(Serialize(f), d)
<1>1. Mirrors(Items(f), d)
  BY DeserializeMirrors DEF Items
<1>2. DOMAIN Items(f).objects = FrameKeys(f) /\ FrameKeys(f) = DOMAIN d
  BY DEF Serializable, Mirrors
<1>3. QED
  BY <1>1, <1>2 DEF Holds, Mirrors, Serialize

\* and be a frame again.
LEMMA DeserializedMirrors ==
  ASSUME NEW stream, NEW d, Holds(stream, d)
  PROVE  Mirrors(Deserialize(stream), d)
BY DEF Holds, Mirrors, Deserialize, FrameKeys, EmptyDict

\* get gives what can be restored.
LEMMA GetMirrors ==
  ASSUME NEW f, NEW d, Mirrors(f, d), NEW k \in DOMAIN d, d[k].cls \in Restorable
  PROVE  GetFrom(f, k) = <<d[k]>>
<1>1. Mirrors(DeserializeAt(f, {k}), d)
  BY DeserializeMirrors
<1>2. k \in DOMAIN DeserializeAt(f, {k}).objects
  <2>1. k \in DOMAIN f.objects \/ k \in Deserializable(f)
    BY FrameAssumption DEF Mirrors, FrameKeys, Deserializable, Untouched
  <2>2. QED
    BY <2>1 DEF DeserializeAt, Mirrors
<1>3. DeserializeAt(f, {k}).objects[k] = d[k]
  BY <1>1, <1>2 DEF Mirrors
<1>4. QED
  BY <1>2, <1>3 DEF GetFrom

\* Each step keeps frame and files right.
LEMMA StepFrame == FrameInv /\ [Next]_vars => FrameInv'
<1> SUFFICES ASSUME FrameInv, [Next]_vars PROVE FrameInv'
  OBVIOUS
<1>1. kind' = kind /\ ([DataNext]_dataVars \/ UNCHANGED dataVars)
  BY StepKind
<1>2. CASE kind # "frame"
  BY <1>1, <1>2 DEF FrameInv
<1>3. CASE kind = "frame" /\ UNCHANGED dataVars
  BY <1>3 DEF FrameInv, dataVars
<1>4. CASE kind = "frame" /\ DataNext
  <2>1. /\ Mirrors(frame, dict)
        /\ file \in Seq(Range(file)) /\ sent \in Seq(Range(sent))
        /\ Len(file) = Len(sent)
        /\ \A i \in 1 .. Len(file) : Holds(file[i].bytes, sent[i])
    BY <1>4 DEF FrameInv
  <2>2. \/ \E k \in Keys, o \in Objects : PutObject(k, o)
        \/ \E ks \in SUBSET Keys \ {{}} : GetObjects(ks)
        \/ WriteFrame
        \/ \E i \in DOMAIN file : ReadFrame(i)
    BY <1>4 DEF DataNext, EmitLog, Publishable, WriteReadout, CloseFile, Crash, GetItem, NextRow,
                LoadAllData, ReadRow
  <2>3. ASSUME file' = file, sent' = sent, Mirrors(frame', dict')
        PROVE  FrameInv'
    BY <1>1, <2>1, <2>3 DEF FrameInv
  <2>4. ASSUME NEW k \in Keys, NEW o \in Objects, PutObject(k, o)
        PROVE  FrameInv'
    <3>1. Mirrors(frame', dict')
      BY <2>1, <2>4, AddMirrors DEF PutObject
    <3>2. QED
      BY <2>3, <2>4, <3>1 DEF PutObject
  <2>5. ASSUME NEW ks, GetObjects(ks)
        PROVE  FrameInv'
    <3>1. Mirrors(frame', dict')
      BY <2>1, <2>5, DeserializeMirrors DEF GetObjects
    <3>2. QED
      BY <2>3, <2>5, <3>1 DEF GetObjects
  <2>6. ASSUME NEW i \in DOMAIN file, ReadFrame(i)
        PROVE  FrameInv'
    <3>1. i \in 1 .. Len(file)
      BY <2>1, LenProperties
    <3>2. Mirrors(frame', dict')
      BY <2>1, <2>6, <3>1, DeserializedMirrors DEF ReadFrame
    <3>3. QED
      BY <2>3, <2>6, <3>2 DEF ReadFrame
  <2>7. ASSUME WriteFrame
        PROVE  FrameInv'
    <3>1. PICK entry : entry = [as |-> kind, bytes |-> Serialize(frame)]
      OBVIOUS
    <3>2. /\ Serializable(frame) /\ frame' = Items(frame) /\ dict' = dict
          /\ file' = Append(file, entry) /\ sent' = Append(sent, dict)
      BY <2>7, <3>1 DEF WriteFrame
    <3>3. Mirrors(frame', dict')
      BY <2>1, <3>2, DeserializeMirrors DEF Items
    <3>4. Holds(entry.bytes, dict)
      BY <2>1, <3>1, <3>2, SerializeHolds
    <3>5. /\ file' \in Seq(Range(file')) /\ Len(file) \in Nat /\ Len(file') = Len(file) + 1
          /\ \A i \in 1 .. Len(file) : file'[i] = file[i]
          /\ file'[Len(file) + 1] = entry
      BY <2>1, <3>2, AppendAny
    <3>6. /\ sent' \in Seq(Range(sent')) /\ Len(sent') = Len(sent) + 1
          /\ \A i \in 1 .. Len(sent) : sent'[i] = sent[i]
          /\ sent'[Len(sent) + 1] = dict
      BY <2>1, <3>2, AppendAny
    <3>7. ASSUME NEW i \in 1 .. Len(file')
          PROVE  Holds(file'[i].bytes, sent'[i])
      <4>1. CASE i \in 1 .. Len(file)
        BY <2>1, <3>5, <3>6, <4>1
      <4>2. CASE i = Len(file) + 1
        BY <2>1, <3>4, <3>5, <3>6, <4>2
      <4>3. QED
        BY <3>5, <4>1, <4>2
    <3>8. QED
      BY <1>1, <2>1, <3>3, <3>5, <3>6, <3>7 DEF FrameInv
  <2>8. QED
    BY <2>2, <2>4, <2>5, <2>6, <2>7
<1>5. QED
  BY <1>1, <1>2, <1>3, <1>4

\* A frame is the dictionary of what was put in it, whatever was deserialized of it and
\* however often it was written and read.
THEOREM FramesAreReadBack == Spec => []FrameReadsBack
<1>1. Init => FrameInv
  <2> SUFFICES ASSUME DataInit PROVE FrameInv
    BY DEF Init
  <2>1. file = << >> /\ sent = << >> /\ frame = EmptyFrame /\ dict = EmptyDict
    BY DEF DataInit
  <2>2. << >> \in Seq(Range(<< >>)) /\ Len(<< >>) = 0
    BY EmptySeq
  <2>3. Mirrors(EmptyFrame, EmptyDict)
    BY DEF Mirrors, EmptyFrame, EmptyDict, FrameKeys
  <2>4. QED
    BY <2>1, <2>2, <2>3 DEF FrameInv
<1>2. FrameInv => FrameReadsBack
  BY GetMirrors DEF FrameInv, FrameReadsBack, Mirrors
<1>3. QED
  BY <1>1, <1>2, StepFrame, PTL DEF Spec

-----------------------------------------------------------------------------
(* Time stamps and their gaps.  s is a stream, n of it are received or lost, l are lost. *)

TimeStamps ==
  {ts \in [type : Types, time : SUBSET Nat, event_counter : Nat] : \A t, u \in ts.time : t = u}

\* The time stamps of a type before the i-th
Before(s, i, t) == {j \in 1 .. i - 1 : s[j].type = t}

\* A stream of time stamps counts those of each type.
Numbered(s) ==
  /\ s \in Seq(TimeStamps)
  /\ \A i \in 1 .. Len(s) : s[i].event_counter = Cardinality(Before(s, i, s[i].type))

ReceivedOf(s, n, l, t) == {i \in 1 .. n \ l : s[i].type = t}

IsLast(j, R) == j \in R /\ \A k \in R : k <= j

\* Something of the type was lost between j and i.
LostBetween(s, l, t, j, i) == \E k \in l : j < k /\ k < i /\ s[k].type = t

GapsOf(s, n, l, t) ==
  LET R == ReceivedOf(s, n, l, t)
  IN  {i \in R : \E j \in R :
         /\ j < i /\ \A k \in R : k <= j \/ k >= i
         /\ s[j].event_counter # 0
         /\ LostBetween(s, l, t, j, i)}

\* Both are sets of finitely many.
LEMMA FiniteSets ==
  ASSUME NEW s, NEW n \in Nat, NEW l, NEW t
  PROVE  /\ IsFiniteSet(ReceivedOf(s, n, l, t)) /\ IsFiniteSet(GapsOf(s, n, l, t))
         /\ Cardinality(ReceivedOf(s, n, l, t)) \in Nat /\ Cardinality(GapsOf(s, n, l, t)) \in Nat
<1>1. IsFiniteSet(1 .. n)
  BY FS_Interval
<1>2. ReceivedOf(s, n, l, t) \in SUBSET (1 .. n) /\ GapsOf(s, n, l, t) \in SUBSET (1 .. n)
  BY DEF ReceivedOf, GapsOf
<1>3. IsFiniteSet(ReceivedOf(s, n, l, t)) /\ IsFiniteSet(GapsOf(s, n, l, t))
  BY <1>1, <1>2, FS_Subset
<1>4. QED
  BY <1>3, FS_CardinalityType

\* A stream that is longer is the same until there.
SameUntil(z, s, n, l) == Agree(z, s, n) /\ l \subseteq 1 .. n

\* What was received, and its gaps, depend on no time stamp to come.
LEMMA AgreeingStreams ==
  ASSUME NEW s, NEW z, NEW n \in Nat, NEW l, SameUntil(z, s, n, l), NEW t
  PROVE  /\ ReceivedOf(z, n, l, t) = ReceivedOf(s, n, l, t)
         /\ GapsOf(z, n, l, t) = GapsOf(s, n, l, t)
<1>1. l \subseteq 1 .. n /\ \A i \in 1 .. n : z[i] = s[i]
  BY DEF SameUntil, Agree
<1>2. ReceivedOf(z, n, l, t) = ReceivedOf(s, n, l, t)
  BY <1>1 DEF ReceivedOf
<1> DEFINE R == ReceivedOf(s, n, l, t)
<1>3. \A j \in R : z[j] = s[j]
  BY <1>1 DEF ReceivedOf
<1>4. \A j, i \in R : LostBetween(z, l, t, j, i) <=> LostBetween(s, l, t, j, i)
  BY <1>1 DEF LostBetween
<1>5. QED
  BY <1>2, <1>3, <1>4 DEF GapsOf

\* What is lost is not received, and is a gap when another is.
LEMMA OneLost ==
  ASSUME NEW s, NEW n \in Nat, NEW l, l \subseteq 1 .. n, NEW t
  PROVE  /\ ReceivedOf(s, n + 1, l \union {n + 1}, t) = ReceivedOf(s, n, l, t)
         /\ GapsOf(s, n + 1, l \union {n + 1}, t) = GapsOf(s, n, l, t)
<1> DEFINE R == ReceivedOf(s, n, l, t)
<1>1. ReceivedOf(s, n + 1, l \union {n + 1}, t) = R
  BY DEF ReceivedOf
<1>2. \A i \in R : i \in 1 .. n
  BY DEF ReceivedOf
<1>3. \A j, i \in R : LostBetween(s, l \union {n + 1}, t, j, i) <=> LostBetween(s, l, t, j, i)
  BY <1>2 DEF LostBetween
<1>4. QED
  BY <1>1, <1>3 DEF GapsOf

\* One time stamp more is received of its own type,
LEMMA OneReceived ==
  ASSUME NEW s, NEW n \in Nat, NEW l, l \subseteq 1 .. n, NEW t
  PROVE  ReceivedOf(s, n + 1, l, t) =
           IF s[n + 1].type = t THEN ReceivedOf(s, n, l, t) \union {n + 1} ELSE ReceivedOf(s, n, l, t)
<1>1. n + 1 \in 1 .. n + 1 \ l
  OBVIOUS
<1>2. 1 .. n + 1 \ l = (1 .. n \ l) \union {n + 1}
  OBVIOUS
<1>3. QED
  BY <1>1, <1>2 DEF ReceivedOf

\* and none of another.
LEMMA OtherReceived ==
  ASSUME NEW s, NEW n \in Nat, NEW l, l \subseteq 1 .. n, NEW t, s[n + 1].type # t
  PROVE  /\ ReceivedOf(s, n + 1, l, t) = ReceivedOf(s, n, l, t)
         /\ GapsOf(s, n + 1, l, t) = GapsOf(s, n, l, t)
<1>1. 1 .. n + 1 \ l = (1 .. n \ l) \union {n + 1}
  OBVIOUS
<1>2. ReceivedOf(s, n + 1, l, t) = ReceivedOf(s, n, l, t)
  BY <1>1 DEF ReceivedOf
<1>3. QED
  BY <1>2 DEF GapsOf

\* One is the last of the numbers up to n, if there are any.
LEMMA LastOne ==
  ASSUME NEW n \in Nat, NEW R, R \subseteq 1 .. n, R # {}
  PROVE  \E j \in R : IsLast(j, R)
<1> DEFINE T == {n - k : k \in R}
<1>1. T \subseteq Nat /\ T # {}
  <2>1. \A k \in R : n - k \in Nat
    OBVIOUS
  <2>2. QED
    BY <2>1
<1>2. PICK d \in T : \A e \in T : d <= e
  BY <1>1, LeastNumber, Zenon
<1>3. PICK j \in R : d = n - j
  BY <1>2
<1>4. ASSUME NEW k \in R PROVE k <= j
  <2>1. n - j <= n - k /\ j \in 1 .. n /\ k \in 1 .. n
    BY <1>2, <1>3
  <2>2. QED
    BY <2>1
<1>5. QED
  BY <1>4 DEF IsLast

\* After the last time stamp received the counter goes on by one if, and only if, none of
\* the type is lost.
LEMMA CounterGoesOn ==
  ASSUME NEW s, Numbered(s), NEW n \in Nat, n + 1 <= Len(s), NEW l, l \subseteq 1 .. n,
         NEW j, IsLast(j, ReceivedOf(s, n, l, s[n + 1].type))
  PROVE  s[n + 1].event_counter # s[j].event_counter + 1
           <=> LostBetween(s, l, s[n + 1].type, j, n + 1)
<1> DEFINE t == s[n + 1].type
           R == ReceivedOf(s, n, l, t)
           A == Before(s, j, t)
           B == Before(s, n + 1, t)
<1>1. Len(s) \in Nat /\ j \in 1 .. n /\ j \in 1 .. Len(s) /\ n + 1 \in 1 .. Len(s) /\ s[j].type = t
  BY LenProperties DEF Numbered, IsLast, ReceivedOf
<1>2. s[j].event_counter = Cardinality(A) /\ s[n + 1].event_counter = Cardinality(B)
  BY <1>1 DEF Numbered
<1>3. IsFiniteSet(A) /\ IsFiniteSet(B)
  <2>1. A \in SUBSET (1 .. n) /\ B \in SUBSET (1 .. n)
    BY <1>1 DEF Before
  <2>2. IsFiniteSet(1 .. n)
    BY FS_Interval
  <2>3. QED
    BY <2>1, <2>2, FS_Subset
<1>4. j \notin A /\ A \union {j} \subseteq B
  BY <1>1 DEF Before
<1>5. IsFiniteSet(A \union {j}) /\ Cardinality(A \union {j}) = Cardinality(A) + 1
  BY <1>3, <1>4, FS_AddElement
<1>6. A \union {j} # B => Cardinality(A \union {j}) # Cardinality(B)
  BY <1>3, <1>4, FS_Subset
<1>7. \A k \in B : k \in 1 .. n /\ s[k].type = t /\ (k \in A \/ k = j \/ k > j)
  BY <1>1 DEF Before
<1>8. \A k \in R : k <= j
  BY DEF IsLast
<1>9. ASSUME ~ LostBetween(s, l, t, j, n + 1), NEW k \in B, k \notin A, k # j PROVE FALSE
  <2>1. k \in 1 .. n /\ s[k].type = t /\ k > j /\ k < n + 1
    BY <1>7, <1>9
  <2>2. k \notin l
    BY <1>9, <2>1 DEF LostBetween
  <2>3. k \in R
    BY <2>1, <2>2 DEF ReceivedOf
  <2>4. QED
    BY <1>1, <1>8, <2>1, <2>3
<1>10. ASSUME LostBetween(s, l, t, j, n + 1) PROVE A \union {j} # B
  <2>1. PICK k \in l : j < k /\ k < n + 1 /\ s[k].type = t
    BY <1>10 DEF LostBetween
  <2>2. k \in 1 .. n /\ k > j
    BY <2>1
  <2>3. k \in B /\ k \notin A /\ k # j
    BY <1>1, <2>1, <2>2 DEF Before
  <2>4. QED
    BY <2>3
<1>11. LostBetween(s, l, t, j, n + 1) <=> A \union {j} # B
  BY <1>4, <1>9, <1>10
<1>12. QED
  BY <1>2, <1>5, <1>6, <1>11

\* What timestampdump keeps of the time stamps of a type: the last counter, and the number
\* of the gaps
LastCounter(c, s, n, l, t) ==
  LET R == ReceivedOf(s, n, l, t)
  IN  /\ R = {} => c = 0
      /\ \A j \in R : IsLast(j, R) => c = s[j].event_counter

\* From the last counter it knows the gap.
LEMMA NewGap ==
  ASSUME NEW s, Numbered(s), NEW n \in Nat, n + 1 <= Len(s), NEW l, l \subseteq 1 .. n,
         NEW c, LastCounter(c, s, n, l, s[n + 1].type)
  PROVE  GapsOf(s, n + 1, l, s[n + 1].type) =
           IF c # 0 /\ c + 1 # s[n + 1].event_counter
           THEN GapsOf(s, n, l, s[n + 1].type) \union {n + 1}
           ELSE GapsOf(s, n, l, s[n + 1].type)
<1> DEFINE t == s[n + 1].type
           R == ReceivedOf(s, n, l, t)
           Q == ReceivedOf(s, n + 1, l, t)
           Behind(j, i) == /\ j < i
                           /\ s[j].event_counter # 0
                           /\ LostBetween(s, l, t, j, i)
<1>1. Q = R \union {n + 1}
  BY OneReceived
<1>2. R \subseteq 1 .. n
  BY DEF ReceivedOf
<1>3. GapsOf(s, n, l, t) = {i \in R : \E j \in R : Behind(j, i) /\ \A k \in R : k <= j \/ k >= i}
  BY DEF GapsOf
<1>4. GapsOf(s, n + 1, l, t) = {i \in Q : \E j \in Q : Behind(j, i) /\ \A k \in Q : k <= j \/ k >= i}
  BY DEF GapsOf
<1>5. n + 1 \in GapsOf(s, n + 1, l, t) <=> \E j \in R : Behind(j, n + 1) /\ IsLast(j, R)
  <2> HIDE DEF R, Q
  <2>1. \A k \in R : k < n + 1
    BY <1>2
  <2>2. ~ Behind(n + 1, n + 1)
    OBVIOUS
  <2> HIDE DEF Behind
  <2>3. \A k \in R : ~ k >= n + 1
    BY <1>2
  <2>4. \A j \in R : (\A k \in Q : k <= j \/ k >= n + 1) <=> IsLast(j, R)
    BY <1>1, <2>3 DEF IsLast
  <2>5. QED
    BY <1>1, <1>4, <2>2, <2>4
<1>6. \A i \in R : i \in GapsOf(s, n + 1, l, t) <=> i \in GapsOf(s, n, l, t)
  <2>1. ASSUME NEW i \in R, NEW j \in Q, Behind(j, i) PROVE j \in R
    BY <1>1, <1>2, <2>1
  <2>2. ASSUME NEW i \in R, NEW j \in R
        PROVE  (\A k \in Q : k <= j \/ k >= i) <=> (\A k \in R : k <= j \/ k >= i)
    <3>1. n + 1 >= i
      BY <1>2
    <3> HIDE DEF R, Q
    <3>2. QED
      BY <1>1, <3>1
  <2> HIDE DEF R, Q, Behind
  <2>3. QED
    BY <1>1, <1>3, <1>4, <2>1, <2>2
<1>7. (\E j \in R : Behind(j, n + 1) /\ IsLast(j, R)) <=> (c # 0 /\ c + 1 # s[n + 1].event_counter)
  <2>1. CASE R = {}
    BY <2>1 DEF LastCounter
  <2>2. CASE R # {}
    <3>1. PICK j \in R : IsLast(j, R)
      BY <1>2, <2>2, LastOne
    <3>2. \A k \in R : IsLast(k, R) => k = j
      BY <1>2, <3>1 DEF IsLast
    <3>3. c = s[j].event_counter
      BY <3>1 DEF LastCounter
    <3>4. s[n + 1].event_counter # s[j].event_counter + 1 <=> LostBetween(s, l, t, j, n + 1)
      BY <3>1, CounterGoesOn
    <3>5. j < n + 1
      BY <1>2
    <3>6. Behind(j, n + 1) <=> (c # 0 /\ c + 1 # s[n + 1].event_counter)
      BY <3>3, <3>4, <3>5
    <3> HIDE DEF R, Behind
    <3>7. QED
      BY <3>1, <3>2, <3>6
  <2>3. QED
    BY <2>1, <2>2
<1> HIDE DEF Q, Behind
<1>8. \A i \in GapsOf(s, n + 1, l, t) : i \in R \/ i = n + 1
  BY <1>1, <1>4
<1>9. \A i \in GapsOf(s, n, l, t) : i \in R /\ i # n + 1
  BY <1>2, <1>3
<1> HIDE DEF R, t
<1>10. CASE c # 0 /\ c + 1 # s[n + 1].event_counter
  <2>1. n + 1 \in GapsOf(s, n + 1, l, t)
    BY <1>5, <1>7, <1>10
  <2>2. GapsOf(s, n + 1, l, t) = GapsOf(s, n, l, t) \union {n + 1}
    BY <1>6, <1>8, <1>9, <2>1
  <2>3. QED
    BY <1>10, <2>2 DEF t
<1>11. CASE ~ (c # 0 /\ c + 1 # s[n + 1].event_counter)
  <2>1. n + 1 \notin GapsOf(s, n + 1, l, t)
    BY <1>5, <1>7, <1>11
  <2>2. GapsOf(s, n + 1, l, t) = GapsOf(s, n, l, t)
    BY <1>6, <1>8, <1>9, <2>1
  <2>3. QED
    BY <1>11, <2>2 DEF t
<1>12. QED
  BY <1>10, <1>11

-----------------------------------------------------------------------------
(* What the displays keep *)

Rates == [trig : Nat, from : Nat, to : Nat]

Stats ==
  [fTrigger : Nat, fLast_ts : TimeStamps, fCurrent_ts : TimeStamps,
   counter_missed : Nat, counter_last : Nat, ts_smaller : Nat, rates : Seq(Rates)]

\* The rates are over times that follow each other, up to the last time kept.
Chained(rates, last_ts) ==
  /\ \A i \in 1 .. Len(rates) :
       rates[i].from # rates[i].to /\ (i > 1 => rates[i - 1].to = rates[i].from)
  /\ rates # <<>> => isValidTS(last_ts) /\ rates[Len(rates)].to = PicoSeconds(last_ts)

Rising(rates) == \A i \in 1 .. Len(rates) : rates[i].from < rates[i].to

\* A message without a time has the time zero.
LEMMA PicoSecondsIsNat ==
  ASSUME NEW ts \in TimeStamps
  PROVE  /\ PicoSeconds(ts) \in Nat
         /\ PicoSeconds(ts) # 0 => isValidTS(ts)
         /\ \A t \in ts.time : PicoSeconds(ts) = t
BY DEF TimeStamps, PicoSeconds, isValidTS

\* A rate more counts its triggers.
LEMMA RateSumAppend ==
  ASSUME NEW rates \in Seq(Rates), NEW r \in Rates
  PROVE  /\ RateSum(rates) \in Nat
         /\ RateSum(Append(rates, r)) = RateSum(rates) + r.trig
<1> DEFINE n == Len(rates)
           more == Append(rates, r)
           w == [i \in 1 .. Len(rates) |-> rates[i].trig]
           v == [i \in 1 .. Len(more) |-> more[i].trig]
           h == CHOOSE g : g = [i \in 1 .. Len(rates) + 1 |-> IF i = 1 THEN 0 ELSE g[i - 1] + w[i - 1]]
           f == CHOOSE g : g = [i \in 1 .. Len(more) + 1 |-> IF i = 1 THEN 0 ELSE g[i - 1] + v[i - 1]]
<1>1. RateSum(rates) = h[n + 1] /\ RateSum(more) = f[Len(more) + 1]
  BY DEF RateSum
<1>2. /\ n \in Nat /\ Len(more) = n + 1
      /\ \A i \in 1 .. n : more[i] = rates[i] /\ rates[i] \in Rates
      /\ more[n + 1] = r
  BY AppendProperties, LenProperties, ElementOfSeq
<1>3. w \in [1 .. n -> Nat] /\ v \in [1 .. n + 1 -> Nat] /\ v[n + 1] = r.trig
      /\ Agree(v, w, n)
  <2>1. \A i \in 1 .. n : more[i].trig \in Nat /\ rates[i].trig \in Nat
    BY <1>2 DEF Rates
  <2>2. \A i \in 1 .. n + 1 : i \in 1 .. n \/ i = n + 1
    BY <1>2
  <2>3. r.trig \in Nat
    BY DEF Rates
  <2>4. \A i \in 1 .. n + 1 : more[i].trig \in Nat
    BY <1>2, <2>1, <2>2, <2>3
  <2>5. QED
    BY <1>2, <2>1, <2>4 DEF Agree
<1>4. h = CHOOSE g : g = [i \in 1 .. n + 1 |-> IF i = 1 THEN 0 ELSE g[i - 1] + w[i - 1]]
  OBVIOUS
<1>5. f = CHOOSE g : g = [i \in 1 .. n + 1 + 1 |-> IF i = 1 THEN 0 ELSE g[i - 1] + v[i - 1]]
  BY <1>2
<1> HIDE DEF h, f, w, v, n
<1>6. Sums(h, n, 0, w)
  BY <1>2, <1>3, <1>4, RunningSum
<1>7. Sums(f, n + 1, 0, v)
  <2>1. n + 1 \in Nat
    BY <1>2
  <2>2. QED
    BY <2>1, <1>3, <1>5, RunningSum
<1>8. f[n + 1] = h[n + 1] /\ h[n + 1] \in Nat
  <2>1. n + 1 \in Nat /\ n <= n + 1 /\ n + 1 \in 1 .. n + 1 /\ 0 \in Nat
    BY <1>2
  <2>2. Agree(f, h, n + 1)
    BY <1>2, <1>3, <1>6, <1>7, <2>1, SumsAgree, Zenon
  <2>3. QED
    BY <1>6, <2>1, <2>2 DEF Sums, Agree
<1>9. f[n + 2] = f[n + 1] + r.trig
  <2>1. n + 1 \in 1 .. n + 1 /\ n + 1 + 1 = n + 2
    BY <1>2
  <2>2. QED
    BY <1>3, <1>7, <2>1 DEF Sums
<1>10. Len(more) + 1 = n + 2
  BY <1>2
<1>11. QED
  BY <1>1, <1>8, <1>9, <1>10

\* No rates count no triggers.
LEMMA NoRates == RateSum(<<>>) = 0
<1> DEFINE w == [i \in 1 .. Len(<<>>) |-> <<>>[i].trig]
           h == CHOOSE g : g = [i \in 1 .. Len(<<>>) + 1 |-> IF i = 1 THEN 0 ELSE g[i - 1] + w[i - 1]]
<1>1. RateSum(<<>>) = h[Len(<<>>) + 1]
  BY DEF RateSum
<1>2. Len(<<>>) = 0 /\ w \in [1 .. 0 -> Nat]
  OBVIOUS
<1>3. h = CHOOSE g : g = [i \in 1 .. 0 + 1 |-> IF i = 1 THEN 0 ELSE g[i - 1] + w[i - 1]]
  BY <1>2
<1> HIDE DEF h, w
<1>4. Sums(h, 0, 0, w)
  BY <1>2, <1>3, RunningSum
<1>5. QED
  BY <1>1, <1>2, <1>4 DEF Sums

\* A rate is over a time that begins where the last one ended.
LEMMA OneRate ==
  ASSUME NEW rates \in Seq(Rates), NEW last \in TimeStamps, NEW current \in TimeStamps,
         Chained(rates, last), NEW r \in Rates,
         r.from = PicoSeconds(last), r.to = PicoSeconds(current), r.from # r.to,
         isValidTS(current)
  PROVE  /\ Append(rates, r) \in Seq(Rates)
         /\ Chained(Append(rates, r), current)
         /\ Rising(rates) /\ r.from < r.to => Rising(Append(rates, r))
<1> DEFINE more == Append(rates, r)
<1>1. PICK n \in Nat : n = Len(rates)
  BY LenProperties
<1>2. /\ more \in Seq(Rates) /\ Len(more) = n + 1
      /\ \A i \in 1 .. n : more[i] = rates[i]
      /\ more[n + 1] = r
  BY <1>1, AppendProperties
<1> HIDE DEF more
<1>3. ASSUME NEW i \in 1 .. n + 1
      PROVE  more[i].from # more[i].to /\ (i > 1 => more[i - 1].to = more[i].from)
  <2>1. CASE i \in 1 .. n
    <3>1. i > 1 => i - 1 \in 1 .. n
      OBVIOUS
    <3>2. QED
      BY <1>1, <1>2, <2>1, <3>1 DEF Chained
  <2>2. CASE i = n + 1
    <3>1. i > 1 => n \in 1 .. n /\ i - 1 = n
      BY <2>2
    <3>2. i > 1 => rates # <<>>
      BY <1>1, <2>2
    <3>3. i > 1 => rates[n].to = PicoSeconds(last)
      BY <1>1, <3>2 DEF Chained
    <3>4. more[i] = r
      BY <1>2, <2>2
    <3>5. QED
      BY <1>2, <3>1, <3>3, <3>4
  <2>3. QED
    BY <2>1, <2>2
<1>4. Chained(more, current)
  BY <1>2, <1>3 DEF Chained
<1>5. ASSUME Rising(rates), r.from < r.to, NEW i \in 1 .. n + 1
      PROVE  more[i].from < more[i].to
  <2>1. CASE i \in 1 .. n
    BY <1>1, <1>2, <1>5, <2>1 DEF Rising
  <2>2. CASE i = n + 1
    BY <1>2, <1>5, <2>2
  <2>3. QED
    BY <2>1, <2>2
<1>6. Rising(rates) /\ r.from < r.to => Rising(more)
  BY <1>2, <1>5 DEF Rising
<1>7. QED
  BY <1>2, <1>4, <1>6 DEF more

\* The rates of the c time stamps that were received
StampRight(st, c) ==
  /\ st \in Stats
  /\ Chained(st.rates, st.fLast_ts) /\ Rising(st.rates)
  /\ RateSum(st.rates) + st.fTrigger = c

\* The fresh statistics are right of a stream that has not begun.
LEMMA FreshIsRight == FreshStats \in Stats /\ StampRight(FreshStats, 0)
<1>1. NoStamp \in TimeStamps
  BY DEF NoStamp, TimeStamps, Types
<1>2. FreshStats \in Stats /\ FreshStats.rates = <<>> /\ FreshStats.fTrigger = 0
  BY <1>1 DEF FreshStats, Stats
<1>3. RateSum(FreshStats.rates) = 0
  BY <1>2, NoRates
<1>4. Chained(<<>>, FreshStats.fLast_ts) /\ Rising(<<>>)
  BY DEF Chained, Rising
<1>5. QED
  BY <1>2, <1>3, <1>4 DEF StampRight

\* A time stamp more is counted.
LEMMA AddKeepsRight ==
  ASSUME NEW st, NEW c \in Nat, StampRight(st, c), NEW ts \in TimeStamps
  PROVE  StampRight(add_timestamp(st, ts), c + 1)
<1> DEFINE new == add_timestamp(st, ts)
<1>1. /\ st.fTrigger \in Nat /\ st.rates \in Seq(Rates) /\ st.fLast_ts \in TimeStamps
      /\ Chained(st.rates, st.fLast_ts) /\ Rising(st.rates)
      /\ RateSum(st.rates) + st.fTrigger = c
  BY DEF StampRight, Stats
<1>2. /\ new.rates = st.rates /\ new.fTrigger = st.fTrigger + 1
      /\ new.fLast_ts = IF isValidTS(st.fLast_ts) THEN st.fLast_ts ELSE ts
  BY DEF add_timestamp, StampRight, Stats
<1>3. new \in Stats
  <2>1. PICK n \in Nat, last \in TimeStamps :
          n = st.fTrigger + 1 /\ last = IF isValidTS(st.fLast_ts) THEN st.fLast_ts ELSE ts
    BY <1>1
  <2>2. new = [st EXCEPT !.fTrigger = n, !.fCurrent_ts = ts, !.fLast_ts = last]
    BY <2>1 DEF add_timestamp
  <2>3. QED
    BY <2>2 DEF StampRight, Stats
<1> HIDE DEF new
<1>4. Chained(new.rates, new.fLast_ts)
  BY <1>1, <1>2 DEF Chained
<1>5. RateSum(new.rates) + new.fTrigger = c + 1
  <2>1. PICK a \in Nat, b \in Nat : a = RateSum(st.rates) /\ b = st.fTrigger
    <3>1. [trig |-> 0, from |-> 0, to |-> 0] \in Rates
      BY DEF Rates
    <3>2. RateSum(st.rates) \in Nat
      BY <1>1, <3>1, RateSumAppend
    <3>3. QED
      BY <1>1, <3>2
  <2>2. a + b = c
    BY <1>1, <2>1
  <2>3. QED
    BY <1>2, <2>1, <2>2
<1>6. QED
  BY <1>1, <1>2, <1>3, <1>4, <1>5 DEF StampRight, new

\* A frequency counts what was waiting for it.
LEMMA FrequencyKeepsRight ==
  ASSUME NEW st, NEW c \in Nat, StampRight(st, c)
  PROVE  StampRight(Frequency(st), c)
<1>1. CASE DeltaT(st) <= 0
  BY <1>1 DEF Frequency
<1>2. CASE ~ DeltaT(st) <= 0
  <2> DEFINE new == Frequency(st)
  <2>1. /\ st.fTrigger \in Nat /\ st.rates \in Seq(Rates)
        /\ st.fLast_ts \in TimeStamps /\ st.fCurrent_ts \in TimeStamps
        /\ Chained(st.rates, st.fLast_ts) /\ Rising(st.rates)
        /\ RateSum(st.rates) + st.fTrigger = c
    BY DEF StampRight, Stats
  <2>2. PICK a \in Nat, b \in Nat : a = PicoSeconds(st.fLast_ts) /\ b = PicoSeconds(st.fCurrent_ts)
    BY <2>1, PicoSecondsIsNat
  <2>3. a < b /\ b # 0
    BY <1>2, <2>2 DEF DeltaT
  <2>4. isValidTS(st.fCurrent_ts)
    BY <2>1, <2>2, <2>3, PicoSecondsIsNat
  <2>5. PICK r \in Rates : r = Rate(st)
    BY <2>1, <2>2 DEF Rate, Rates
  <2>6. r.from = a /\ r.to = b /\ r.trig = st.fTrigger
    BY <2>2, <2>5 DEF Rate
  <2>7. /\ new.rates = Append(st.rates, r) /\ new.fTrigger = 0
        /\ new.fLast_ts = st.fCurrent_ts
    BY <1>2, <2>5 DEF Frequency, StampRight, Stats
  <2>8. /\ Append(st.rates, r) \in Seq(Rates)
        /\ Chained(Append(st.rates, r), st.fCurrent_ts)
        /\ Rising(Append(st.rates, r))
    <3>1. r.from # r.to /\ r.from < r.to
      BY <2>3, <2>6
    <3>2. QED
      BY <2>1, <2>2, <2>4, <2>6, <3>1, OneRate
  <2>9. new \in Stats
    BY <1>2, <2>5, <2>8 DEF Frequency, StampRight, Stats
  <2>10. RateSum(Append(st.rates, r)) = RateSum(st.rates) + r.trig /\ RateSum(st.rates) \in Nat
    BY <2>1, RateSumAppend
  <2> HIDE DEF new
  <2>11. RateSum(new.rates) + new.fTrigger = c
    BY <2>1, <2>6, <2>7, <2>10
  <2>12. QED
    BY <2>7, <2>8, <2>9, <2>11 DEF StampRight, new
<1>3. QED
  BY <1>1, <1>2

\* The other counters are no matter of the rates.
LEMMA CountKeepsRight ==
  ASSUME NEW st, NEW c, StampRight(st, c), NEW ts \in TimeStamps
  PROVE  StampRight(CountSmaller(CountMissed(st, ts)), c)
<1> DEFINE new == CountSmaller(CountMissed(st, ts))
<1>1. st \in Stats /\ ts.event_counter \in Nat
  BY DEF StampRight, TimeStamps
<1>2. CountMissed(st, ts) \in Stats
  <2>1. PICK missed \in Nat :
          missed = IF st.counter_last # 0 /\ st.counter_last + 1 # ts.event_counter
                   THEN st.counter_missed + 1 ELSE st.counter_missed
    BY <1>1 DEF Stats
  <2>2. CountMissed(st, ts) = [st EXCEPT !.counter_missed = missed, !.counter_last = ts.event_counter]
    BY <2>1 DEF CountMissed
  <2>3. QED
    BY <1>1, <2>2 DEF Stats
<1>3. /\ CountMissed(st, ts).rates = st.rates /\ CountMissed(st, ts).fTrigger = st.fTrigger
      /\ CountMissed(st, ts).fLast_ts = st.fLast_ts
  BY <1>1 DEF CountMissed, Stats
<1>4. \A x \in Stats :
        /\ CountSmaller(x) \in Stats /\ CountSmaller(x).rates = x.rates
        /\ CountSmaller(x).fTrigger = x.fTrigger /\ CountSmaller(x).fLast_ts = x.fLast_ts
  BY DEF CountSmaller, Stats
<1>5. QED
  BY <1>2, <1>3, <1>4 DEF StampRight

\* What timestampdump keeps of the time stamps of a type, and one round of it
DumpRight(st, s, n, l, t) ==
  /\ StampRight(st, Cardinality(ReceivedOf(s, n, l, t)))
  /\ st.counter_missed = Cardinality(GapsOf(s, n, l, t))
  /\ LastCounter(st.counter_last, s, n, l, t)

DumpRound(st, ts) ==
  LET counted == CountSmaller(CountMissed(add_timestamp(st, ts), ts))
  IN  IF DeltaT(counted) > 0 THEN Frequency(counted) ELSE counted

\* What a round of timestampdump does to its counters of gaps
LEMMA DumpCounts ==
  ASSUME NEW st \in Stats, NEW ts \in TimeStamps
  PROVE  /\ DumpRound(st, ts).counter_missed =
              IF st.counter_last # 0 /\ st.counter_last + 1 # ts.event_counter
              THEN st.counter_missed + 1 ELSE st.counter_missed
         /\ DumpRound(st, ts).counter_last = ts.event_counter
<1> DEFINE Kept(x, y) == x.counter_missed = y.counter_missed /\ x.counter_last = y.counter_last
           a == add_timestamp(st, ts)
           b == CountMissed(a, ts)
           c == CountSmaller(b)
<1>1. Kept(a, st) /\ "counter_missed" \in DOMAIN a /\ "counter_last" \in DOMAIN a
  BY DEF add_timestamp, Stats
<1>2. /\ DOMAIN b = DOMAIN a
      /\ b.counter_missed = IF a.counter_last # 0 /\ a.counter_last + 1 # ts.event_counter
                            THEN a.counter_missed + 1 ELSE a.counter_missed
      /\ b.counter_last = ts.event_counter
  <2> HIDE DEF a
  <2>1. QED
    BY <1>1 DEF CountMissed
<1>3. Kept(c, b) /\ DOMAIN c = DOMAIN b
  BY DEF CountSmaller
<1>4. Kept(Frequency(c), c)
  BY DEF Frequency
<1>5. Kept(DumpRound(st, ts), c)
  BY <1>4 DEF DumpRound
<1> HIDE DEF a, b, c
<1>6. QED
  BY <1>1, <1>2, <1>3, <1>5

\* A round keeps all of it.
LEMMA DumpTakesOne ==
  ASSUME NEW s, Numbered(s), NEW n \in Nat, n + 1 <= Len(s), NEW l, l \subseteq 1 .. n,
         NEW st, DumpRight(st, s, n, l, s[n + 1].type)
  PROVE  DumpRight(DumpRound(st, s[n + 1]), s, n + 1, l, s[n + 1].type)
<1> DEFINE t == s[n + 1].type
           R == ReceivedOf(s, n, l, t)
           G == GapsOf(s, n, l, t)
           new == DumpRound(st, s[n + 1])
<1>1. /\ StampRight(st, Cardinality(R)) /\ st.counter_missed = Cardinality(G)
      /\ LastCounter(st.counter_last, s, n, l, t) /\ st \in Stats
  BY DEF DumpRight, StampRight
<1>2. s[n + 1] \in TimeStamps
  <2>1. n + 1 \in 1 .. Len(s) /\ s \in Seq(TimeStamps)
    BY LenProperties DEF Numbered
  <2>2. QED
    BY <2>1, ElementOfSeq
<1>3. /\ IsFiniteSet(R) /\ IsFiniteSet(G) /\ Cardinality(R) \in Nat /\ Cardinality(G) \in Nat
  BY FiniteSets
<1>4. R \subseteq 1 .. n /\ G \subseteq 1 .. n
  BY DEF ReceivedOf, GapsOf
<1>5. n + 1 \notin R /\ n + 1 \notin G
  BY <1>4
<1>6. ReceivedOf(s, n + 1, l, t) = R \union {n + 1}
  BY OneReceived
<1>7. Cardinality(R \union {n + 1}) = Cardinality(R) + 1 /\ Cardinality(G \union {n + 1}) = Cardinality(G) + 1
  BY <1>3, <1>5, FS_AddElement
<1>8. StampRight(new, Cardinality(R) + 1)
  <2> DEFINE counted == CountSmaller(CountMissed(add_timestamp(st, s[n + 1]), s[n + 1]))
             c == Cardinality(R) + 1
  <2>1. c \in Nat
    BY <1>3
  <2>2. StampRight(add_timestamp(st, s[n + 1]), c)
    BY <1>1, <1>2, <1>3, AddKeepsRight
  <2> HIDE DEF c
  <2>3. StampRight(counted, c)
    BY <1>2, <2>1, <2>2, CountKeepsRight
  <2>4. StampRight(Frequency(counted), c)
    BY <2>1, <2>3, FrequencyKeepsRight
  <2>5. new = IF DeltaT(counted) > 0 THEN Frequency(counted) ELSE counted
    BY DEF DumpRound
  <2> HIDE DEF counted, new
  <2>6. StampRight(new, c)
    BY <2>3, <2>4, <2>5
  <2>7. QED
    BY <2>6 DEF c
<1>9. new.counter_missed = Cardinality(GapsOf(s, n + 1, l, t))
  <2>1. GapsOf(s, n + 1, l, t) = IF st.counter_last # 0 /\ st.counter_last + 1 # s[n + 1].event_counter
                                THEN G \union {n + 1} ELSE G
    BY <1>1, NewGap
  <2>2. new.counter_missed = IF st.counter_last # 0 /\ st.counter_last + 1 # s[n + 1].event_counter
                            THEN st.counter_missed + 1 ELSE st.counter_missed
    BY <1>1, <1>2, DumpCounts
  <2> HIDE DEF t, R, G, new
  <2>3. QED
    BY <1>1, <1>7, <2>1, <2>2
<1>10. LastCounter(new.counter_last, s, n + 1, l, t)
  <2>1. new.counter_last = s[n + 1].event_counter
    BY <1>1, <1>2, DumpCounts
  <2>2. ASSUME NEW j \in R \union {n + 1}, IsLast(j, R \union {n + 1})
        PROVE  j = n + 1
    <3>1. n + 1 <= j
      BY <2>2 DEF IsLast
    <3>2. j \in 1 .. n \/ j = n + 1
      BY <1>4
    <3>3. QED
      BY <3>1, <3>2
  <2> HIDE DEF t, R, new
  <2>3. QED
    BY <1>6, <2>1, <2>2 DEF LastCounter
<1>11. QED
  BY <1>6, <1>7, <1>8, <1>9, <1>10 DEF DumpRight

\* What the others of a type have is not changed by a time stamp that is lost or of another
\* type, nor by one that is published.
LEMMA SameReceived ==
  ASSUME NEW s, NEW z, NEW n, NEW m, NEW l, NEW k, NEW t, NEW st,
         ReceivedOf(z, m, k, t) = ReceivedOf(s, n, l, t), GapsOf(z, m, k, t) = GapsOf(s, n, l, t),
         \A j \in ReceivedOf(s, n, l, t) : z[j] = s[j],
         DumpRight(st, s, n, l, t)
  PROVE  DumpRight(st, z, m, k, t)
BY DEF DumpRight, LastCounter

\* What slowsignaldump keeps: the time of the last readout it has
SlowRight(st, s, n, l) ==
  /\ st \in Stats
  /\ Chained(st.rates, st.fLast_ts)
  /\ 1 .. n \ l = {} => st.rates = <<>>
  /\ \A j \in 1 .. n \ l : IsLast(j, 1 .. n \ l) => st.fLast_ts.time = {s[j].time}

SlowRound(st0, r) ==
  LET tack == [NoStamp EXCEPT !.time = {r.time}]
      st == [st0 EXCEPT !.fTrigger = 1, !.fCurrent_ts = tack]
  IN  [st EXCEPT !.rates = IF DeltaT(st) = 0 THEN @ ELSE Append(@, Rate(st)), !.fLast_ts = tack]

\* A round of slowsignaldump keeps its statistics right.
LEMMA SlowTakesOne ==
  ASSUME NEW s \in Seq(Readouts), NEW n \in Nat, n + 1 <= Len(s), NEW l, l \subseteq 1 .. n,
         NEW st0, SlowRight(st0, s, n, l)
  PROVE  SlowRight(SlowRound(st0, s[n + 1]), s, n + 1, l)
<1>1. PICK r \in Readouts : r = s[n + 1]
  <2>1. n + 1 \in 1 .. Len(s)
    BY LenProperties
  <2>2. QED
    BY <2>1, ElementOfSeq
<1>2. r.time \in Nat
  BY DataAssumption DEF IsReadout
<1> DEFINE tack == [NoStamp EXCEPT !.time = {r.time}]
           st == [st0 EXCEPT !.fTrigger = 1, !.fCurrent_ts = tack]
           new == SlowRound(st0, r)
<1>3. tack \in TimeStamps /\ tack.time = {r.time} /\ isValidTS(tack)
  BY <1>2 DEF NoStamp, TimeStamps, Types, isValidTS
<1>4. /\ st \in Stats /\ st.rates = st0.rates /\ st.fLast_ts = st0.fLast_ts
      /\ st.fCurrent_ts = tack /\ st.fTrigger = 1
  <2> HIDE DEF tack
  <2>1. QED
    BY <1>3 DEF SlowRight, Stats
<1>5. new = [st EXCEPT !.rates = IF DeltaT(st) = 0 THEN @ ELSE Append(@, Rate(st)), !.fLast_ts = tack]
  BY DEF SlowRound
<1> HIDE DEF tack, st, new
<1>6. /\ st.rates \in Seq(Rates) /\ st.fLast_ts \in TimeStamps
      /\ Chained(st.rates, st.fLast_ts)
  BY <1>4 DEF SlowRight, Stats
<1>7. PICK a \in Nat, b \in Nat : a = PicoSeconds(st.fLast_ts) /\ b = PicoSeconds(tack)
  BY <1>3, <1>6, PicoSecondsIsNat
<1>8. DeltaT(st) = 0 <=> a = b
  BY <1>4, <1>7 DEF DeltaT
<1>9. new \in Stats /\ Chained(new.rates, tack) /\ new.fLast_ts = tack
  <2>1. CASE DeltaT(st) = 0
    <3>1. new = [st EXCEPT !.rates = st.rates, !.fLast_ts = tack]
      BY <1>5, <2>1
    <3>2. new \in Stats /\ new.rates = st.rates /\ new.fLast_ts = tack
      BY <1>3, <1>4, <3>1 DEF Stats
    <3>3. Chained(st.rates, tack)
      BY <1>3, <1>6, <1>7, <1>8, <2>1 DEF Chained
    <3>4. QED
      BY <3>2, <3>3
  <2>2. CASE DeltaT(st) # 0
    <3>1. PICK rate \in Rates : rate = Rate(st)
      <4>1. Rate(st) = [trig |-> 1, from |-> a, to |-> b]
        BY <1>4, <1>7 DEF Rate
      <4>2. QED
        BY <4>1 DEF Rates
    <3>2. rate.from = PicoSeconds(st.fLast_ts) /\ rate.to = PicoSeconds(tack) /\ rate.from # rate.to
      BY <1>4, <1>7, <1>8, <2>2, <3>1 DEF Rate
    <3>3. Append(st.rates, rate) \in Seq(Rates) /\ Chained(Append(st.rates, rate), tack)
      BY <1>3, <1>6, <3>2, OneRate
    <3>4. new = [st EXCEPT !.rates = Append(st.rates, rate), !.fLast_ts = tack]
      BY <1>5, <2>2, <3>1
    <3>5. new \in Stats /\ new.rates = Append(st.rates, rate) /\ new.fLast_ts = tack
      BY <1>3, <1>4, <3>3, <3>4 DEF Stats
    <3>6. QED
      BY <3>3, <3>5
  <2>3. QED
    BY <2>1, <2>2
<1>10. n + 1 \in 1 .. n + 1 \ l
  OBVIOUS
<1>11. \A j \in 1 .. n + 1 \ l : IsLast(j, 1 .. n + 1 \ l) => j = n + 1
  BY <1>10 DEF IsLast
<1>12. SlowRight(new, s, n + 1, l)
  BY <1>1, <1>3, <1>9, <1>10, <1>11 DEF SlowRight
<1>13. QED
  BY <1>1, <1>12 DEF new

\* A readout more that is published or lost is none that it has.
LEMMA SlowSame ==
  ASSUME NEW s, NEW z, NEW n \in Nat, NEW l, l \subseteq 1 .. n, \A i \in 1 .. n : z[i] = s[i],
         NEW st, SlowRight(st, s, n, l)
  PROVE  SlowRight(st, z, n, l) /\ SlowRight(st, z, n + 1, l \union {n + 1})
<1>1. SlowRight(st, z, n, l)
  BY DEF SlowRight
<1>2. 1 .. n + 1 \ (l \union {n + 1}) = 1 .. n \ l
  OBVIOUS
<1>3. QED
  BY <1>1, <1>2 DEF SlowRight

-----------------------------------------------------------------------------
(* The displays and their streams *)

StreamInv ==
  /\ kind = "timestamp" => Numbered(sent)
  /\ kind = "slowsignal" => sent \in Seq(Readouts)

ProgramInv ==
  /\ program \in {"none", "timestampdump", "timestampviewer", "slowsignaldump"}
  /\ program \in {"timestampdump", "timestampviewer"} => kind = "timestamp"
  /\ program = "slowsignaldump" => kind = "slowsignal"
  /\ taken \in Nat /\ taken <= Len(sent)
  /\ lost \subseteq 1 .. taken
  /\ DOMAIN stats = Types

StatsInv ==
  /\ program = "timestampdump" => \A t \in Types : DumpRight(stats[t], sent, taken, lost, t)
  /\ program = "timestampviewer" =>
       StampRight(stats[ReadoutTrigger], Cardinality(ReceivedOf(sent, taken, lost, ReadoutTrigger)))
  /\ program = "slowsignaldump" => SlowRight(stats[ReadoutTrigger], sent, taken, lost)

DisplayInv == kind \in {"timestamp", "slowsignal"} => StreamInv /\ ProgramInv /\ StatsInv

\* A published time stamp has the next number of its type.
LEMMA OneStamp ==
  ASSUME NEW s, Numbered(s), NEW ts \in TimeStamps,
         ts.event_counter = Cardinality({i \in DOMAIN s : s[i].type = ts.type})
  PROVE  Numbered(Append(s, ts))
<1>1. s \in Seq(TimeStamps)
  BY DEF Numbered
<1>2. PICK n \in Nat : n = Len(s) /\ DOMAIN s = 1 .. n
  BY <1>1, LenProperties
<1>3. PICK z : z = Append(s, ts)
  OBVIOUS
<1>4. /\ z \in Seq(TimeStamps) /\ Len(z) = n + 1
      /\ \A i \in 1 .. n : z[i] = s[i]
      /\ z[n + 1] = ts
  BY <1>1, <1>2, <1>3, AppendProperties
<1>5. ASSUME NEW i \in 1 .. n + 1
      PROVE  z[i].event_counter = Cardinality(Before(z, i, z[i].type))
  <2>1. \A j \in 1 .. i - 1 : z[j] = s[j]
    BY <1>4
  <2>2. CASE i \in 1 .. n
    <3>1. Before(z, i, z[i].type) = Before(s, i, s[i].type)
      BY <1>4, <2>1, <2>2 DEF Before
    <3>2. s[i].event_counter = Cardinality(Before(s, i, s[i].type))
      BY <1>2, <2>2 DEF Numbered
    <3>3. QED
      BY <1>4, <2>2, <3>1, <3>2
  <2>3. CASE i = n + 1
    <3>1. i - 1 = n
      BY <2>3
    <3>2. Before(z, i, ts.type) = {j \in DOMAIN s : s[j].type = ts.type}
      BY <1>2, <2>1, <3>1 DEF Before
    <3>3. QED
      BY <1>4, <2>3, <3>2
  <2>4. QED
    BY <2>2, <2>3
<1>6. Numbered(z)
  BY <1>4, <1>5 DEF Numbered
<1>7. QED
  BY <1>3, <1>6

\* What the publisher of time stamps sends is one, with the number of those of its type.
LEMMA NextStampIs ==
  ASSUME sent \in Seq(TimeStamps), NEW o \in NextStamps
  PROVE  /\ o \in TimeStamps
         /\ o.event_counter = Cardinality({i \in DOMAIN sent : sent[i].type = o.type})
<1>1. PICK st \in Stamps :
        o = [type |-> st.type, time |-> st.time,
             event_counter |-> Cardinality({i \in DOMAIN sent : sent[i].type = st.type})]
  BY DEF NextStamps
<1>2. PICK n \in Nat : n = Len(sent) /\ DOMAIN sent = 1 .. n
  BY LenProperties
<1>3. Cardinality({i \in DOMAIN sent : sent[i].type = st.type}) \in Nat
  <2>1. {i \in DOMAIN sent : sent[i].type = st.type} \in SUBSET (1 .. n)
    BY <1>2
  <2>2. IsFiniteSet(1 .. n)
    BY FS_Interval
  <2>3. QED
    BY <2>1, <2>2, FS_Subset, FS_CardinalityType
<1>4. st.type \in Types /\ st.time \in SUBSET Nat /\ \A t, u \in st.time : t = u
  BY DisplayAssumption
<1>5. PICK c \in Nat : c = Cardinality({i \in DOMAIN sent : sent[i].type = st.type})
  BY <1>3
<1>6. o = [type |-> st.type, time |-> st.time, event_counter |-> c]
  BY <1>1, <1>5
<1>7. o \in TimeStamps
  BY <1>4, <1>6 DEF TimeStamps
<1>8. QED
  BY <1>5, <1>6, <1>7

\* What is published comes behind.
LEMMA StreamGrows ==
  ASSUME StreamInv, kind \in {"timestamp", "slowsignal"}, DataNext, kind' = kind
  PROVE  /\ StreamInv'
         /\ Len(sent) \in Nat /\ Len(sent') \in Nat /\ Len(sent) <= Len(sent')
         /\ \A i \in 1 .. Len(sent) : sent'[i] = sent[i]
<1>1. CASE sent' = sent
  <2>1. Len(sent) \in Nat
    BY LenProperties DEF StreamInv, Numbered
  <2>2. QED
    BY <1>1, <2>1 DEF StreamInv
<1>2. CASE kind = "timestamp" /\ sent' # sent
  <2>1. PICK o \in NextStamps : sent' = Append(sent, o)
    BY <1>2 DEF DataNext, EmitLog, SendWritten, SendRejected, Publish, Publishable, PutObject,
                GetObjects, WriteFrame, ReadFrame, WriteReadout, CloseFile, Crash, GetItem,
                NextRow, LoadAllData, ReadRow
  <2>2. Numbered(sent) /\ sent \in Seq(TimeStamps)
    BY <1>2 DEF StreamInv, Numbered
  <2>3. PICK n \in Nat : n = Len(sent) /\ DOMAIN sent = 1 .. n
    BY <2>2, LenProperties
  <2>4. /\ o \in TimeStamps
        /\ o.event_counter = Cardinality({i \in DOMAIN sent : sent[i].type = o.type})
    BY <2>1, <2>2, NextStampIs
  <2>5. Numbered(sent')
    BY <2>1, <2>2, <2>4, OneStamp
  <2>6. Len(sent') = n + 1 /\ \A i \in 1 .. n : sent'[i] = sent[i]
    BY <2>1, <2>2, <2>3, <2>4, AppendProperties
  <2>7. QED
    BY <1>2, <2>3, <2>5, <2>6 DEF StreamInv
<1>3. CASE kind = "slowsignal" /\ sent' # sent
  <2>1. PICK r \in Readouts : sent' = Append(sent, r)
    BY <1>3 DEF DataNext, EmitLog, SendWritten, SendRejected, Publish, Publishable, PutObject,
                GetObjects, WriteFrame, ReadFrame, WriteReadout, CloseFile, Crash, GetItem,
                NextRow, LoadAllData, ReadRow
  <2>2. sent \in Seq(Readouts)
    BY <1>3 DEF StreamInv
  <2>3. PICK n \in Nat : n = Len(sent)
    BY <2>2, LenProperties
  <2>4. sent' \in Seq(Readouts) /\ Len(sent') = n + 1 /\ \A i \in 1 .. n : sent'[i] = sent[i]
    BY <2>1, <2>2, <2>3, AppendProperties
  <2>5. QED
    BY <1>3, <2>3, <2>4 DEF StreamInv
<1>4. QED
  BY <1>1, <1>2, <1>3

\* A display begins right.
LEMMA InitDisplay == Init => DisplayInv
<1> SUFFICES ASSUME Init, kind \in {"timestamp", "slowsignal"}
             PROVE  StreamInv /\ ProgramInv /\ StatsInv
  BY DEF DisplayInv
<1>1. sent = << >> /\ Len(sent) = 0 /\ taken = 0 /\ lost = {} /\ stats = [t \in Types |-> FreshStats]
  BY DEF Init, DataInit
<1>2. StreamInv
  BY <1>1 DEF StreamInv, Numbered
<1>3. ProgramInv
  BY <1>1 DEF ProgramInv, Init
<1>4. \A t \in Types : DumpRight(FreshStats, sent, taken, lost, t)
  <2>1. ASSUME NEW t \in Types PROVE DumpRight(FreshStats, sent, taken, lost, t)
    <3>1. ReceivedOf(sent, taken, lost, t) = {} /\ GapsOf(sent, taken, lost, t) = {}
      BY <1>1 DEF ReceivedOf, GapsOf
    <3>2. Cardinality({}) = 0
      BY FS_EmptySet
    <3>3. FreshStats.counter_missed = 0 /\ FreshStats.counter_last = 0
      BY DEF FreshStats
    <3>4. StampRight(FreshStats, 0)
      BY FreshIsRight
    <3>5. QED
      BY <3>1, <3>2, <3>3, <3>4 DEF DumpRight, LastCounter
  <2>2. QED
    BY <2>1
<1>5. ReadoutTrigger \in Types
  BY DEF Types
<1>6. SlowRight(FreshStats, sent, taken, lost)
  <2>1. 1 .. taken \ lost = {}
    BY <1>1
  <2>2. FreshStats \in Stats /\ FreshStats.rates = <<>> /\ Chained(FreshStats.rates, FreshStats.fLast_ts)
    BY FreshIsRight DEF StampRight, FreshStats
  <2>3. QED
    BY <2>1, <2>2 DEF SlowRight
<1>7. StatsInv
  BY <1>1, <1>4, <1>5, <1>6 DEF StatsInv, DumpRight
<1>8. QED
  BY <1>2, <1>3, <1>7

\* What is published leaves what was received.
LEMMA DataKeepsDisplay ==
  ASSUME DisplayInv, kind \in {"timestamp", "slowsignal"}, DataNext, kind' = kind, UNCHANGED displayVars
  PROVE  DisplayInv'
<1>1. StreamInv /\ ProgramInv /\ StatsInv
  BY DEF DisplayInv
<1>2. /\ StreamInv'
      /\ Len(sent) \in Nat /\ Len(sent') \in Nat /\ Len(sent) <= Len(sent')
      /\ \A i \in 1 .. Len(sent) : sent'[i] = sent[i]
  BY <1>1, StreamGrows
<1>3. program' = program /\ taken' = taken /\ lost' = lost /\ stats' = stats
  BY DEF displayVars
<1>4. taken \in Nat /\ lost \subseteq 1 .. taken /\ \A i \in 1 .. taken : sent'[i] = sent[i]
  BY <1>1, <1>2 DEF ProgramInv
<1>5. ProgramInv'
  BY <1>1, <1>2, <1>3 DEF ProgramInv
<1>6. ASSUME NEW t
      PROVE  /\ ReceivedOf(sent', taken, lost, t) = ReceivedOf(sent, taken, lost, t)
             /\ GapsOf(sent', taken, lost, t) = GapsOf(sent, taken, lost, t)
             /\ \A j \in ReceivedOf(sent, taken, lost, t) : sent'[j] = sent[j]
  <2>1. SameUntil(sent', sent, taken, lost)
    BY <1>4 DEF Agree, SameUntil
  <2>2. /\ ReceivedOf(sent', taken, lost, t) = ReceivedOf(sent, taken, lost, t)
        /\ GapsOf(sent', taken, lost, t) = GapsOf(sent, taken, lost, t)
    BY <1>4, <2>1, AgreeingStreams
  <2>3. QED
    BY <1>4, <2>2 DEF ReceivedOf
<1>7. \A t \in Types : \A st : DumpRight(st, sent, taken, lost, t) => DumpRight(st, sent', taken, lost, t)
  BY <1>6, SameReceived
<1>8. \A st : SlowRight(st, sent, taken, lost) => SlowRight(st, sent', taken, lost)
  BY <1>4, SlowSame
<1>9. StatsInv'
  BY <1>1, <1>3, <1>6, <1>7, <1>8 DEF StatsInv
<1>10. QED
  BY <1>2, <1>5, <1>9 DEF DisplayInv

\* An object is lost.
LEMMA LoseKeepsDisplay ==
  ASSUME DisplayInv, kind \in {"timestamp", "slowsignal"}, Lose
  PROVE  DisplayInv'
<1>1. StreamInv /\ ProgramInv /\ StatsInv
  BY DEF DisplayInv
<1>2. /\ taken < Len(sent) /\ taken' = taken + 1 /\ lost' = lost \union {taken + 1}
      /\ kind' = kind /\ sent' = sent /\ program' = program /\ stats' = stats
  BY DEF Lose, dataVars
<1>3. taken \in Nat /\ lost \subseteq 1 .. taken /\ Len(sent) \in Nat
  BY <1>1, LenProperties DEF ProgramInv, StreamInv, Numbered
<1>4. StreamInv'
  BY <1>1, <1>2 DEF StreamInv
<1>5. ProgramInv'
  <2>1. taken' \in Nat /\ taken' <= Len(sent') /\ lost' \subseteq 1 .. taken'
    BY <1>2, <1>3
  <2>2. QED
    BY <1>1, <1>2, <2>1 DEF ProgramInv
<1>6. ASSUME NEW t
      PROVE  /\ ReceivedOf(sent, taken', lost', t) = ReceivedOf(sent, taken, lost, t)
             /\ GapsOf(sent, taken', lost', t) = GapsOf(sent, taken, lost, t)
  BY <1>2, <1>3, OneLost
<1>7. \A t \in Types : \A st : DumpRight(st, sent, taken, lost, t) => DumpRight(st, sent, taken', lost', t)
  BY <1>6, SameReceived
<1>8. \A st : SlowRight(st, sent, taken, lost) => SlowRight(st, sent, taken', lost')
  BY <1>2, <1>3, SlowSame
<1>9. StatsInv'
  BY <1>1, <1>2, <1>6, <1>7, <1>8 DEF StatsInv
<1>10. QED
  BY <1>4, <1>5, <1>9 DEF DisplayInv

\* What a step leaves that takes the next of the stream
LEMMA TakeKeepsProgram ==
  ASSUME DisplayInv, kind \in {"timestamp", "slowsignal"}, NEW t \in Types, NEW st, Take(t, st)
  PROVE  /\ StreamInv' /\ ProgramInv'
         /\ kind' = kind /\ sent' = sent /\ program' = program /\ lost' = lost
         /\ taken' = taken + 1 /\ taken \in Nat /\ taken + 1 <= Len(sent) /\ lost \subseteq 1 .. taken
         /\ stats'[t] = st /\ \A u \in Types \ {t} : stats'[u] = stats[u]
<1>1. StreamInv /\ ProgramInv
  BY DEF DisplayInv
<1>2. /\ taken < Len(sent) /\ taken' = taken + 1 /\ lost' = lost
      /\ kind' = kind /\ sent' = sent /\ program' = program
      /\ stats' = [stats EXCEPT ![t] = st]
  BY DEF Take, dataVars
<1>3. taken \in Nat /\ lost \subseteq 1 .. taken /\ Len(sent) \in Nat /\ DOMAIN stats = Types
  BY <1>1, LenProperties DEF ProgramInv, StreamInv, Numbered
<1>4. taken + 1 <= Len(sent) /\ taken' \in Nat /\ taken' <= Len(sent') /\ lost' \subseteq 1 .. taken'
  BY <1>2, <1>3
<1>5. DOMAIN stats' = Types /\ stats'[t] = st /\ \A u \in Types \ {t} : stats'[u] = stats[u]
  BY <1>2, <1>3
<1>6. StreamInv' /\ ProgramInv'
  BY <1>1, <1>2, <1>4, <1>5 DEF StreamInv, ProgramInv
<1>7. QED
  BY <1>2, <1>3, <1>4, <1>5, <1>6

\* timestampdump takes a time stamp.
LEMMA DumpKeepsDisplay ==
  ASSUME DisplayInv, kind \in {"timestamp", "slowsignal"}, DumpTakes
  PROVE  DisplayInv'
<1>1. program = "timestampdump" /\ StreamInv /\ ProgramInv /\ StatsInv /\ taken < Len(sent)
  BY DEF DumpTakes, DisplayInv
<1> DEFINE ts == sent[taken + 1]
           t == ts.type
<1>2. Take(t, DumpRound(stats[t], ts))
  BY DEF DumpTakes, DumpRound, Stamp
<1>3. Numbered(sent) /\ sent \in Seq(TimeStamps) /\ taken \in Nat
  BY <1>1 DEF StreamInv, ProgramInv, Numbered
<1>4. ts \in TimeStamps
  <2>1. Len(sent) \in Nat /\ taken + 1 \in 1 .. Len(sent)
    BY <1>1, <1>3, LenProperties
  <2>2. QED
    BY <1>3, <2>1, ElementOfSeq
<1>5. t \in Types
  BY <1>4 DEF TimeStamps
<1> HIDE DEF t, ts
<1>6. /\ StreamInv' /\ ProgramInv'
      /\ sent' = sent /\ program' = program /\ lost' = lost
      /\ taken' = taken + 1 /\ taken \in Nat /\ taken + 1 <= Len(sent) /\ lost \subseteq 1 .. taken
      /\ stats'[t] = DumpRound(stats[t], ts) /\ \A u \in Types \ {t} : stats'[u] = stats[u]
  BY <1>2, <1>5, TakeKeepsProgram
<1>7. \A u \in Types : DumpRight(stats[u], sent, taken, lost, u)
  BY <1>1 DEF StatsInv
<1>8. DumpRight(stats'[t], sent, taken + 1, lost, t)
  BY <1>3, <1>5, <1>6, <1>7, DumpTakesOne DEF t, ts
<1>9. ASSUME NEW u \in Types, u # t PROVE DumpRight(stats'[u], sent, taken + 1, lost, u)
  <2>1. /\ ReceivedOf(sent, taken + 1, lost, u) = ReceivedOf(sent, taken, lost, u)
        /\ GapsOf(sent, taken + 1, lost, u) = GapsOf(sent, taken, lost, u)
    BY <1>3, <1>6, <1>9, OtherReceived DEF t, ts
  <2>2. DumpRight(stats[u], sent, taken + 1, lost, u)
    BY <1>7, <2>1, SameReceived
  <2>3. QED
    BY <1>6, <1>9, <2>2
<1>10. StatsInv'
  BY <1>1, <1>6, <1>8, <1>9 DEF StatsInv
<1>11. QED
  BY <1>6, <1>10 DEF DisplayInv

\* timestampviewer takes a time stamp.
LEMMA ViewerKeepsDisplay ==
  ASSUME DisplayInv, kind \in {"timestamp", "slowsignal"}, ViewerTakes
  PROVE  DisplayInv'
<1>1. program = "timestampviewer" /\ StreamInv /\ ProgramInv /\ StatsInv /\ taken < Len(sent)
  BY DEF ViewerTakes, DisplayInv
<1> DEFINE ts == sent[taken + 1]
           t == ReadoutTrigger
           R == ReceivedOf(sent, taken, lost, t)
           st == IF ts.type = t THEN add_timestamp(stats[t], ts) ELSE stats[t]
<1>2. Take(t, st) /\ t \in Types
  BY DEF ViewerTakes, Stamp, Types
<1>3. sent \in Seq(TimeStamps) /\ taken \in Nat
  BY <1>1 DEF StreamInv, ProgramInv, Numbered
<1>4. ts \in TimeStamps
  <2>1. Len(sent) \in Nat /\ taken + 1 \in 1 .. Len(sent)
    BY <1>1, <1>3, LenProperties
  <2>2. QED
    BY <1>3, <2>1, ElementOfSeq
<1>5. StampRight(stats[t], Cardinality(R))
  BY <1>1 DEF StatsInv
<1> HIDE DEF st
<1>6. /\ StreamInv' /\ ProgramInv'
      /\ sent' = sent /\ program' = program /\ lost' = lost
      /\ taken' = taken + 1 /\ taken \in Nat /\ taken + 1 <= Len(sent) /\ lost \subseteq 1 .. taken
      /\ stats'[t] = st
  BY <1>2, TakeKeepsProgram
<1>7. StampRight(st, Cardinality(ReceivedOf(sent, taken + 1, lost, t)))
  <2>1. CASE ts.type # t
    <3>1. ReceivedOf(sent, taken + 1, lost, t) = R
      BY <1>6, <2>1, OtherReceived
    <3>2. QED
      BY <1>5, <2>1, <3>1 DEF st
  <2>2. CASE ts.type = t
    <3>1. ReceivedOf(sent, taken + 1, lost, t) = R \union {taken + 1}
      BY <1>6, <2>2, OneReceived
    <3>2. IsFiniteSet(R) /\ Cardinality(R) \in Nat
      BY <1>6, FiniteSets
    <3>3. taken + 1 \notin R
      BY <1>6 DEF ReceivedOf
    <3>4. Cardinality(R \union {taken + 1}) = Cardinality(R) + 1
      BY <3>2, <3>3, FS_AddElement
    <3>5. StampRight(add_timestamp(stats[t], ts), Cardinality(R) + 1)
      BY <1>4, <1>5, <3>2, AddKeepsRight
    <3>6. st = add_timestamp(stats[t], ts)
      BY <2>2 DEF st
    <3> HIDE DEF R, ts, t
    <3>7. QED
      BY <3>1, <3>4, <3>5, <3>6
  <2>3. QED
    BY <2>1, <2>2
<1>8. StatsInv'
  BY <1>1, <1>6, <1>7 DEF StatsInv
<1>9. QED
  BY <1>6, <1>8 DEF DisplayInv

\* The viewer computes a frequency of what it took.
LEMMA UpdateKeepsDisplay ==
  ASSUME DisplayInv, kind \in {"timestamp", "slowsignal"}, ViewerUpdates
  PROVE  DisplayInv'
<1>1. program = "timestampviewer" /\ StreamInv /\ ProgramInv /\ StatsInv
  BY DEF ViewerUpdates, DisplayInv
<1>2. /\ taken' = taken /\ lost' = lost /\ kind' = kind /\ sent' = sent /\ program' = program
      /\ stats' = [stats EXCEPT ![ReadoutTrigger] = Frequency(@)]
  BY DEF ViewerUpdates, dataVars
<1>3. ReadoutTrigger \in Types /\ DOMAIN stats = Types
  BY <1>1 DEF Types, ProgramInv
<1>4. DOMAIN stats' = Types /\ stats'[ReadoutTrigger] = Frequency(stats[ReadoutTrigger])
  BY <1>2, <1>3
<1>5. taken \in Nat /\ Cardinality(ReceivedOf(sent, taken, lost, ReadoutTrigger)) \in Nat
  BY <1>1, FiniteSets DEF ProgramInv
<1>6. StampRight(stats'[ReadoutTrigger], Cardinality(ReceivedOf(sent, taken, lost, ReadoutTrigger)))
  BY <1>1, <1>4, <1>5, FrequencyKeepsRight DEF StatsInv
<1>7. StreamInv' /\ ProgramInv' /\ StatsInv'
  BY <1>1, <1>2, <1>4, <1>6 DEF StreamInv, ProgramInv, StatsInv
<1>8. QED
  BY <1>7 DEF DisplayInv

\* slowsignaldump takes a readout.
LEMMA SlowKeepsDisplay ==
  ASSUME DisplayInv, kind \in {"timestamp", "slowsignal"}, SlowSignalDumpTakes
  PROVE  DisplayInv'
<1>1. program = "slowsignaldump" /\ StreamInv /\ ProgramInv /\ StatsInv
  BY DEF SlowSignalDumpTakes, DisplayInv
<1> DEFINE st == SlowRound(stats[ReadoutTrigger], sent[taken + 1])
<1>2. Take(ReadoutTrigger, st) /\ ReadoutTrigger \in Types
  BY DEF SlowSignalDumpTakes, SlowRound, Stamp, Types
<1>3. sent \in Seq(Readouts) /\ SlowRight(stats[ReadoutTrigger], sent, taken, lost)
  BY <1>1 DEF StreamInv, ProgramInv, StatsInv
<1> HIDE DEF st
<1>4. /\ StreamInv' /\ ProgramInv'
      /\ sent' = sent /\ program' = program /\ lost' = lost
      /\ taken' = taken + 1 /\ taken \in Nat /\ taken + 1 <= Len(sent) /\ lost \subseteq 1 .. taken
      /\ stats'[ReadoutTrigger] = st
  BY <1>2, TakeKeepsProgram
<1>5. SlowRight(st, sent, taken + 1, lost)
  BY <1>3, <1>4, SlowTakesOne DEF st
<1>6. StatsInv'
  BY <1>1, <1>4, <1>5 DEF StatsInv
<1>7. QED
  BY <1>4, <1>6 DEF DisplayInv

\* Each step keeps the display right.
LEMMA StepDisplay == DisplayInv /\ [Next]_vars => DisplayInv'
<1> SUFFICES ASSUME DisplayInv, [Next]_vars PROVE DisplayInv'
  OBVIOUS
<1>1. kind' = kind
  BY StepKind
<1>2. CASE kind \notin {"timestamp", "slowsignal"}
  BY <1>1, <1>2 DEF DisplayInv
<1>3. CASE kind \in {"timestamp", "slowsignal"} /\ UNCHANGED vars
  BY <1>3 DEF DisplayInv, StreamInv, ProgramInv, StatsInv, vars, dataVars, displayVars
<1>4. CASE kind \in {"timestamp", "slowsignal"} /\ Next
  BY <1>1, <1>4, DataKeepsDisplay, LoseKeepsDisplay, DumpKeepsDisplay, ViewerKeepsDisplay,
     UpdateKeepsDisplay, SlowKeepsDisplay DEF Next
<1>5. QED
  BY <1>2, <1>3, <1>4

\* Without a program nothing is shown.
IdleInv ==
  /\ kind \notin {"timestamp", "slowsignal"} => program = "none"
  /\ program = "none" => stats = [t \in Types |-> FreshStats]

\* Only a display changes the statistics.
LEMMA StepIdle == IdleInv /\ [Next]_vars => IdleInv'
<1> SUFFICES ASSUME IdleInv, [Next]_vars PROVE IdleInv'
  OBVIOUS
<1>1. kind' = kind
  BY StepKind
<1>2. program' = program /\ (program = "none" => stats' = stats)
  <2>1. (DataNext /\ UNCHANGED displayVars) \/ UNCHANGED vars => program' = program /\ stats' = stats
    BY DEF vars, displayVars
  <2>2. QED
    BY <2>1 DEF Next, Lose, DumpTakes, ViewerTakes, ViewerUpdates, SlowSignalDumpTakes, Take
<1>3. QED
  BY <1>1, <1>2 DEF IdleInv

\* What the programs keep is what they show.
LEMMA RatesShown == DisplayInv /\ IdleInv => RatesCoverStream
<1> SUFFICES ASSUME DisplayInv, IdleInv, NEW t \in Shown
             PROVE  LET rates == stats[t].rates
                    IN  /\ \A i \in DOMAIN rates :
                             /\ rates[i].from # rates[i].to
                             /\ i > 1 => rates[i - 1].to = rates[i].from
                        /\ program \in {"timestampdump", "timestampviewer"} =>
                             /\ \A i \in DOMAIN rates : rates[i].from < rates[i].to
                             /\ RateSum(rates) + stats[t].fTrigger = Cardinality(Received(t))
                        /\ program = "slowsignaldump" /\ rates # <<>> =>
                             \E i \in 1 .. taken \ lost :
                               /\ Last(rates).to = sent[i].time
                               /\ \A j \in 1 .. taken \ lost : j <= i
  BY DEF RatesCoverStream
<1> DEFINE rates == stats[t].rates
<1>1. t \in Types /\ (program # "timestampdump" => t = ReadoutTrigger)
  BY DEF Shown, Types
<1>2. CASE program = "none"
  <2>1. rates = <<>>
    BY <1>1, <1>2 DEF IdleInv, FreshStats
  <2>2. DOMAIN rates = {}
    BY <2>1
  <2>3. QED
    BY <1>2, <2>2
<1>3. CASE program # "none"
  <2>1. StreamInv /\ ProgramInv /\ StatsInv
    BY <1>3 DEF DisplayInv, IdleInv
  <2>2. CASE program \in {"timestampdump", "timestampviewer"}
    <3>1. StampRight(stats[t], Cardinality(Received(t)))
      BY <1>1, <2>1, <2>2 DEF StatsInv, DumpRight, ReceivedOf, Received
    <3>2. /\ rates \in Seq(Rates) /\ Chained(rates, stats[t].fLast_ts) /\ Rising(rates)
          /\ RateSum(rates) + stats[t].fTrigger = Cardinality(Received(t))
      BY <3>1 DEF StampRight, Stats
    <3>3. DOMAIN rates = 1 .. Len(rates)
      BY <3>2, LenProperties
    <3>4. QED
      BY <2>2, <3>2, <3>3 DEF Chained, Rising
  <2>3. CASE program = "slowsignaldump"
    <3>1. SlowRight(stats[t], sent, taken, lost)
      BY <1>1, <2>1, <2>3 DEF StatsInv
    <3>2. rates \in Seq(Rates) /\ Chained(rates, stats[t].fLast_ts) /\ stats[t].fLast_ts \in TimeStamps
      BY <3>1 DEF SlowRight, Stats
    <3>3. DOMAIN rates = 1 .. Len(rates)
      BY <3>2, LenProperties
    <3>4. ASSUME rates # <<>>
          PROVE  \E i \in 1 .. taken \ lost :
                   /\ Last(rates).to = sent[i].time
                   /\ \A j \in 1 .. taken \ lost : j <= i
      <4>1. taken \in Nat /\ 1 .. taken \ lost # {}
        BY <2>1, <3>1, <3>4 DEF ProgramInv, SlowRight
      <4>2. PICK i \in 1 .. taken \ lost : IsLast(i, 1 .. taken \ lost)
        BY <4>1, LastOne
      <4>3. stats[t].fLast_ts.time = {sent[i].time}
        BY <3>1, <4>2 DEF SlowRight
      <4>4. PicoSeconds(stats[t].fLast_ts) = sent[i].time
        BY <3>2, <4>3, PicoSecondsIsNat
      <4>5. Last(rates).to = sent[i].time
        BY <3>2, <3>4, <4>4 DEF Chained, Last
      <4>6. QED
        BY <4>2, <4>5 DEF IsLast
    <3>5. QED
      BY <2>3, <3>2, <3>3, <3>4 DEF Chained
  <2>4. QED
    BY <1>3, <2>1, <2>2, <2>3 DEF ProgramInv
<1>4. QED
  BY <1>2, <1>3

\* What timestampdump counts are the gaps.
LEMMA GapsShown == DisplayInv /\ IdleInv => GapsAreCounted
<1> SUFFICES ASSUME DisplayInv, IdleInv, program = "timestampdump", NEW t \in Types
             PROVE  stats[t].counter_missed =
                      Cardinality({i \in Received(t) :
                        \E j \in Received(t) :
                          /\ j < i /\ \A k \in Received(t) : k <= j \/ k >= i
                          /\ sent[j].event_counter # 0
                          /\ \E k \in lost : j < k /\ k < i /\ sent[k].type = t})
  BY DEF GapsAreCounted
<1>1. DumpRight(stats[t], sent, taken, lost, t)
  BY DEF DisplayInv, IdleInv, StatsInv
<1>2. Received(t) = ReceivedOf(sent, taken, lost, t)
  BY DEF Received, ReceivedOf
<1>3. QED
  BY <1>1, <1>2 DEF DumpRight, GapsOf, LostBetween

\* At first there are no statistics.
LEMMA InitIdle == Init => IdleInv
BY DEF Init, IdleInv

\* The frequencies shown cover the stream: one time after the other, each time stamp in one
\* of them or waiting, whatever is lost on the way and however the times jump.
THEOREM RatesAreCovering == Spec => []RatesCoverStream
<1>1. DisplayInv /\ IdleInv /\ [Next]_vars => (DisplayInv /\ IdleInv)'
  BY StepDisplay, StepIdle
<1>2. QED
  BY <1>1, InitDisplay, InitIdle, RatesShown, PTL DEF Spec

\* timestampdump counts each gap between two time stamps that it received, once, whatever
\* is lost, but none behind the counter zero.
THEOREM GapsCounted == Spec => []GapsAreCounted
<1>1. DisplayInv /\ IdleInv /\ [Next]_vars => (DisplayInv /\ IdleInv)'
  BY StepDisplay, StepIdle
<1>2. QED
  BY <1>1, InitDisplay, InitIdle, GapsShown, PTL DEF Spec

-----------------------------------------------------------------------------
(* Trigger packets: powers of two *)

\* The recursive definition of Power has the values that it says.
LEMMA Powers ==
  /\ Power[0] = 1
  /\ \A i \in 0 .. Byte : Power[i + 1] = 2 * Power[i]
  /\ \A i \in 0 .. Byte + 1 : Power[i] \in Nat \ {0}
<1> DEFINE n == Byte + 2
           G == [xi \in Nat \X Nat |-> 2 * xi[1]]
           F(g) == [i \in 0 .. Byte + 1 |-> IF i = 0 THEN 1 ELSE 2 * g[i - 1]]
<1>1. n \in Nat /\ Byte \in Nat
  BY TriggerAssumption
<1>2. G \in [Nat \X Nat -> Nat]
  OBVIOUS
<1>3. PICK f \in [1 .. n -> Nat] : Goes(f, n, 1, G)
  <2> HIDE DEF G, n
  <2>1. QED
    BY <1>1, <1>2, StepByStep
<1> DEFINE h == [i \in 0 .. Byte + 1 |-> f[i + 1]]
<1>4. h = F(h)
  <2>1. ASSUME NEW i \in 0 .. Byte + 1
        PROVE  f[i + 1] = IF i = 0 THEN 1 ELSE 2 * h[i - 1]
    <3>1. i + 1 \in 1 .. n
      BY <1>1
    <3>2. f[i + 1] = IF i + 1 = 1 THEN 1 ELSE G[<<f[i + 1 - 1], i + 1>>]
      BY <1>3, <3>1 DEF Goes
    <3>3. CASE i = 0
      BY <3>2, <3>3
    <3>4. CASE i # 0
      <4>1. i \in 1 .. n /\ i - 1 \in 0 .. Byte + 1 /\ i + 1 - 1 = i /\ i - 1 + 1 = i /\ i + 1 # 1 /\ i + 1 \in Nat
        BY <1>1, <3>4
      <4>2. PICK x \in Nat : x = f[i]
        BY <1>3, <4>1
      <4>3. G[<<x, i + 1>>] = 2 * x
        BY <4>1
      <4>4. h[i - 1] = x
        BY <4>1, <4>2
      <4>5. QED
        BY <3>2, <3>4, <4>1, <4>2, <4>3, <4>4
    <3>5. QED
      BY <3>3, <3>4
  <2>2. QED
    BY <2>1
<1>5. Power = F(Power)
  <2>1. Power = CHOOSE g : g = F(g)
    BY DEF Power
  <2> HIDE DEF F, h
  <2>2. QED
    BY <1>4, <2>1
<1>6. \A i \in 0 .. Byte + 1 : Power[i] = IF i = 0 THEN 1 ELSE 2 * Power[i - 1]
  BY <1>5
<1>7. Power[0] = 1
  <2>1. 0 \in 0 .. Byte + 1
    BY <1>1
  <2>2. QED
    BY <1>6, <2>1
<1>8. ASSUME NEW i \in 0 .. Byte PROVE Power[i + 1] = 2 * Power[i]
  <2>1. i + 1 \in 0 .. Byte + 1 /\ i + 1 # 0 /\ i + 1 - 1 = i
    BY <1>1
  <2>2. QED
    BY <1>6, <2>1
<1> DEFINE Wrong == {i \in 0 .. Byte + 1 : Power[i] \notin Nat \ {0}}
<1>9. Wrong = {}
  <2>1. SUFFICES ASSUME Wrong # {} PROVE FALSE
    OBVIOUS
  <2>2. PICK i \in Wrong : \A j \in Wrong : i <= j
    <3>1. Wrong \subseteq Nat
      BY <1>1
    <3>2. QED
      BY <2>1, <3>1, LeastNumber, Zenon
  <2>3. i \in 0 .. Byte + 1 /\ i # 0
    BY <1>7, <2>2
  <2>4. PICK j \in 0 .. Byte : i = j + 1
    <3>1. i - 1 \in 0 .. Byte /\ i = i - 1 + 1
      BY <1>1, <2>3
    <3>2. QED
      BY <3>1
  <2>5. j \in 0 .. Byte + 1 /\ ~ i <= j
    BY <1>1, <2>4
  <2>6. Power[j] \in Nat \ {0}
    BY <2>2, <2>5
  <2>7. Power[i] = 2 * Power[j]
    BY <1>8, <2>4
  <2>8. QED
    BY <2>2, <2>6, <2>7
<1>10. QED
  BY <1>7, <1>8, <1>9

\* They grow.
LEMMA PowersGrow == \A i, j \in 0 .. Byte + 1 : i < j => Power[i] < Power[j]
<1> DEFINE Wrong == {j \in 0 .. Byte + 1 : \E i \in 0 .. Byte + 1 : i < j /\ ~ Power[i] < Power[j]}
<1>1. SUFFICES ASSUME Wrong # {} PROVE FALSE
  OBVIOUS
<1>2. Byte \in Nat
  BY TriggerAssumption
<1>3. PICK j \in Wrong : \A k \in Wrong : j <= k
  <2>1. Wrong \subseteq Nat
    BY <1>2
  <2>2. QED
    BY <1>1, <2>1, LeastNumber, Zenon
<1>4. PICK i \in 0 .. Byte + 1 : i < j /\ ~ Power[i] < Power[j]
  BY <1>3
<1>5. PICK k \in 0 .. Byte : j = k + 1
  <2>1. j - 1 \in 0 .. Byte /\ j = j - 1 + 1
    BY <1>2, <1>3, <1>4
  <2>2. QED
    BY <2>1
<1>6. k \in 0 .. Byte + 1 /\ ~ j <= k /\ (i < k \/ i = k)
  BY <1>2, <1>4, <1>5
<1>7. k \notin Wrong
  BY <1>3, <1>6
<1>8. i = k \/ Power[i] < Power[k]
  BY <1>6, <1>7
<1>9. PICK a \in Nat \ {0}, b \in Nat \ {0} : a = Power[i] /\ b = Power[k]
  BY <1>6, Powers
<1>10. Power[j] = 2 * b
  BY <1>5, <1>9, Powers
<1>11. a <= b
  BY <1>8, <1>9
<1>12. QED
  BY <1>4, <1>9, <1>10, <1>11

\* Reversing the bits of a phase twice gives the phase.
LEMMA ReversedTwice ==
  ASSUME NEW phase \in Phases
  PROVE  ReverseBits(phase) \in Phases /\ ReverseBits(ReverseBits(phase)) = phase
<1>1. Byte \in Nat \ {0}
  BY TriggerAssumption
<1>2. ASSUME NEW i \in 0 .. Byte - 1
      PROVE  (CHOOSE j \in 0 .. Byte - 1 : Power[j] = Power[i]) = i
  <2>1. ASSUME NEW j \in 0 .. Byte - 1, Power[j] = Power[i] PROVE j = i
    <3>1. i \in 0 .. Byte + 1 /\ j \in 0 .. Byte + 1
      BY <1>1
    <3>2. PICK a \in Nat : a = Power[i] /\ a = Power[j]
      BY <2>1, <3>1, Powers
    <3>3. i < j => a < a
      BY <3>1, <3>2, PowersGrow
    <3>4. j < i => a < a
      BY <3>1, <3>2, PowersGrow
    <3>5. QED
      BY <3>1, <3>2, <3>3, <3>4
  <2>2. QED
    BY <2>1
<1>3. PICK i \in 0 .. Byte - 1 : phase = Power[i]
  BY DEF Phases
<1>4. PICK k \in 0 .. Byte - 1 : k = Byte - 1 - i /\ Byte - 1 - k = i
  BY <1>1
<1>5. ReverseBits(Power[i]) = Power[k]
  BY <1>2, <1>4 DEF ReverseBits
<1>6. ReverseBits(Power[k]) = Power[i]
  BY <1>2, <1>4 DEF ReverseBits
<1>7. QED
  BY <1>3, <1>5, <1>6 DEF Phases

-----------------------------------------------------------------------------
(* Trigger packets: bits *)

Bits == {0, 1}

\* Bits in whole bytes are packed as they are.
LEMMA WholeBytes ==
  ASSUME NEW bits \in Seq(Bits)
  PROVE  /\ PackBits(bits) \in Seq(Bits)
         /\ Len(bits) % Byte = 0 => PackBits(bits) = bits
<1> DEFINE n == (Byte - (Len(bits) % Byte)) % Byte
           pad == [i \in 1 .. n |-> 0]
<1>1. PICK b \in Nat \ {0}, m \in Nat : b = Byte /\ m = Len(bits)
  BY TriggerAssumption, LenProperties
<1>2. PICK r \in 0 .. b - 1 : r = m % b
  BY <1>1
<1>3. n \in Nat /\ (r = 0 => n = 0)
  <2>1. (b - r) % b \in Nat /\ (r = 0 => (b - r) % b = 0)
    BY <1>1, <1>2
  <2>2. QED
    BY <1>1, <1>2, <2>1
<1>4. PackBits(bits) = bits \o pad
  BY DEF PackBits
<1> HIDE DEF n
<1>5. pad \in Seq(Bits) /\ (n = 0 => pad = <<>>)
  BY <1>3 DEF Bits
<1> HIDE DEF pad
<1>6. bits \o pad \in Seq(Bits)
  BY <1>5, ConcatProperties
<1>7. bits \o <<>> = bits
  BY ConcatEmptySeq
<1>8. QED
  BY <1>1, <1>2, <1>3, <1>4, <1>5, <1>6, <1>7

\* A set of SPs is one bit for each.
LEMMA SetBitsAre ==
  ASSUME NEW set
  PROVE  /\ SetBits(set) \in Seq(Bits) /\ Len(SetBits(set)) = NSP
         /\ \A i \in 1 .. NSP : SetBits(set)[i] = Bit(i \in set)
<1> DEFINE bits == [i \in 1 .. NSP |-> Bit(SPs[i] \in set)]
<1>1. NSP \in Nat /\ NSP % Byte = 0
  BY TriggerAssumption
<1>2. \A i \in 1 .. NSP : bits[i] = Bit(i \in set)
  BY DEF SPs
<1>3. bits \in Seq(Bits) /\ Len(bits) = NSP
  BY <1>1 DEF Bits, Bit
<1>4. SetBits(set) = PackBits(bits)
  BY DEF SetBits
<1> HIDE DEF bits
<1>5. SetBits(set) = bits
  BY <1>1, <1>3, <1>4, WholeBytes
<1>6. QED
  BY <1>2, <1>3, <1>5

SameBits(bits, set) == \A i \in 1 .. NSP : bits[i] = SetBits(set)[i]

\* The set is read from them, whatever is behind.
LEMMA BitSetIs ==
  ASSUME NEW set, set \subseteq 1 .. NSP, NEW bits, SameBits(bits, set)
  PROVE  BitSet(bits) = set
<1>1. NSP \in Nat
  BY TriggerAssumption
<1>2. \A i \in 1 .. NSP : bits[i] = 1 <=> i \in set
  BY SetBitsAre DEF Bit, SameBits
<1>3. \A i \in 1 .. NSP : SPs[i] = i
  BY DEF SPs
<1>4. BitSet(bits) = {i \in 1 .. NSP : bits[i] = 1}
  BY <1>3 DEF BitSet
<1> HIDE DEF BitSet
<1>5. QED
  BY <1>2, <1>4

\* The bits of the patterns of all SPs, one SP after the other
LEMMA PatternBitsAre ==
  ASSUME NEW patterns \in Seq(SUBSET (1 .. NSP)), patterns # <<>>
  PROVE  /\ PatternBits(SPs, patterns) \in Seq(Bits)
         /\ Len(PatternBits(SPs, patterns)) = NSP * Len(patterns)
         /\ \A r \in 1 .. NSP, t \in 1 .. Len(patterns) :
              PatternBits(SPs, patterns)[(r - 1) * Len(patterns) + t] = Bit(r \in patterns[t])
<1>1. PICK n \in Nat \ {0} : n = Len(patterns)
  BY EmptySeq
<1>2. PICK m \in Nat \ {0}, b \in Nat \ {0} : m = NSP /\ b = Byte /\ m % b = 0
  BY TriggerAssumption
<1> DEFINE bits == [i \in 1 .. m * n |-> Bit(SPs[(i - 1) \div n + 1] \in patterns[((i - 1) % n) + 1])]
<1>3. Len(SPs) = m
  BY <1>2 DEF SPs
<1>4. PatternBits(SPs, patterns) = PackBits(bits)
  BY <1>1, <1>3 DEF PatternBits
<1>5. m * n \in Nat
  OBVIOUS
<1>6. bits \in Seq(Bits) /\ Len(bits) = m * n
  BY <1>5 DEF Bits, Bit
<1>7. (m * n) % b = 0
  <2>1. PICK q \in Nat : m = q * b
    <3>1. m = (m \div b) * b + (m % b) /\ m \div b \in Nat
      OBVIOUS
    <3>2. QED
      BY <1>2, <3>1
  <2>2. m * n = (q * n) * b + 0
    BY <2>1
  <2>3. q * n \in Nat /\ 0 \in 0 .. b - 1
    OBVIOUS
  <2>4. ((q * n) * b + 0) % b = 0
    BY <2>3, Division2
  <2>5. QED
    BY <2>2, <2>4
<1>8. ASSUME NEW r \in 1 .. m, NEW t \in 1 .. n
      PROVE  bits[(r - 1) * n + t] = Bit(r \in patterns[t])
  <2>1. PICK q \in Nat, s \in 0 .. n - 1 : q = r - 1 /\ s = t - 1
    OBVIOUS
  <2>2. PICK x \in Nat : x = q * n + s /\ x + 1 <= m * n
    <3>1. PICK d \in Nat : m = q + 1 + d
      BY <2>1
    <3>2. m * n = q * n + n + d * n
      BY <3>1
    <3>3. q * n \in Nat /\ d * n \in Nat
      OBVIOUS
    <3>4. QED
      BY <3>2, <3>3
  <2>3. x \div n = q /\ x % n = s
    BY <2>2, Division2
  <2>4. x + 1 \in 1 .. m * n /\ x + 1 - 1 = x
    BY <1>5, <2>2
  <2>5. bits[x + 1] = Bit(SPs[x \div n + 1] \in patterns[(x % n) + 1])
    BY <2>4
  <2>6. q + 1 = r /\ s + 1 = t /\ (r - 1) * n + t = x + 1
    BY <2>1, <2>2
  <2>7. SPs[r] = r
    BY <1>2 DEF SPs
  <2>8. QED
    BY <2>3, <2>5, <2>6, <2>7
<1> HIDE DEF bits
<1>9. PackBits(bits) = bits
  BY <1>2, <1>6, <1>7, WholeBytes
<1>10. QED
  BY <1>1, <1>2, <1>4, <1>6, <1>8, <1>9

\* reshape and transpose give the patterns back.
LEMMA ReshapeGives ==
  ASSUME NEW patterns \in Seq(SUBSET (1 .. NSP)), patterns # <<>>
  PROVE  Reshape(PatternBits(SPs, patterns), SPs, Len(patterns)) = patterns
<1>1. PICK n \in Nat \ {0} : n = Len(patterns)
  BY EmptySeq
<1>2. PICK bits : bits = PatternBits(SPs, patterns)
  OBVIOUS
<1>3. \A r \in 1 .. NSP, t \in 1 .. n : bits[(r - 1) * n + t] = Bit(r \in patterns[t])
  BY <1>1, <1>2, PatternBitsAre
<1>4. DOMAIN SPs = 1 .. NSP /\ \A r \in 1 .. NSP : SPs[r] = r
  BY DEF SPs
<1>5. ASSUME NEW t \in 1 .. n
      PROVE  {SPs[r] : r \in {r \in DOMAIN SPs : bits[(r - 1) * n + t] = 1}} = patterns[t]
  <2>1. patterns[t] \in SUBSET (1 .. NSP)
    BY <1>1, ElementOfSeq
  <2>2. \A r \in 1 .. NSP : bits[(r - 1) * n + t] = 1 <=> r \in patterns[t]
    BY <1>3 DEF Bit
  <2>3. QED
    BY <1>4, <2>1, <2>2
<1>6. patterns = [t \in 1 .. n |-> patterns[t]]
  BY <1>1
<1>7. QED
  BY <1>1, <1>2, <1>5, <1>6 DEF Reshape

\* The parts of bits that were put together
LEMMA Parts ==
  ASSUME NEW s \in Seq(Bits), NEW t \in Seq(Bits)
  PROVE  /\ s \o t \in Seq(Bits)
         /\ Len(s) \in Nat /\ Len(t) \in Nat /\ Len(s \o t) = Len(s) + Len(t)
         /\ SubSeq(s \o t, 1, Len(s)) = s
         /\ SubSeq(s \o t, Len(s) + 1, Len(s) + Len(t)) = t
         /\ \A i \in 1 .. Len(s) : (s \o t)[i] = s[i]
<1>1. PICK n \in Nat, m \in Nat : n = Len(s) /\ m = Len(t)
  BY LenProperties
<1>2. PICK z : z = s \o t
  OBVIOUS
<1>3. /\ z \in Seq(Bits) /\ Len(z) = n + m
      /\ \A i \in 1 .. n + m : z[i] = IF i <= n THEN s[i] ELSE t[i - n]
  BY <1>1, <1>2, ConcatProperties
<1>4. \A i \in 1 .. n : z[i] = s[i]
  BY <1>3
<1>5. \A i \in 1 .. m : z[n + i] = t[i]
  <2>1. \A i \in 1 .. m : n + i \in 1 .. n + m /\ ~ n + i <= n /\ n + i - n = i
    OBVIOUS
  <2>2. QED
    BY <1>3, <2>1
<1>6. SubSeq(z, 1, n) = s
  <2>1. \A i \in 1 .. n : z[i] \in Bits /\ z[1 + i - 1] = z[i]
    BY <1>1, <1>4, ElementOfSeq
  <2>2. /\ SubSeq(z, 1, n) \in Seq(Bits) /\ Len(SubSeq(z, 1, n)) = n
        /\ \A i \in 1 .. n : SubSeq(z, 1, n)[i] = z[i]
    BY <1>3, <2>1, SubSeqProperties
  <2>3. QED
    BY <1>1, <1>4, <2>2, SeqEqual
<1>7. SubSeq(z, n + 1, n + m) = t
  <2>1. \A i \in n + 1 .. n + m : z[i] \in Bits
    BY <1>3, ElementOfSeq
  <2>2. PICK a \in Int, b \in Int :
          /\ a = n + 1 /\ b = n + m
          /\ b - a + 1 = m /\ (IF a <= b THEN b - a + 1 ELSE 0) = m
    OBVIOUS
  <2>3. PICK y : y = SubSeq(z, n + 1, n + m)
    OBVIOUS
  <2>4. /\ y \in Seq(Bits) /\ Len(y) = m
        /\ \A i \in 1 .. m : y[i] = z[n + 1 + i - 1]
    <3>1. \A i \in a .. b : z[i] \in Bits
      BY <2>1, <2>2
    <3>2. /\ SubSeq(z, a, b) \in Seq(Bits)
          /\ Len(SubSeq(z, a, b)) = IF a <= b THEN b - a + 1 ELSE 0
          /\ \A i \in 1 .. b - a + 1 : SubSeq(z, a, b)[i] = z[a + i - 1]
      BY <3>1, SubSeqProperties
    <3>3. QED
      BY <2>2, <2>3, <3>2
  <2>5. \A i \in 1 .. m : y[i] = t[i]
    <3>1. \A i \in 1 .. m : n + 1 + i - 1 = n + i
      OBVIOUS
    <3>2. QED
      BY <1>5, <2>4, <3>1
  <2>6. QED
    BY <1>1, <2>3, <2>4, <2>5, SeqEqual
<1>8. QED
  BY <1>1, <1>2, <1>3, <1>4, <1>6, <1>7

\* All SPs triggered if the union has all.
LEMMA TriggeredIs ==
  ASSUME NEW p, p.union \subseteq 1 .. NSP
  PROVE  /\ Triggered(p) = SPs <=> p.union = 1 .. NSP
         /\ Len(Triggered(p)) \in Nat
<1>1. PICK m \in Nat : m = NSP
  BY TriggerAssumption
<1>2. IsFiniteSet(1 .. m) /\ Cardinality(1 .. m) = m
  BY FS_Interval
<1>3. p.union \in SUBSET (1 .. m)
  BY <1>1
<1>4. IsFiniteSet(p.union) /\ Cardinality(p.union) \in Nat
      /\ (Cardinality(1 .. m) = Cardinality(p.union) => 1 .. m = p.union)
  BY <1>2, <1>3, FS_Subset, FS_CardinalityType
<1>5. Len(Triggered(p)) = Cardinality(p.union)
  BY <1>4 DEF Triggered
<1>6. Len(SPs) = m
  BY <1>1 DEF SPs
<1>7. ASSUME p.union = 1 .. m PROVE Triggered(p) = SPs
  <2>1. ASSUME NEW s \in 1 .. m PROVE Cardinality({r \in 1 .. m : r < s}) = s - 1
    <3>1. {r \in 1 .. m : r < s} = 1 .. s - 1
      OBVIOUS
    <3>2. s - 1 \in Nat /\ 1 \in Int /\ s - 1 \in Int
      OBVIOUS
    <3>3. Cardinality(1 .. s - 1) = s - 1
      BY <3>2, FS_Interval
    <3>4. QED
      BY <3>1, <3>3
  <2>2. ASSUME NEW i \in 1 .. m
        PROVE  (CHOOSE s \in 1 .. m : Cardinality({r \in 1 .. m : r < s}) = i - 1) = i
    <3>1. \A s \in 1 .. m : Cardinality({r \in 1 .. m : r < s}) = i - 1 => s = i
      BY <2>1
    <3>2. Cardinality({r \in 1 .. m : r < i}) = i - 1
      BY <2>1
    <3>3. QED
      BY <3>1, <3>2
  <2>3. Triggered(p) = [i \in 1 .. m |-> CHOOSE s \in 1 .. m : Cardinality({r \in 1 .. m : r < s}) = i - 1]
    BY <1>2, <1>7 DEF Triggered
  <2>4. QED
    BY <1>1, <2>2, <2>3 DEF SPs
<1>8. QED
  BY <1>1, <1>2, <1>4, <1>5, <1>6, <1>7

\* Packed patterns of some SPs are bits.
LEMMA PatternBitsType ==
  ASSUME NEW sps, Len(sps) \in Nat, NEW patterns, Len(patterns) \in Nat
  PROVE  PatternBits(sps, patterns) \in Seq(Bits)
<1> DEFINE bits == [i \in 1 .. Len(sps) * Len(patterns) |->
                      Bit(sps[(i - 1) \div Len(patterns) + 1] \in patterns[((i - 1) % Len(patterns)) + 1])]
<1>1. Len(sps) * Len(patterns) \in Nat
  OBVIOUS
<1>2. bits \in Seq(Bits)
  BY <1>1 DEF Bits, Bit
<1>3. PatternBits(sps, patterns) = PackBits(bits)
  BY DEF PatternBits
<1> HIDE DEF bits
<1>4. QED
  BY <1>2, <1>3, WholeBytes

\* A packet of V1 is read back if it has the sixteen samples that unpack takes.
LEMMA RoundTripV1 ==
  ASSUME NEW p, IsPacket(p), CanPack(p), p.mtype \in {NominalV1, BusyV1}
  PROVE  UnpackV1(PackV1(p)) = IF Len(p.patterns) = V1Length THEN Got(p) ELSE Raised
<1> DEFINE raw == PackV1(p)
<1>1. PICK a, b : a = PatternBits(SPs, p.patterns) /\ b = SetBits(p.union)
  OBVIOUS
<1>2. /\ p = PacketV1(p.mtype, p.phase, p.patterns, p.union, p.fields)
      /\ p.patterns \in Seq(SUBSET (1 .. NSP)) /\ p.patterns # <<>>
      /\ p.union \subseteq 1 .. NSP
  BY DEF IsPacket
<1>3. PICK m \in Nat \ {0}, n \in Nat \ {0}, v \in Nat :
        m = NSP /\ n = Len(p.patterns) /\ v = V1Length
  <2>1. Len(p.patterns) \in Nat \ {0}
    <3>1. Len(p.patterns) # 0 /\ Len(p.patterns) \in Nat
      BY <1>2, EmptySeq, LenProperties
    <3>2. QED
      BY <3>1
  <2>2. V1Length \in Nat /\ NSP \in Nat \ {0}
    BY TriggerAssumption DEF V1Length
  <2>3. QED
    BY <2>1, <2>2
<1>4. a \in Seq(Bits) /\ b \in Seq(Bits) /\ Len(a) = m * n /\ Len(b) = m
  BY <1>1, <1>2, <1>3, PatternBitsAre, SetBitsAre
<1>5. PICK z : z = a \o b
  OBVIOUS
<1>6. /\ raw.bits = z /\ raw.mtype = p.mtype /\ raw.fields = p.fields
      /\ raw.phase = ReverseBits(p.phase)
  BY <1>1, <1>5 DEF PackV1
<1> HIDE DEF raw
<1>7. m * n \in Nat /\ m * v \in Nat /\ v * m = m * v
  OBVIOUS
<1>8. /\ Len(z) = m * n + m
      /\ SubSeq(z, 1, m * n) = a /\ SubSeq(z, m * n + 1, m * n + m) = b
  <2>1. /\ Len(a \o b) = Len(a) + Len(b) /\ SubSeq(a \o b, 1, Len(a)) = a
        /\ SubSeq(a \o b, Len(a) + 1, Len(a) + Len(b)) = b
    BY <1>4, Parts
  <2>2. QED
    BY <1>4, <1>5, <2>1
<1>9. raw.phase \in Phases /\ ReverseBits(raw.phase) = p.phase
  BY <1>6, ReversedTwice DEF CanPack
<1>10. Len(raw.bits) - NSP = m * n
  BY <1>3, <1>6, <1>7, <1>8
<1>11. CASE n # v
  <2>1. m * n # m * v
    <3>1. CASE n < v
      <4>1. PICK d \in Nat \ {0} : v = n + d
        <5>1. v - n \in Nat \ {0} /\ v = n + (v - n)
          BY <3>1
        <5>2. QED
          BY <5>1
      <4>2. m * v = m * n + m * d /\ m * d # 0 /\ m * d \in Nat
        BY <4>1
      <4>3. QED
        BY <1>7, <4>2
    <3>2. CASE v < n
      <4>1. PICK d \in Nat \ {0} : n = v + d
        <5>1. n - v \in Nat \ {0} /\ n = v + (n - v)
          BY <3>2
        <5>2. QED
          BY <5>1
      <4>2. m * n = m * v + m * d /\ m * d # 0 /\ m * d \in Nat
        BY <4>1
      <4>3. QED
        BY <1>7, <4>2
    <3>3. QED
      BY <1>11, <3>1, <3>2
  <2>2. UnpackV1(raw) = Raised
    BY <1>3, <1>10, <2>1 DEF UnpackV1
  <2>3. QED
    BY <1>3, <1>11, <2>2 DEF raw
<1>12. CASE n = v
  <2>1. SubSeq(raw.bits, V1Length * NSP + 1, Len(raw.bits)) = b
    BY <1>3, <1>6, <1>7, <1>8, <1>12
  <2>2. BitSet(b) = p.union
    <3>1. SameBits(b, p.union)
      BY <1>1 DEF SameBits
    <3>2. QED
      BY <1>2, <3>1, BitSetIs
  <2>3. Reshape(SubSeq(raw.bits, 1, m * n), SPs, V1Length) = p.patterns
    BY <1>1, <1>2, <1>3, <1>6, <1>8, <1>12, ReshapeGives
  <2>4. UnpackV1(raw) = Got(PacketV1(p.mtype, p.phase, p.patterns, p.union, p.fields))
    BY <1>3, <1>6, <1>9, <1>10, <1>12, <2>1, <2>2, <2>3 DEF UnpackV1
  <2>5. QED
    BY <1>2, <1>3, <1>12, <2>4 DEF raw
<1>13. QED
  BY <1>11, <1>12

\* Of V2 it must have samples in whole bytes, of V3 all SPs triggered as well.
LEMMA RoundTripV2 ==
  ASSUME NEW p, IsPacket(p), CanPack(p), p.mtype \in {V2, V3}
  PROVE  UnpackV2(PackV2(p)) = IF Readable(p) THEN Got(p) ELSE Raised
<1> DEFINE raw == PackV2(p)
           sps == IF p.mtype = V3 THEN Triggered(p) ELSE SPs
<1>1. PICK a, b : a = PatternBits(sps, p.patterns) /\ b = SetBits(p.union)
  OBVIOUS
<1>2. /\ p = PacketV1(p.mtype, p.phase, p.patterns, p.union, p.fields)
      /\ p.patterns \in Seq(SUBSET (1 .. NSP)) /\ p.patterns # <<>>
      /\ p.union \subseteq 1 .. NSP
      /\ p.union = UNION {p.patterns[t] : t \in DOMAIN p.patterns}
  BY DEF IsPacket
<1>3. PICK m \in Nat \ {0}, n \in Nat \ {0}, q \in Nat, c \in Nat \ {0} :
        m = NSP /\ n = Len(p.patterns) /\ c = Byte /\ q = n \div c
  <2>1. PICK n \in Nat \ {0} : n = Len(p.patterns)
    <3>1. Len(p.patterns) # 0 /\ Len(p.patterns) \in Nat
      BY <1>2, EmptySeq, LenProperties
    <3>2. QED
      BY <3>1
  <2>2. PICK m \in Nat \ {0}, c \in Nat \ {0} : m = NSP /\ c = Byte
    BY TriggerAssumption
  <2>3. n \div c \in Nat
    OBVIOUS
  <2>4. QED
    BY <2>1, <2>2, <2>3
<1>4. V2 # V3 /\ V2 \notin {NominalV1, BusyV1} /\ V3 \notin {NominalV1, BusyV1}
  BY DEF V2, V3, NominalV1, BusyV1
<1>5. /\ Readable(p) <=> n % c = 0 /\ (p.mtype = V3 => Triggered(p) = SPs)
  BY <1>3, <1>4 DEF Readable
<1>6. Len(SPs) = m /\ SPs = [i \in 1 .. m |-> i]
  BY <1>3 DEF SPs
<1>7. a \in Seq(Bits) /\ b \in Seq(Bits) /\ Len(b) = m
  <2>1. Len(sps) \in Nat
    BY <1>2, <1>6, TriggeredIs
  <2>2. a \in Seq(Bits)
    BY <1>1, <1>3, <2>1, PatternBitsType
  <2>3. QED
    BY <1>1, <1>3, <2>2, SetBitsAre
<1>8. PICK z : z = b \o a
  OBVIOUS
<1>9. /\ raw.bits = z /\ raw.mtype = p.mtype /\ raw.fields = p.fields
      /\ raw.phase = ReverseBits(p.phase) /\ raw.blocks = q
  BY <1>1, <1>3, <1>8 DEF PackV2
<1> HIDE DEF raw, sps
<1>10. PICK l \in Nat : l = Len(a)
  BY <1>7, LenProperties
<1>11. /\ Len(z) = m + l
       /\ SubSeq(z, m + 1, m + l) = a
       /\ \A i \in 1 .. m : z[i] = b[i]
  BY <1>7, <1>8, <1>10, Parts
<1>12. BitSet(raw.bits) = p.union
  <2>1. SameBits(raw.bits, p.union)
    BY <1>1, <1>3, <1>9, <1>11 DEF SameBits
  <2>2. QED
    BY <1>2, <2>1, BitSetIs
<1>13. raw.phase \in Phases /\ ReverseBits(raw.phase) = p.phase
  BY <1>9, ReversedTwice DEF CanPack
<1>14. {SPs[i] : i \in 1 .. NSP} = 1 .. NSP
  BY <1>3, <1>6
<1>15. CASE p.mtype = V3 /\ Triggered(p) # SPs
  <2>1. p.union # 1 .. NSP
    BY <1>2, <1>15, TriggeredIs
  <2>2. BitSet(raw.bits) # {SPs[i] : i \in 1 .. NSP}
    BY <1>12, <1>14, <2>1
  <2>3. UnpackV2(raw) = Raised
    BY <1>9, <1>15, <2>2 DEF UnpackV2
  <2>4. QED
    BY <1>5, <1>15, <2>3 DEF raw
<1>16. CASE p.mtype = V3 => Triggered(p) = SPs
  <2>1. sps = SPs
    BY <1>16 DEF sps
  <2>2. l = m * n
    BY <1>1, <1>2, <1>3, <1>10, <2>1, PatternBitsAre
  <2>3. SubSeq(raw.bits, NSP + 1, Len(raw.bits)) = a /\ Len(a) = m * n
    BY <1>3, <1>9, <1>10, <1>11, <2>2
  <2>4. p.mtype = V3 => BitSet(raw.bits) = {SPs[i] : i \in 1 .. NSP}
    <3>1. p.mtype = V3 => p.union = 1 .. NSP
      BY <1>2, <1>16, TriggeredIs
    <3>2. QED
      BY <1>12, <1>14, <3>1
  <2>5. PICK r \in 0 .. c - 1 : r = n % c /\ n = q * c + r
    <3>1. n = (n \div c) * c + (n % c) /\ n % c \in 0 .. c - 1
      OBVIOUS
    <3>2. QED
      BY <1>3, <3>1
  <2>6. CASE r = 0
    <3>1. q * c = n
      BY <2>5, <2>6
    <3>2. Reshape(a, SPs, n) = p.patterns
      BY <1>1, <1>2, <1>3, <2>1, ReshapeGives
    <3>3. UnpackV2(raw) = Got(PacketV2(p.mtype, p.phase, p.patterns, p.fields))
      BY <1>3, <1>9, <1>13, <2>3, <2>4, <3>1, <3>2 DEF UnpackV2
    <3>4. PacketV2(p.mtype, p.phase, p.patterns, p.fields) = p
      BY <1>2 DEF PacketV2
    <3>5. QED
      BY <1>3, <1>5, <1>16, <2>5, <2>6, <3>3, <3>4 DEF raw
  <2>7. CASE r # 0
    <3>1. m * n # m * (q * c)
      <4>1. PICK d \in Nat : d = q * c /\ n = d + r
        BY <2>5
      <4>2. m * n = m * d + m * r /\ m * r # 0 /\ m * r \in Nat /\ m * d \in Nat
        BY <2>7, <4>1
      <4>3. QED
        BY <4>1, <4>2
    <3>2. UnpackV2(raw) = Raised
      BY <1>3, <1>9, <2>3, <3>1 DEF UnpackV2
    <3>3. QED
      BY <1>3, <1>5, <2>5, <2>7, <3>2 DEF raw
  <2>8. QED
    BY <2>6, <2>7
<1>17. QED
  BY <1>15, <1>16

\* unpack gives the packet that was packed if it is readable, and raises if it is not.
LEMMA RoundTrip ==
  ASSUME NEW p \in Packets
  PROVE  Unpack(Pack(p)) = IF Readable(p) THEN Got(p) ELSE Raised
<1>1. IsPacket(p) /\ CanPack(p)
  BY DataAssumption
<1>2. V2 # V3 /\ V2 \notin {NominalV1, BusyV1} /\ V3 \notin {NominalV1, BusyV1}
  BY DEF V2, V3, NominalV1, BusyV1
<1>3. CASE p.mtype \in {NominalV1, BusyV1}
  <2>1. Pack(p) = PackV1(p) /\ PackV1(p).marked /\ PackV1(p).mtype = p.mtype
    BY <1>3 DEF Pack, PackV1
  <2>2. Readable(p) <=> Len(p.patterns) = V1Length
    BY <1>2, <1>3 DEF Readable
  <2>3. Unpack(Pack(p)) = UnpackV1(PackV1(p))
    BY <1>2, <1>3, <2>1 DEF Unpack
  <2>4. QED
    BY <1>1, <1>3, <2>2, <2>3, RoundTripV1
<1>4. CASE p.mtype \in {V2, V3}
  <2>1. Pack(p) = PackV2(p) /\ PackV2(p).marked /\ PackV2(p).mtype = p.mtype
    BY <1>2, <1>4 DEF Pack, PackV2
  <2>2. Unpack(Pack(p)) = UnpackV2(PackV2(p))
    BY <1>2, <1>4, <2>1 DEF Unpack
  <2>3. QED
    BY <1>1, <1>4, <2>2, RoundTripV2
<1>5. QED
  BY <1>1, <1>3, <1>4 DEF IsPacket, MessageTypes


-----------------------------------------------------------------------------
(* Logs: what is parsed of a piece *)

NF == Len(LogFields)

\* The fields of a log have a place each.
LEMMA FieldPlaces ==
  /\ NF \in Nat \ {0} /\ DOMAIN LogFields = 1 .. NF
  /\ \A j \in 1 .. NF : /\ LogFields[j] \in Range(LogFields)
                        /\ (CHOOSE i \in DOMAIN LogFields : LogFields[i] = LogFields[j]) = j
  /\ \A i, j \in 1 .. NF : LogFields[i] = LogFields[j] => i = j
  /\ \A f \in Range(LogFields) : \E j \in 1 .. NF : f = LogFields[j]
<1>1. /\ LogFields \in Seq(Range(LogFields)) /\ LogFields # <<>>
      /\ \A i, j \in DOMAIN LogFields : LogFields[i] = LogFields[j] => i = j
  BY LogAssumption
<1>2. NF \in Nat /\ NF # 0 /\ DOMAIN LogFields = 1 .. NF
  BY <1>1, LenProperties, EmptySeq DEF NF
<1>3. Range(LogFields) = {LogFields[i] : i \in 1 .. NF}
  BY <1>2 DEF Range
<1>4. QED
  BY <1>1, <1>2, <1>3

\* The last index at which a field has a name
LastOf(fields, f) ==
  LET I == {i \in 1 .. Len(fields) : fields[i].field = f}
  IN  IF I # {} THEN Max(I) ELSE 0

\* Parsing takes of each field the last.
LEMMA ParseIs ==
  ASSUME NEW piece
  PROVE  Parse(piece) = [f \in Range(LogFields) |-> piece.fields[LastOf(piece.fields, f)].value]
  BY DEF Parse, SelectLastInSeq, LastOf

IsLastAt(fields, f, k) ==
  /\ k \in 1 .. Len(fields) /\ fields[k].field = f
  /\ \A i \in 1 .. Len(fields) : k < i => fields[i].field # f

\* It is where a field of the name comes last.
LEMMA LastIndex ==
  ASSUME NEW fields, NEW f, NEW k, Len(fields) \in Nat, IsLastAt(fields, f, k)
  PROVE  LastOf(fields, f) = k
<1> DEFINE I == {i \in 1 .. Len(fields) : fields[i].field = f}
<1>1. k \in I /\ \A i \in I : k >= i
  BY DEF IsLastAt
<1>2. \A i \in I : (\A j \in I : i >= j) => i = k
  BY <1>1
<1>3. Max(I) = k
  BY <1>1, <1>2 DEF Max
<1>4. QED
  BY <1>1, <1>3 DEF LastOf

\* The last fields are those of a log, in order.
EndsInLog(fields) ==
  /\ Len(fields) \in Nat /\ Len(fields) >= NF
  /\ \A j \in 1 .. NF : fields[Len(fields) - NF + j].field = LogFields[j]

LastLogOf(fields) ==
  [f \in Range(LogFields) |->
     LET at == CHOOSE j \in DOMAIN LogFields : LogFields[j] = f
     IN  fields[Len(fields) - NF + at].value]

\* Such a piece is parsed, to its last log.
LEMMA ParsesLastLog ==
  ASSUME NEW piece, EndsInLog(piece.fields)
  PROVE  Parse(piece) = LastLogOf(piece.fields)
<1>1. PICK n \in Nat, m \in Nat \ {0}, d \in Nat : n = Len(piece.fields) /\ m = NF /\ d = n - m
  <2>1. Len(piece.fields) - NF \in Nat
    BY FieldPlaces DEF EndsInLog
  <2>2. QED
    BY <2>1, FieldPlaces DEF EndsInLog
<1>2. PICK fields : fields = piece.fields
  OBVIOUS
<1>3. \A j \in 1 .. m : fields[d + j].field = LogFields[j]
  BY <1>1, <1>2 DEF EndsInLog
<1>4. ASSUME NEW j \in 1 .. m
      PROVE  LastOf(fields, LogFields[j]) = d + j
  <2>1. d + j \in 1 .. n /\ fields[d + j].field = LogFields[j]
    BY <1>1, <1>3
  <2>2. ASSUME NEW i \in 1 .. n, d + j < i PROVE fields[i].field # LogFields[j]
    <3>1. PICK k \in 1 .. m : i = d + k /\ k # j
      <4>1. i - d \in 1 .. m /\ i = d + (i - d) /\ i - d # j
        <5>1. n = d + m
          BY <1>1
        <5>2. QED
          BY <2>2, <5>1
      <4>2. QED
        BY <4>1
    <3>2. fields[i].field = LogFields[k]
      BY <1>3, <3>1
    <3>3. LogFields[k] # LogFields[j]
      BY <1>1, <3>1, FieldPlaces
    <3>4. QED
      BY <3>2, <3>3
  <2>3. IsLastAt(fields, LogFields[j], d + j)
    BY <1>1, <1>2, <2>1, <2>2 DEF IsLastAt
  <2>4. QED
    BY <1>1, <1>2, <2>3, LastIndex
<1>5. ASSUME NEW f \in Range(LogFields)
      PROVE  fields[LastOf(fields, f)].value
               = fields[d + CHOOSE j \in DOMAIN LogFields : LogFields[j] = f].value
  <2>1. PICK j \in 1 .. m : f = LogFields[j]
    BY <1>1, FieldPlaces
  <2>2. (CHOOSE i \in DOMAIN LogFields : LogFields[i] = f) = j
    BY <1>1, <2>1, FieldPlaces
  <2>3. QED
    BY <1>4, <2>1, <2>2
<1>6. Len(fields) - NF = d
  BY <1>1, <1>2
<1>7. QED
  BY <1>2, <1>5, <1>6, ParseIs DEF LastLogOf

\* A log that was parsed is parsed again to the same.
LEMMA LogReadAgain ==
  ASSUME NEW log, log = [f \in Range(LogFields) |-> log[f]]
  PROVE  Parseable(LogPiece(log)) /\ Parse(LogPiece(log)) = log
<1> DEFINE piece == LogPiece(log)
<1>1. /\ piece.fields = MakePickle(log) /\ piece.torn = FALSE
      /\ MakePickle(log) = [i \in 1 .. NF |-> Field(LogFields[i], log[LogFields[i]])]
  BY FieldPlaces DEF LogPiece, MakePickle
<1> HIDE DEF piece
<1>2. PICK m \in Nat \ {0} : m = NF
  BY FieldPlaces
<1>3. PICK fields : fields = piece.fields
  OBVIOUS
<1>4. /\ Len(fields) = m /\ DOMAIN fields = 1 .. m
      /\ \A i \in 1 .. m : fields[i].field = LogFields[i] /\ fields[i].value = log[LogFields[i]]
  BY <1>1, <1>2, <1>3 DEF Field
<1>5. \A j \in 1 .. m : m - m + j = j
  OBVIOUS
<1>6. EndsInLog(fields)
  BY <1>2, <1>4, <1>5 DEF EndsInLog
<1>7. Parseable(piece)
  <2>1. ASSUME NEW f \in Range(LogFields) PROVE \E i \in DOMAIN fields : fields[i].field = f
    <3>1. PICK j \in 1 .. m : f = LogFields[j]
      BY <1>2, FieldPlaces
    <3>2. QED
      BY <1>4, <3>1
  <2>2. QED
    BY <1>1, <1>3, <2>1 DEF Parseable
<1>8. ASSUME NEW f \in Range(LogFields)
      PROVE  LET at == CHOOSE j \in DOMAIN LogFields : LogFields[j] = f
             IN  fields[Len(fields) - NF + at].value = log[f]
  <2>1. PICK j \in 1 .. m : f = LogFields[j]
    BY <1>2, FieldPlaces
  <2>2. (CHOOSE i \in DOMAIN LogFields : LogFields[i] = f) = j
    BY <1>2, <2>1, FieldPlaces
  <2>3. QED
    BY <1>2, <1>4, <1>5, <2>1, <2>2
<1>9. LastLogOf(fields) = log
  BY <1>8 DEF LastLogOf
<1>10. QED
  BY <1>3, <1>6, <1>7, <1>9, ParsesLastLog DEF piece

-----------------------------------------------------------------------------
(* Logs: the fields on a connection *)

Values == UNION {{log[f] : f \in Range(LogFields)} : log \in Logs}
FieldSet == [field : Range(LogFields), value : Values]
PieceSet == [fields : Seq(FieldSet), torn : BOOLEAN]

\* The field that comes after x others, and fields that go on from there
FieldAt(x) == LogFields[(x % NF) + 1]
GoOn(fields, x) == \A k \in 1 .. Len(fields) : fields[k].field = FieldAt(x + k - 1)

\* A log goes on after whole logs.
LEMMA PickleGoesOn ==
  ASSUME NEW log \in Logs, NEW x \in Nat, x % NF = 0
  PROVE  MakePickle(log) \in Seq(FieldSet) /\ Len(MakePickle(log)) = NF /\ GoOn(MakePickle(log), x)
<1>1. PICK m \in Nat \ {0} : m = NF
  BY FieldPlaces
<1>2. PICK fields : fields = MakePickle(log)
  OBVIOUS
<1>3. fields = [i \in 1 .. m |-> Field(LogFields[i], log[LogFields[i]])]
  BY <1>1, <1>2, FieldPlaces DEF MakePickle
<1>4. \A i \in 1 .. m : Field(LogFields[i], log[LogFields[i]]) \in FieldSet
  <2>1. ASSUME NEW f \in Range(LogFields) PROVE log[f] \in Values
    BY DEF Values
  <2>2. QED
    BY <1>1, <2>1, FieldPlaces DEF FieldSet, Field
<1>5. fields \in Seq(FieldSet) /\ Len(fields) = m
  BY <1>3, <1>4
<1>6. PICK q \in Nat : x = q * m
  <2>1. x = (x \div m) * m + (x % m) /\ x \div m \in Nat
    OBVIOUS
  <2>2. QED
    BY <1>1, <2>1
<1>7. ASSUME NEW k \in 1 .. m PROVE fields[k].field = FieldAt(x + k - 1)
  <2>1. PICK r \in 0 .. m - 1 : r = k - 1 /\ r + 1 = k
    <3>1. k - 1 \in 0 .. m - 1 /\ k - 1 + 1 = k
      OBVIOUS
    <3>2. QED
      BY <3>1
  <2>2. (q * m + r) % m = r
    BY Division2
  <2>3. q * m \in Nat
    OBVIOUS
  <2>4. x + k - 1 = q * m + r
    BY <1>6, <2>1, <2>3
  <2>5. FieldAt(x + k - 1) = LogFields[k]
    BY <1>1, <2>1, <2>2, <2>4 DEF FieldAt
  <2>6. QED
    BY <1>3, <2>5 DEF Field
<1>8. QED
  BY <1>1, <1>2, <1>5, <1>7 DEF GoOn

\* What goes on after what goes on
LEMMA GoOnConcat ==
  ASSUME NEW s \in Seq(FieldSet), NEW t \in Seq(FieldSet), NEW x \in Nat,
         GoOn(s, x), GoOn(t, x + Len(s))
  PROVE  GoOn(s \o t, x) /\ s \o t \in Seq(FieldSet) /\ Len(s \o t) = Len(s) + Len(t)
<1>1. PICK n \in Nat, m \in Nat : n = Len(s) /\ m = Len(t)
  BY LenProperties
<1>2. PICK z : z = s \o t
  OBVIOUS
<1>3. /\ z \in Seq(FieldSet) /\ Len(z) = n + m
      /\ \A i \in 1 .. n + m : z[i] = IF i <= n THEN s[i] ELSE t[i - n]
  BY <1>1, <1>2, ConcatProperties
<1>4. ASSUME NEW k \in 1 .. n + m PROVE z[k].field = FieldAt(x + k - 1)
  <2>1. CASE k <= n
    BY <1>1, <1>3, <2>1 DEF GoOn
  <2>2. CASE ~ k <= n
    <3>1. PICK j \in 1 .. m : j = k - n
      BY <2>2
    <3>2. x + n + j - 1 = x + k - 1
      BY <3>1
    <3>3. t[j].field = FieldAt(x + n + j - 1)
      BY <1>1, <3>1 DEF GoOn
    <3>4. QED
      BY <1>3, <2>2, <3>1, <3>2, <3>3
  <2>3. QED
    BY <2>1, <2>2
<1>5. QED
  BY <1>1, <1>2, <1>3, <1>4 DEF GoOn

\* The first n fields and the rest
LEMMA GoOnSplit ==
  ASSUME NEW s \in Seq(FieldSet), NEW x \in Nat, GoOn(s, x), NEW n \in 0 .. Len(s)
  PROVE  /\ SubSeq(s, 1, n) \in Seq(FieldSet) /\ Len(SubSeq(s, 1, n)) = n
         /\ GoOn(SubSeq(s, 1, n), x)
         /\ SubSeq(s, n + 1, Len(s)) \in Seq(FieldSet)
         /\ Len(SubSeq(s, n + 1, Len(s))) = Len(s) - n
         /\ GoOn(SubSeq(s, n + 1, Len(s)), x + n)
<1>1. PICK m \in Nat : m = Len(s)
  BY LenProperties
<1>2. PICK l \in Nat : l = m - n /\ m = n + l
  <2>1. m - n \in Nat /\ m = n + (m - n)
    BY <1>1
  <2>2. QED
    BY <2>1
<1>3. n \in Nat
  BY <1>1
<1>4. PICK y, z : y = SubSeq(s, 1, n) /\ z = SubSeq(s, n + 1, m)
  OBVIOUS
<1>5. \A i \in 1 .. m : s[i] \in FieldSet
  BY <1>1, ElementOfSeq
<1>6. /\ y \in Seq(FieldSet) /\ Len(y) = n
      /\ \A i \in 1 .. n : y[i] = s[i]
  <2>1. y = [i \in 1 .. n |-> s[i]]
    BY <1>3, <1>4
  <2>2. \A i \in 1 .. n : s[i] \in FieldSet
    BY <1>2, <1>3, <1>5
  <2>3. QED
    BY <1>3, <2>1, <2>2
<1>7. /\ z \in Seq(FieldSet) /\ Len(z) = l
      /\ \A i \in 1 .. l : z[i] = s[n + i]
  <2>1. z = [i \in 1 .. l |-> s[n + i]]
    <3>1. PICK a \in Int, b \in Int : a = n + 1 /\ b = m /\ b - a + 1 = l
      BY <1>2, <1>3
    <3>2. SubSeq(s, a, b) = [i \in 1 .. b - a + 1 |-> s[a + i - 1]]
      BY DEF SubSeq
    <3>3. \A i \in 1 .. l : a + i - 1 = n + i
      BY <1>3, <3>1
    <3>4. QED
      BY <1>4, <3>1, <3>2, <3>3
  <2>2. \A i \in 1 .. l : s[n + i] \in FieldSet
    BY <1>2, <1>3, <1>5
  <2>3. QED
    BY <2>1, <2>2
<1>8. GoOn(y, x)
  BY <1>1, <1>2, <1>3, <1>6 DEF GoOn
<1>9. GoOn(z, x + n)
  <2>1. ASSUME NEW k \in 1 .. l PROVE z[k].field = FieldAt(x + n + k - 1)
    <3>1. n + k \in 1 .. m /\ x + (n + k) - 1 = x + n + k - 1
      BY <1>2, <1>3
    <3>2. s[n + k].field = FieldAt(x + (n + k) - 1)
      BY <1>1, <3>1 DEF GoOn
    <3>3. QED
      BY <1>7, <3>1, <3>2
  <2>2. QED
    BY <1>7, <2>1 DEF GoOn
<1>10. QED
  BY <1>1, <1>2, <1>4, <1>6, <1>7, <1>8, <1>9

\* Of fields that end where a log does the last are those of one log.
LEMMA GoOnEnds ==
  ASSUME NEW s \in Seq(FieldSet), NEW x \in Nat, GoOn(s, x), (x + Len(s)) % NF = 0, Len(s) >= NF
  PROVE  EndsInLog(s)
<1>1. PICK m \in Nat \ {0}, n \in Nat, d \in Nat : m = NF /\ n = Len(s) /\ d = n - m /\ n = d + m
  <2>1. NF \in Nat \ {0} /\ Len(s) \in Nat
    BY FieldPlaces, LenProperties
  <2>2. Len(s) - NF \in Nat /\ Len(s) = Len(s) - NF + NF
    BY <2>1
  <2>3. QED
    BY <2>1, <2>2
<1>2. PICK q \in Nat : x + d = q * m
  <2>1. PICK p \in Nat : x + n = p * m
    <3>1. PICK y \in Nat : y = x + n
      OBVIOUS
    <3>2. y = (y \div m) * m + (y % m) /\ y \div m \in Nat
      OBVIOUS
    <3>3. y % m = 0
      <4>1. y = x + Len(s) /\ m = NF
        BY <1>1, <3>1
      <4>2. QED
        BY <4>1, Zenon
    <3>4. PICK p \in Nat, r \in Nat : p = y \div m /\ r = y % m
      BY <3>2, <3>3
    <3>5. y = p * m + r /\ r = 0 /\ p * m \in Nat
      BY <3>2, <3>3, <3>4
    <3>6. x + n = p * m
      BY <3>1, <3>5
    <3>7. QED
      BY <3>6
  <2>2. p # 0
    BY <1>1, <2>1
  <2>3. PICK q \in Nat : p = q + 1
    <3>1. p - 1 \in Nat /\ p = p - 1 + 1
      BY <2>2
    <3>2. QED
      BY <3>1
  <2>4. PICK z \in Nat : z = q * m /\ p * m = z + m
    BY <2>3
  <2>5. x + d = z
    BY <1>1, <2>1, <2>4
  <2>6. QED
    BY <2>4, <2>5
<1>3. ASSUME NEW j \in 1 .. m PROVE s[n - m + j].field = LogFields[j]
  <2>1. PICK r \in 0 .. m - 1 : r = j - 1 /\ r + 1 = j
    <3>1. j - 1 \in 0 .. m - 1 /\ j - 1 + 1 = j
      OBVIOUS
    <3>2. QED
      BY <3>1
  <2>2. (q * m + r) % m = r
    BY Division2
  <2>3. d + j \in 1 .. n /\ n - m + j = d + j
    BY <1>1
  <2>4. x + (d + j) - 1 = q * m + r
    BY <1>2, <2>1
  <2>5. s[d + j].field = FieldAt(x + (d + j) - 1)
    BY <1>1, <2>3 DEF GoOn
  <2>6. QED
    BY <1>1, <2>1, <2>2, <2>3, <2>4, <2>5 DEF FieldAt
<1>4. QED
  BY <1>1, <1>3 DEF EndsInLog

\* The numbers of fields in the first pieces are a running sum.
LEMMA FieldsSum ==
  ASSUME NEW s \in Seq(PieceSet), NEW n \in 0 .. Len(s)
  PROVE  \E h, w : /\ w = [j \in 1 .. n |-> Len(s[j].fields)] /\ w \in [1 .. n -> Nat]
                   /\ Sums(h, n, 0, w) /\ FieldsUpTo(s, n) = h[n + 1]
<1> DEFINE w == [j \in 1 .. n |-> Len(s[j].fields)]
           h == CHOOSE g : g = [j \in 1 .. n + 1 |-> IF j = 1 THEN 0 ELSE g[j - 1] + w[j - 1]]
<1>1. n \in Nat
  BY LenProperties
<1>2. FieldsUpTo(s, n) = h[n + 1]
  BY DEF FieldsUpTo
<1>3. w \in [1 .. n -> Nat]
  <2>1. \A j \in 1 .. n : s[j] \in PieceSet
    BY LenProperties, ElementOfSeq
  <2>2. \A j \in 1 .. n : Len(s[j].fields) \in Nat
    BY <2>1, LenProperties DEF PieceSet
  <2>3. QED
    BY <2>2
<1>4. h = CHOOSE g : g = [j \in 1 .. n + 1 |-> IF j = 1 THEN 0 ELSE g[j - 1] + w[j - 1]]
  OBVIOUS
<1>5. w = [j \in 1 .. n |-> Len(s[j].fields)]
  OBVIOUS
<1> HIDE DEF h, w
<1>6. Sums(h, n, 0, w)
  BY <1>1, <1>3, <1>4, RunningSum
<1>7. QED
  BY <1>2, <1>3, <1>5, <1>6

\* No pieces have no fields.
LEMMA NoFields ==
  ASSUME NEW s \in Seq(PieceSet)
  PROVE  FieldsUpTo(s, 0) = 0
<1>1. 0 \in 0 .. Len(s)
  BY LenProperties
<1>2. PICK h, w : Sums(h, 0, 0, w) /\ FieldsUpTo(s, 0) = h[0 + 1]
  BY <1>1, FieldsSum
<1>3. QED
  BY <1>2 DEF Sums

\* One piece more has its fields more; the first pieces may be those of another stream.
LEMMA FieldsGoOn ==
  ASSUME NEW s \in Seq(PieceSet), NEW t \in Seq(PieceSet), NEW n \in Nat,
         n + 1 <= Len(s), n <= Len(t), Agree(s, t, n)
  PROVE  /\ FieldsUpTo(t, n) \in Nat
         /\ FieldsUpTo(s, n + 1) = FieldsUpTo(t, n) + Len(s[n + 1].fields)
<1>1. n + 1 \in 0 .. Len(s) /\ n \in 0 .. Len(t) /\ n + 1 \in Nat
  BY LenProperties
<1>2. PICK f, v :
        /\ v = [j \in 1 .. n + 1 |-> Len(s[j].fields)] /\ v \in [1 .. n + 1 -> Nat]
        /\ Sums(f, n + 1, 0, v) /\ FieldsUpTo(s, n + 1) = f[n + 1 + 1]
  BY <1>1, FieldsSum
<1>3. PICK h, w :
        /\ w = [j \in 1 .. n |-> Len(t[j].fields)] /\ w \in [1 .. n -> Nat]
        /\ Sums(h, n, 0, w) /\ FieldsUpTo(t, n) = h[n + 1]
  BY <1>1, FieldsSum
<1>4. Agree(v, w, n)
  BY <1>2, <1>3 DEF Agree
<1>5. f[n + 1] = h[n + 1] /\ h[n + 1] \in Nat
  <2>1. n <= n + 1 /\ n + 1 \in 1 .. n + 1 /\ 0 \in Nat
    OBVIOUS
  <2>2. Agree(f, h, n + 1)
    BY <1>1, <1>2, <1>3, <1>4, <2>1, SumsAgree, Zenon
  <2>3. QED
    BY <1>3, <2>1, <2>2 DEF Sums, Agree
<1>6. f[n + 1 + 1] = f[n + 1] + v[n + 1]
  <2>1. n + 1 \in 1 .. n + 1
    OBVIOUS
  <2>2. QED
    BY <1>2, <2>1 DEF Sums
<1>7. v[n + 1] = Len(s[n + 1].fields)
  BY <1>2
<1>8. QED
  BY <1>2, <1>3, <1>5, <1>6, <1>7

\* Streams that begin alike have the same fields there.
LEMMA FieldsSame ==
  ASSUME NEW s, NEW t, NEW n \in Nat, Agree(s, t, n)
  PROVE  FieldsUpTo(s, n) = FieldsUpTo(t, n)
<1> DEFINE w(u) == [j \in 1 .. n |-> Len(u[j].fields)]
           H(v) == (CHOOSE g : g = [j \in 1 .. n + 1 |-> IF j = 1 THEN 0 ELSE g[j - 1] + v[j - 1]])[n + 1]
<1>1. FieldsUpTo(s, n) = H(w(s)) /\ FieldsUpTo(t, n) = H(w(t))
  BY DEF FieldsUpTo
<1>2. w(s) = w(t)
  BY DEF Agree
<1> HIDE DEF w, H
<1>3. QED
  BY <1>1, <1>2

\* What a connection has brought and has on its way are whole logs, piece by piece.
LogRight(s, w) ==
  /\ s \in Seq(PieceSet) /\ w \in Seq(FieldSet)
  /\ (FieldsUpTo(s, Len(s)) + Len(w)) % NF = 0
  /\ GoOn(w, FieldsUpTo(s, Len(s)))
  /\ \A i \in 1 .. Len(s) : GoOn(s[i].fields, FieldsUpTo(s, i - 1))

\* The fields before each piece are counted.
LEMMA FieldsCount ==
  ASSUME NEW s \in Seq(PieceSet)
  PROVE  /\ FieldsUpTo(s, Len(s)) \in Nat
         /\ \A i \in 1 .. Len(s) :
              /\ FieldsUpTo(s, i - 1) \in Nat
              /\ FieldsUpTo(s, i) = FieldsUpTo(s, i - 1) + Len(s[i].fields)
<1>1. PICK n \in Nat : n = Len(s)
  BY LenProperties
<1>2. ASSUME NEW i \in 1 .. n
      PROVE  FieldsUpTo(s, i - 1) \in Nat /\ FieldsUpTo(s, i) = FieldsUpTo(s, i - 1) + Len(s[i].fields)
  <2>1. PICK k \in Nat : k = i - 1 /\ k + 1 = i /\ k + 1 <= n /\ k <= n
    <3>1. i - 1 \in Nat /\ i - 1 + 1 = i /\ i - 1 <= n
      OBVIOUS
    <3>2. QED
      BY <3>1
  <2>2. Agree(s, s, k)
    BY DEF Agree
  <2>3. FieldsUpTo(s, k) \in Nat /\ FieldsUpTo(s, k + 1) = FieldsUpTo(s, k) + Len(s[k + 1].fields)
    BY <1>1, <2>1, <2>2, FieldsGoOn
  <2>4. QED
    BY <2>1, <2>3
<1>3. CASE n = 0
  BY <1>1, <1>3, NoFields
<1>4. CASE n # 0
  <2>1. n \in 1 .. n /\ s[n] \in PieceSet
    BY <1>1, <1>4, ElementOfSeq
  <2>2. Len(s[n].fields) \in Nat
    BY <2>1, LenProperties DEF PieceSet
  <2>3. PICK a \in Nat, b \in Nat : a = FieldsUpTo(s, n - 1) /\ b = Len(s[n].fields) /\ FieldsUpTo(s, n) = a + b
    BY <1>2, <2>1, <2>2
  <2>4. QED
    BY <1>1, <1>2, <2>3
<1>5. QED
  BY <1>1, <1>2, <1>3, <1>4

\* A program writes one log more.
LEMMA LogEmitted ==
  ASSUME NEW s, NEW w, LogRight(s, w), NEW log \in Logs
  PROVE  LogRight(s, w \o MakePickle(log))
<1>1. PICK x \in Nat, n \in Nat, m \in Nat \ {0} : x = FieldsUpTo(s, Len(s)) /\ n = Len(w) /\ m = NF
  BY FieldsCount, FieldPlaces, LenProperties DEF LogRight
<1>2. (x + n) % m = 0 /\ GoOn(w, x) /\ w \in Seq(FieldSet)
  BY <1>1 DEF LogRight
<1>3. x + n \in Nat
  OBVIOUS
<1>4. /\ MakePickle(log) \in Seq(FieldSet) /\ Len(MakePickle(log)) = m
      /\ GoOn(MakePickle(log), x + n)
  BY <1>1, <1>2, <1>3, PickleGoesOn
<1>5. PICK z : z = w \o MakePickle(log)
  OBVIOUS
<1>6. GoOn(z, x) /\ z \in Seq(FieldSet) /\ Len(z) = n + m
  BY <1>1, <1>2, <1>4, <1>5, GoOnConcat
<1>7. (x + (n + m)) % m = 0
  <2>1. PICK q \in Nat : x + n = q * m
    <3>1. PICK y \in Nat : y = x + n
      OBVIOUS
    <3>2. y = (y \div m) * m + (y % m) /\ y \div m \in Nat
      OBVIOUS
    <3>3. PICK p \in Nat, r \in Nat : p = y \div m /\ r = y % m
      BY <1>2, <3>1, <3>2
    <3>4. y = p * m + r /\ r = 0 /\ p * m \in Nat
      BY <1>2, <3>1, <3>2, <3>3
    <3>5. x + n = p * m
      BY <3>1, <3>4
    <3>6. QED
      BY <3>5
  <2>2. (q + 1) * m + 0 = q * m + m /\ q * m \in Nat /\ q + 1 \in Nat /\ 0 \in 0 .. m - 1
    OBVIOUS
  <2>3. x + (n + m) = (q + 1) * m + 0
    BY <2>1, <2>2
  <2>4. ((q + 1) * m + 0) % m = 0
    BY <2>2, Division2
  <2>5. QED
    BY <2>3, <2>4
<1>8. QED
  BY <1>1, <1>5, <1>6, <1>7 DEF LogRight

\* A piece is taken.
LEMMA PieceTaken ==
  ASSUME NEW s, NEW w, LogRight(s, w), NEW o \in Pieces(w)
  PROVE  o \in PieceSet /\ LogRight(Append(s, o), SubSeq(w, Len(o.fields) + 1, Len(w)))
<1>1. PICK x \in Nat, l \in Nat, m \in Nat \ {0} : x = FieldsUpTo(s, Len(s)) /\ l = Len(w) /\ m = NF
  BY FieldsCount, FieldPlaces, LenProperties DEF LogRight
<1>2. s \in Seq(PieceSet) /\ w \in Seq(FieldSet) /\ (x + l) % m = 0 /\ GoOn(w, x)
  BY <1>1 DEF LogRight
<1>3. PICK n \in 0 .. l : o.fields = SubSeq(w, 1, n) /\ o.torn \in BOOLEAN
                          /\ o = [fields |-> o.fields, torn |-> o.torn]
  <2>1. o \in [fields : {SubSeq(w, 1, n) : n \in 0 .. l}, torn : BOOLEAN]
    <3>1. 1 .. l \subseteq 0 .. l /\ 0 .. l - 1 \subseteq 0 .. l
      OBVIOUS
    <3>2. QED
      BY <1>1, <3>1 DEF Pieces
  <2>2. QED
    BY <2>1
<1>4. PICK y, z : y = SubSeq(w, 1, n) /\ z = SubSeq(w, n + 1, l)
  OBVIOUS
<1>5. /\ y \in Seq(FieldSet) /\ Len(y) = n /\ GoOn(y, x)
      /\ z \in Seq(FieldSet) /\ Len(z) = l - n /\ GoOn(z, x + n)
  <2>1. n \in 0 .. Len(w)
    BY <1>1
  <2>2. /\ SubSeq(w, 1, n) \in Seq(FieldSet) /\ Len(SubSeq(w, 1, n)) = n
        /\ GoOn(SubSeq(w, 1, n), x)
        /\ SubSeq(w, n + 1, Len(w)) \in Seq(FieldSet)
        /\ Len(SubSeq(w, n + 1, Len(w))) = Len(w) - n
        /\ GoOn(SubSeq(w, n + 1, Len(w)), x + n)
    BY <1>2, <2>1, GoOnSplit
  <2>3. QED
    BY <1>1, <1>4, <2>2
<1>6. o \in PieceSet
  BY <1>3, <1>4, <1>5 DEF PieceSet
<1>7. PICK t : t = Append(s, o)
  OBVIOUS
<1>8. PICK k \in Nat : k = Len(s)
  BY <1>2, LenProperties
<1>9. t \in Seq(PieceSet) /\ Len(t) = k + 1 /\ t[k + 1] = o /\ Agree(t, s, k)
  BY <1>2, <1>6, <1>7, <1>8, AppendProperties DEF Agree
<1>10. FieldsUpTo(t, k) = x
  BY <1>1, <1>8, <1>9, FieldsSame
<1>11. FieldsUpTo(t, k + 1) = x + n
  <2>1. k + 1 <= Len(t) /\ k <= Len(s)
    BY <1>8, <1>9
  <2>2. FieldsUpTo(t, k + 1) = FieldsUpTo(s, k) + Len(t[k + 1].fields)
    BY <1>2, <1>9, <2>1, FieldsGoOn
  <2>3. FieldsUpTo(s, k) = x /\ Len(t[k + 1].fields) = n
    BY <1>1, <1>3, <1>4, <1>5, <1>8, <1>9
  <2>4. QED
    BY <2>2, <2>3
<1>12. (x + n + (l - n)) % m = 0
  <2>1. x + n + (l - n) = x + l
    BY <1>1
  <2>2. QED
    BY <1>2, <2>1
<1>13. ASSUME NEW i \in 1 .. k + 1 PROVE GoOn(t[i].fields, FieldsUpTo(t, i - 1))
  <2>1. CASE i = k + 1
    <3>1. i - 1 = k
      BY <2>1
    <3>2. QED
      BY <1>3, <1>4, <1>5, <1>9, <1>10, <2>1, <3>1
  <2>2. CASE i # k + 1
    <3>1. PICK j \in Nat : j = i - 1 /\ i \in 1 .. k /\ j <= k
      BY <2>2
    <3>2. GoOn(s[i].fields, FieldsUpTo(s, j))
      BY <1>8, <3>1 DEF LogRight
    <3>3. t[i] = s[i] /\ Agree(t, s, j)
      BY <1>9, <3>1 DEF Agree
    <3>4. FieldsUpTo(t, j) = FieldsUpTo(s, j)
      BY <3>3, FieldsSame
    <3>5. QED
      BY <3>1, <3>2, <3>3, <3>4
  <2>3. QED
    BY <2>1, <2>2
<1>14. LogRight(t, z)
  <2>1. (FieldsUpTo(t, Len(t)) + Len(z)) % NF = 0 /\ GoOn(z, FieldsUpTo(t, Len(t)))
    BY <1>1, <1>5, <1>9, <1>11, <1>12
  <2>2. \A i \in 1 .. Len(t) : GoOn(t[i].fields, FieldsUpTo(t, i - 1))
    BY <1>9, <1>13
  <2>3. QED
    BY <1>5, <1>9, <2>1, <2>2 DEF LogRight
<1>15. QED
  BY <1>1, <1>3, <1>4, <1>5, <1>6, <1>7, <1>14

-----------------------------------------------------------------------------
(* The files of logs, time stamps and triggers *)

\* What is published of a kind, what the file has of it, and whether it gets there
Sendable(k) ==
  CASE k = "trigger"   -> Packets
    [] k = "log"       -> PieceSet
    [] k = "timestamp" -> TimeStamps

Entry(k, o) == Encode(k, IF k = "log" THEN Parse(o) ELSE o)

Accepted(k, a, o) ==
  CASE k = "trigger"   -> Readable(o) \/ a
    [] k = "log"       -> Parseable(o)
    [] k = "timestamp" -> TRUE

\* The file has an entry for each object published, but the last if that was not accepted.
FileRight(k, a, s, f, alv) ==
  /\ s \in Seq(Sendable(k)) /\ f \in Seq({Entry(k, o) : o \in Sendable(k)})
  /\ Len(s) = Len(f) + (IF alv THEN 0 ELSE 1)
  /\ \A i \in 1 .. Len(f) : f[i] = Entry(k, s[i]) /\ Accepted(k, a, s[i])

PublishedInv ==
  kind \in Streams =>
    /\ FileRight(kind, async, sent, file, alive)
    /\ kind = "log" => LogRight(sent, wire)

\* What is appended comes behind all.
LEMMA BehindAll ==
  ASSUME NEW S, NEW s \in Seq(S), NEW o \in S, NEW n, n = Len(s), NEW t, t = Append(s, o)
  PROVE  t \in Seq(S) /\ Len(t) = n + 1 /\ t[n + 1] = o /\ \A i \in 1 .. n : t[i] = s[i]
BY AppendProperties

\* An object is published and accepted.
LEMMA EntryAppended ==
  ASSUME NEW k, NEW a, NEW s, NEW f, FileRight(k, a, s, f, TRUE),
         NEW o \in Sendable(k), Accepted(k, a, o)
  PROVE  FileRight(k, a, Append(s, o), Append(f, Entry(k, o)), TRUE)
<1> DEFINE E == {Entry(k, e) : e \in Sendable(k)}
<1>1. PICK n \in Nat : n = Len(s) /\ n = Len(f)
  BY LenProperties DEF FileRight
<1>2. PICK e \in E : e = Entry(k, o)
  OBVIOUS
<1>3. PICK S : S = Sendable(k) /\ s \in Seq(S) /\ o \in S /\ f \in Seq(E)
  BY DEF FileRight
<1> HIDE DEF E
<1>4. PICK t, g : t = Append(s, o) /\ g = Append(f, e)
  OBVIOUS
<1>5. /\ t \in Seq(S) /\ Len(t) = n + 1 /\ t[n + 1] = o
      /\ g \in Seq(E) /\ Len(g) = n + 1 /\ g[n + 1] = e
      /\ \A i \in 1 .. n : t[i] = s[i] /\ g[i] = f[i]
  <2>1. t \in Seq(S) /\ Len(t) = n + 1 /\ t[n + 1] = o /\ \A i \in 1 .. n : t[i] = s[i]
    <3>1. n = Len(s)
      BY <1>1
    <3>2. QED
      BY <1>3, <1>4, <3>1, BehindAll
  <2>2. g \in Seq(E) /\ Len(g) = n + 1 /\ g[n + 1] = e /\ \A i \in 1 .. n : g[i] = f[i]
    BY <1>1, <1>3, <1>4, BehindAll
  <2>3. QED
    BY <2>1, <2>2
<1>6. ASSUME NEW i \in 1 .. n + 1 PROVE g[i] = Entry(k, t[i]) /\ Accepted(k, a, t[i])
  <2>1. CASE i = n + 1
    BY <1>2, <1>5, <2>1
  <2>2. CASE i # n + 1
    <3>1. i \in 1 .. n
      BY <2>2
    <3>2. f[i] = Entry(k, s[i]) /\ Accepted(k, a, s[i])
      BY <1>1, <3>1 DEF FileRight
    <3>3. QED
      BY <1>5, <3>1, <3>2
  <2>3. QED
    BY <2>1, <2>2
<1>7. Len(t) = Len(g) + 0
  BY <1>5
<1>8. FileRight(k, a, t, g, TRUE)
  BY <1>3, <1>5, <1>6, <1>7 DEF FileRight, E
<1>9. QED
  BY <1>2, <1>4, <1>8

\* An object is published and not accepted.
LEMMA EntryRefused ==
  ASSUME NEW k, NEW a, NEW s, NEW f, FileRight(k, a, s, f, TRUE), NEW o \in Sendable(k)
  PROVE  FileRight(k, a, Append(s, o), f, FALSE)
<1>1. PICK n \in Nat : n = Len(s) /\ n = Len(f)
  BY LenProperties DEF FileRight
<1>2. PICK S : S = Sendable(k) /\ s \in Seq(S) /\ o \in S
  BY DEF FileRight
<1>3. PICK t : t = Append(s, o)
  OBVIOUS
<1>4. t \in Seq(S) /\ Len(t) = n + 1 /\ \A i \in 1 .. n : t[i] = s[i]
  <2>1. n = Len(s)
    BY <1>1
  <2>2. QED
    BY <1>2, <1>3, <2>1, BehindAll
<1>5. QED
  BY <1>1, <1>2, <1>3, <1>4 DEF FileRight

\* What is published is of the kind.
LEMMA PublishedIs ==
  ASSUME PublishedInv, NEW o \in Publishable, Publish(o)
  PROVE  /\ kind \in Streams /\ o \in Sendable(kind) /\ sent' = Append(sent, o)
         /\ kind' = kind /\ async' = async /\ alive
         /\ kind = "log" => LogRight(sent', wire')
<1>1. kind \in Streams
  BY DEF Publishable, Streams
<1>2. sent' = Append(sent, o) /\ kind' = kind /\ async' = async /\ alive
  BY DEF Publish
<1>3. CASE kind = "trigger"
  BY <1>1, <1>2, <1>3 DEF Publishable, Sendable
<1>4. CASE kind = "timestamp"
  <2>1. o \in NextStamps /\ sent \in Seq(TimeStamps)
    BY <1>1, <1>4 DEF Publishable, PublishedInv, FileRight, Sendable
  <2>2. o \in TimeStamps
    BY <2>1, NextStampIs
  <2>3. QED
    BY <1>1, <1>2, <1>4, <2>2 DEF Sendable
<1>5. CASE kind = "log"
  <2>1. o \in Pieces(wire) /\ LogRight(sent, wire)
    BY <1>1, <1>5 DEF Publishable, PublishedInv
  <2>2. wire' = SubSeq(wire, Len(o.fields) + 1, Len(wire))
    BY <1>5 DEF Publish
  <2>3. o \in PieceSet /\ LogRight(Append(sent, o), SubSeq(wire, Len(o.fields) + 1, Len(wire)))
    BY <2>1, PieceTaken
  <2>4. QED
    BY <1>1, <1>2, <1>5, <2>2, <2>3 DEF Sendable
<1>6. QED
  BY <1>1, <1>3, <1>4, <1>5 DEF Streams

\* What is written of it is its entry.
LEMMA WrittenIs ==
  ASSUME kind \in Streams, NEW o \in Sendable(kind), SendWritten(o)
  PROVE  file' = Append(file, Entry(kind, o)) /\ Accepted(kind, async, o)
<1>1. CASE kind = "trigger"
  <2>1. Published(o) = Encode("trigger", o) /\ Entry(kind, o) = Encode("trigger", o)
    BY <1>1 DEF Published, Entry
  <2>2. CASE async /\ file' = Append(file, Published(o))
    BY <1>1, <2>1, <2>2 DEF Accepted
  <2>3. CASE /\ Unpacked(Published(o)).kind = "object"
             /\ file' = Append(file, Encode(kind, Unpacked(Published(o)).object))
    <3>1. o \in Packets
      BY <1>1 DEF Sendable
    <3>2. Encode("trigger", o).as = "trigger" /\ Encode("trigger", o).bytes = Pack(o)
      BY DEF Encode
    <3>3. Unpacked(Published(o)) = Unpack(Pack(o))
      BY <1>1, <2>1, <3>2 DEF Unpacked, Decode
    <3>4. Unpack(Pack(o)) = IF Readable(o) THEN Got(o) ELSE Raised
      BY <3>1, RoundTrip
    <3>5. Readable(o)
      BY <2>3, <3>3, <3>4 DEF Raised
    <3>6. Unpacked(Published(o)).object = o
      BY <3>3, <3>4, <3>5 DEF Got
    <3>7. QED
      BY <1>1, <2>1, <2>3, <3>5, <3>6 DEF Accepted
  <2>4. QED
    BY <1>1, <2>2, <2>3 DEF SendWritten
<1>2. CASE kind = "log"
  <2>1. Published(o) = [as |-> "log", bytes |-> o] /\ Entry(kind, o) = Encode("log", Parse(o))
    BY <1>2 DEF Published, Entry
  <2>2. Unpacked(Published(o)) = IF Parseable(o) THEN Got(Parse(o)) ELSE Raised
    BY <1>2, <2>1 DEF Unpacked, Decode
  <2>3. /\ Unpacked(Published(o)).kind = "object"
        /\ file' = Append(file, Encode(kind, Unpacked(Published(o)).object))
    BY <1>2 DEF SendWritten
  <2>4. Parseable(o)
    BY <2>2, <2>3 DEF Raised
  <2>5. Unpacked(Published(o)).object = Parse(o)
    BY <2>2, <2>4 DEF Got
  <2>6. QED
    BY <1>2, <2>1, <2>3, <2>4, <2>5 DEF Accepted
<1>3. CASE kind = "timestamp"
  <2>1. Published(o) = Encode("timestamp", o) /\ Entry(kind, o) = Encode("timestamp", o)
    BY <1>3 DEF Published, Entry
  <2>2. Encode("timestamp", o) = [as |-> "timestamp", bytes |-> o]
    BY DEF Encode
  <2>3. Unpacked(Published(o)) = Got(o)
    BY <1>3, <2>1, <2>2 DEF Unpacked, Decode
  <2>4. file' = Append(file, Encode(kind, Unpacked(Published(o)).object))
    BY <1>3 DEF SendWritten
  <2>5. QED
    BY <1>3, <2>1, <2>3, <2>4 DEF Accepted, Got
<1>4. QED
  BY <1>1, <1>2, <1>3 DEF Streams

\* Each step keeps the file right.
LEMMA StepPublished == PublishedInv /\ [Next]_vars => PublishedInv'
<1> SUFFICES ASSUME PublishedInv, [Next]_vars PROVE PublishedInv'
  OBVIOUS
<1>1. kind' = kind /\ ([DataNext]_dataVars \/ UNCHANGED dataVars)
  BY StepKind
<1>2. ASSUME NEW log \in Logs, EmitLog(log) PROVE PublishedInv'
  <2>1. /\ kind = "log" /\ wire' = wire \o MakePickle(log)
        /\ kind' = kind /\ async' = async /\ sent' = sent /\ file' = file /\ alive' = alive
    BY <1>2 DEF EmitLog
  <2>2. LogRight(sent, wire) /\ FileRight(kind, async, sent, file, alive)
    BY <2>1 DEF PublishedInv, Streams
  <2>3. LogRight(sent, wire \o MakePickle(log))
    BY <2>2, LogEmitted
  <2>4. QED
    BY <2>1, <2>2, <2>3 DEF PublishedInv
<1>3. ASSUME NEW o \in Publishable, SendWritten(o) PROVE PublishedInv'
  <2>1. Publish(o) /\ alive' = alive
    BY <1>3 DEF SendWritten
  <2>2. /\ kind \in Streams /\ o \in Sendable(kind) /\ sent' = Append(sent, o)
        /\ kind' = kind /\ async' = async /\ alive
        /\ kind = "log" => LogRight(sent', wire')
    BY <2>1, PublishedIs
  <2>3. file' = Append(file, Entry(kind, o)) /\ Accepted(kind, async, o)
    BY <1>3, <2>2, WrittenIs
  <2>4. FileRight(kind, async, sent, file, TRUE)
    BY <2>2 DEF PublishedInv, FileRight
  <2>5. FileRight(kind, async, sent', file', TRUE)
    BY <2>2, <2>3, <2>4, EntryAppended
  <2>6. FileRight(kind, async, sent', file', alive')
    BY <2>1, <2>2, <2>5 DEF FileRight
  <2>7. QED
    BY <2>2, <2>6 DEF PublishedInv
<1>4. ASSUME NEW o \in Publishable, SendRejected(o) PROVE PublishedInv'
  <2>1. Publish(o) /\ alive' = FALSE /\ file' = file
    BY <1>4 DEF SendRejected
  <2>2. /\ kind \in Streams /\ o \in Sendable(kind) /\ sent' = Append(sent, o)
        /\ kind' = kind /\ async' = async /\ alive
        /\ kind = "log" => LogRight(sent', wire')
    BY <2>1, PublishedIs
  <2>3. FileRight(kind, async, sent, file, TRUE)
    BY <2>2 DEF PublishedInv, FileRight
  <2>4. FileRight(kind, async, sent', file', FALSE)
    BY <2>1, <2>2, <2>3, EntryRefused
  <2>5. QED
    BY <2>1, <2>2, <2>4 DEF PublishedInv
<1>5. CASE UNCHANGED dataVars
  <2>1. kind' = kind /\ async' = async /\ sent' = sent /\ file' = file /\ alive' = alive /\ wire' = wire
    BY <1>5 DEF dataVars
  <2>2. QED
    BY <2>1 DEF PublishedInv
<1>6. CASE kind \notin Streams
  BY <1>1, <1>6 DEF PublishedInv
<1>7. CASE DataNext /\ kind \in Streams
  BY <1>2, <1>3, <1>4, <1>7
  DEF DataNext, PutObject, GetObjects, WriteFrame, ReadFrame, WriteReadout, CloseFile, Crash,
      GetItem, NextRow, LoadAllData, ReadRow, Streams
<1>8. QED
  BY <1>1, <1>5, <1>6, <1>7

\* Of a piece that ends where a log does the last log is parsed.
LEMMA LastLogParsed ==
  ASSUME LogRight(sent, wire), NEW i \in 1 .. Len(sent), EndsLog(i)
  PROVE  Parse(sent[i]) = LastLog(i)
<1>1. sent \in Seq(PieceSet) /\ GoOn(sent[i].fields, FieldsUpTo(sent, i - 1))
  BY DEF LogRight
<1>2. sent[i] \in PieceSet
  BY <1>1, ElementOfSeq
<1>3. PICK s, x : s = sent[i].fields /\ x = FieldsUpTo(sent, i - 1)
  OBVIOUS
<1>4. s \in Seq(FieldSet) /\ x \in Nat /\ FieldsUpTo(sent, i) = x + Len(s)
  BY <1>1, <1>2, <1>3, FieldsCount DEF PieceSet
<1>5. GoOn(s, x) /\ (x + Len(s)) % NF = 0 /\ Len(s) >= NF
  BY <1>1, <1>3, <1>4 DEF EndsLog, NF
<1>6. EndsInLog(s)
  BY <1>4, <1>5, GoOnEnds
<1>7. Parse(sent[i]) = LastLogOf(s)
  BY <1>3, <1>6, ParsesLastLog
<1>8. LastLog(i) = LastLogOf(s)
  BY <1>3 DEF LastLog, LastLogOf, NF
<1>9. QED
  BY <1>7, <1>8

\* What the reader makes of an entry
LEMMA EntryIsRead ==
  ASSUME PublishedInv, kind \in Streams, NEW i \in 1 .. Len(file), NEW o \in Expected(i)
  PROVE  ReadEntry(i) = Got(o)
<1>1. FileRight(kind, async, sent, file, alive)
  BY DEF PublishedInv
<1>2. i \in 1 .. Len(sent) /\ file[i] = Entry(kind, sent[i]) /\ sent[i] \in Sendable(kind)
  <2>1. Len(file) \in Nat /\ Len(sent) \in Nat /\ Len(file) <= Len(sent)
    BY <1>1, LenProperties DEF FileRight
  <2>2. i \in 1 .. Len(sent)
    BY <2>1
  <2>3. PICK S : S = Sendable(kind) /\ sent \in Seq(S)
    BY <1>1 DEF FileRight
  <2>4. sent[i] \in S
    BY <2>2, <2>3, ElementOfSeq
  <2>5. QED
    BY <1>1, <2>2, <2>3, <2>4 DEF FileRight
<1>3. CASE kind = "trigger"
  <2>1. o = sent[i] /\ Readable(sent[i])
    BY <1>3 DEF Expected
  <2>2. Unpacker(HeaderOf(kind)) = "trigger"
    BY <1>3 DEF Unpacker, HeaderOf
  <2>3. file[i] = [as |-> "trigger", bytes |-> Pack(sent[i])]
    BY <1>2, <1>3 DEF Entry, Encode
  <2>4. ReadEntry(i) = Unpack(Pack(sent[i]))
    BY <2>2, <2>3 DEF ReadEntry, Decode
  <2>5. sent[i] \in Packets
    BY <1>2, <1>3 DEF Sendable
  <2>6. QED
    BY <2>1, <2>4, <2>5, RoundTrip
<1>4. CASE kind = "timestamp"
  <2>1. o = sent[i]
    BY <1>4 DEF Expected
  <2>2. Unpacker(HeaderOf(kind)) = "timestamp"
    BY <1>4 DEF Unpacker, HeaderOf
  <2>3. file[i] = [as |-> "timestamp", bytes |-> sent[i]]
    BY <1>2, <1>4 DEF Entry, Encode
  <2>4. QED
    BY <2>1, <2>2, <2>3 DEF ReadEntry, Decode
<1>5. CASE kind = "log"
  <2>1. o = LastLog(i) /\ EndsLog(i)
    BY <1>5 DEF Expected
  <2>2. LogRight(sent, wire)
    BY <1>5 DEF PublishedInv
  <2>3. Parse(sent[i]) = o
    BY <1>2, <2>1, <2>2, LastLogParsed
  <2>4. o = [f \in Range(LogFields) |-> o[f]]
    <3>1. o = [f \in Range(LogFields) |-> sent[i].fields[LastOf(sent[i].fields, f)].value]
      BY <2>3, ParseIs
    <3>2. QED
      BY <3>1
  <2>5. Unpacker(HeaderOf(kind)) = "log"
    BY <1>5 DEF Unpacker, HeaderOf
  <2>6. file[i] = [as |-> "log", bytes |-> LogPiece(o)]
    BY <1>2, <1>5, <2>3 DEF Entry, Encode
  <2>7. Parseable(LogPiece(o)) /\ Parse(LogPiece(o)) = o
    BY <2>4, LogReadAgain
  <2>8. QED
    BY <2>5, <2>6, <2>7 DEF ReadEntry, Decode
<1>6. QED
  BY <1>3, <1>4, <1>5 DEF Streams

\* The files of logs, time stamps and triggers have the objects published, in order, until
\* the first that is not accepted, and the reader gets them back from their entries.
THEOREM PacketsAreReadBack == Spec => []PacketsReadBack
<1>1. Init => PublishedInv
  <2> SUFFICES ASSUME DataInit PROVE PublishedInv
    BY DEF Init
  <2>1. sent = <<>> /\ file = <<>> /\ wire = <<>> /\ alive = TRUE
    BY DEF DataInit
  <2>2. PICK S, E : S = Sendable(kind) /\ E = {Entry(kind, o) : o \in Sendable(kind)}
    OBVIOUS
  <2>3. /\ Len(sent) = 0 /\ Len(file) = 0 /\ Len(wire) = 0 /\ wire \in Seq(FieldSet)
        /\ sent \in Seq(S) /\ file \in Seq(E) /\ sent \in Seq(PieceSet)
    BY <2>1
  <2>4. FileRight(kind, async, sent, file, alive)
    BY <2>1, <2>2, <2>3 DEF FileRight
  <2>5. FieldsUpTo(sent, Len(sent)) = 0
    BY <2>3, NoFields
  <2>6. (0 + 0) % NF = 0
    BY FieldPlaces
  <2>7. LogRight(sent, wire)
    BY <2>3, <2>5, <2>6 DEF LogRight, GoOn
  <2>8. QED
    BY <2>4, <2>7 DEF PublishedInv
<1>2. ASSUME PublishedInv PROVE PacketsReadBack
  <2> SUFFICES ASSUME kind \in Streams
               PROVE  /\ Len(file) >= Len(sent) - (IF alive THEN 0 ELSE 1)
                      /\ \A i \in DOMAIN file :
                           /\ kind = "trigger" => (Readable(sent[i]) \/ async)
                           /\ \A o \in Expected(i) : ReadEntry(i) = Got(o)
    BY DEF PacketsReadBack
  <2>1. FileRight(kind, async, sent, file, alive)
    BY <1>2 DEF PublishedInv
  <2>2. DOMAIN file = 1 .. Len(file) /\ Len(file) \in Nat
    BY <2>1, LenProperties DEF FileRight
  <2>3. Len(file) >= Len(sent) - (IF alive THEN 0 ELSE 1)
    BY <2>1, <2>2 DEF FileRight
  <2>4. \A i \in 1 .. Len(file) : kind = "trigger" => (Readable(sent[i]) \/ async)
    BY <2>1 DEF FileRight, Accepted
  <2>5. \A i \in 1 .. Len(file) : \A o \in Expected(i) : ReadEntry(i) = Got(o)
    BY <1>2, EntryIsRead
  <2>6. QED
    BY <2>2, <2>3, <2>4, <2>5
<1>3. QED
  BY <1>1, <1>2, StepPublished, PTL DEF Spec

=============================================================================
