--------------------------- MODULE ObjectFileProofs ---------------------------
(***************************************************************************)
(* Theorems about the object files of both protocols (RawObjectFile), for  *)
(* any objects, sizes, numbers of bunches and lengths compression gives.   *)
(***************************************************************************)
EXTENDS RawObjectFile, NumberLemmas, SequenceTheorems, FiniteSetTheorems, TLAPS

(* Bunch number k of a file of protocol 1, counted from 1 *)

Before(k)    == IF k = 1 THEN 0 ELSE flushes[k - 1].count
StartOf(k)   == IF k = 1 THEN HeaderSize ELSE flushes[k - 1].end
TrailerAt(k) == flushes[k].end - TrailerSize
Count(k)     == flushes[k].count - Before(k)
IndexLen(k)  == Count(k) * IndexSize
DataEnd(k)   == TrailerAt(k) - IndexLen(k)

ObjectsOf(k) == [i \in 1 .. Count(k) |-> objects[Before(k) + i]]
SizesOf(k)   == [i \in 1 .. Count(k) |-> Size[objects[Before(k) + i]]]

TrailerOf(k) ==
  [bunchoff |-> TrailerAt(k) - (IF k = 1 THEN 0 ELSE TrailerAt(k - 1)),
   dataoff  |-> TrailerAt(k) - StartOf(k),
   fileoff  |-> TrailerAt(k),
   ndata    |-> Count(k),
   bunch_n  |-> k - 1]

\* The bytes of its data, compressed or not
DataByte(k, i) ==
  IF compress THEN <<[compressed |-> Raw(ObjectsOf(k))], i>> ELSE Raw(ObjectsOf(k))[i]

\* Where the last bunch ends, and how many objects are in bunches
N == Len(flushes)
End   == IF N = 0 THEN HeaderSize ELSE flushes[N].end
Saved == IF N = 0 THEN 0 ELSE flushes[N].count

(* The parts of the inductive invariant *)

ObjectByte == [object : Objects] \X Nat

Content ==
  {[header |-> TRUE]} \union [object : Objects] \union [compressed : Seq(ObjectByte)]
  \union [sizes : Seq(Nat)]
  \union [bunchoff : Int, dataoff : Int, fileoff : Int, ndata : Nat, bunch_n : Nat]

Entry == [start : Nat, bunchsize : Nat, offset : Nat, size : Nat]

TypeOK ==
  /\ state \in {"open", "closed", "killed", "failed"}
  /\ compress \in BOOLEAN
  /\ buffer \in Seq(Objects)
  /\ cbunchoffset \in Nat
  /\ fp \in Nat
  /\ last_bunch_fp \in Nat
  /\ bunch_number \in Nat
  /\ file \in Seq(Content \X Nat)
  /\ objects \in Seq(Objects)
  /\ flushes \in Seq([end : Nat, count : Nat])
  /\ opened \in {"no", "open", "raised"}
  /\ seen \in 0 .. Len(file)
  /\ index \in Seq(Entry)
  /\ current_index \in Nat
  /\ got \in [ind : Int, bytes : Seq(ObjectByte)]
  /\ stream \in Seq(Seq(ObjectByte))

\* Bunches follow one another, and each has objects.
Layout ==
  /\ \A k \in 1 .. N :
       /\ Before(k) < flushes[k].count
       /\ flushes[k].count <= Len(objects)
       /\ StartOf(k) <= DataEnd(k)
       /\ compress => StartOf(k) < DataEnd(k)
       /\ ~ compress => DataEnd(k) - StartOf(k) = Len(Raw(ObjectsOf(k)))
  /\ \A j, k \in 1 .. N :
       j < k => flushes[j].end < flushes[k].end /\ flushes[j].count < flushes[k].count

\* What the writer keeps of the bunches; once a flush has raised every other does.
Writer ==
  /\ bunch_number = N
  /\ last_bunch_fp = (IF N = 0 THEN 0 ELSE TrailerAt(N))
  /\ Len(buffer) = Len(objects) - Saved
  /\ \A i \in 1 .. Len(buffer) : buffer[i] = objects[Saved + i]
  /\ fp >= End
  /\ fp > End => bunch_number > MaxBunch /\ buffer # << >>
  /\ state # "killed" => Len(file) = fp
  /\ state = "closed" => buffer = << >>

\* What is in the file, as long as it is; a trailer is in no other place.
Bytes ==
  \A p \in 1 .. Len(file) :
    /\ \A k \in 1 .. N :
         /\ StartOf(k) < p /\ p <= DataEnd(k) => file[p] = DataByte(k, p - StartOf(k))
         /\ DataEnd(k) < p /\ p <= TrailerAt(k) =>
              file[p] = <<[sizes |-> SizesOf(k)], p - DataEnd(k)>>
         /\ TrailerAt(k) < p /\ p <= flushes[k].end => file[p] = <<TrailerOf(k), p - TrailerAt(k)>>
    /\ "bunchoff" \in DOMAIN file[p][1] =>
         \E k \in 1 .. N : TrailerAt(k) < p /\ p <= flushes[k].end

\* Entry e of the index is where object m is, in bunch k.
IsEntry(e, m, k) ==
  /\ m - Before(k) \in 1 .. Count(k)
  /\ e = [start     |-> StartOf(k),
          bunchsize |-> DataEnd(k) - StartOf(k),
          offset    |-> Offsets(SizesOf(k))[m - Before(k)],
          size      |-> Size[objects[m]]]

\* What a reader has of the bunches that it saw.
Reader ==
  /\ opened = "open" =>
       /\ Len(index) = CountAt(seen)
       /\ \A m \in 1 .. Len(index) :
            \E k \in 1 .. N : flushes[k].end <= seen /\ IsEntry(index[m], m, k)
  /\ opened = "raised" => seen # HeaderSize /\ \A k \in 1 .. N : seen # flushes[k].end
  /\ got.ind >= 0 => got.ind < Len(index) /\ got.bytes = ObjectBytes(objects[got.ind + 1])
  /\ opened # "open" => index = << >> /\ got.ind = -1 /\ stream = << >> /\ current_index = 0
  /\ Len(stream) = (IF current_index < Len(index) THEN current_index ELSE Len(index))
  /\ \A i \in 1 .. Len(stream) : stream[i] = ObjectBytes(objects[i])

OInv == TypeOK /\ Layout /\ Writer /\ Bytes /\ Reader

------------------------------------------------------------------------------
(* Flattened sequences, and sums of sizes *)

\* fl[i] is the first i pieces, one behind the other.
Joined(fl, n, seqs) ==
  /\ fl[1] = seqs[1]
  /\ \A i \in 2 .. n : fl[i] = fl[i - 1] \o seqs[i]

\* A sequence is flattened piece by piece.
LEMMA FlattenFacts ==
  ASSUME NEW S, NEW n \in Nat \ {0}, NEW seqs \in [1 .. n -> Seq(S)]
  PROVE  \E fl \in [1 .. n -> Seq(S)] : Joined(fl, n, seqs) /\ FlattenSeq(seqs) = fl[n]
<1> DEFINE G == [xi \in Seq(S) \X Nat |-> IF xi[2] \in 1 .. n THEN xi[1] \o seqs[xi[2]] ELSE << >>]
           F(f) == [i \in 1 .. Len(seqs) |-> IF i = 1 THEN seqs[i] ELSE f[i - 1] \o seqs[i]]
<1>1. /\ seqs \in Seq(Seq(S)) /\ Len(seqs) = n
      /\ \A i \in 1 .. n : seqs[i] \in Seq(S)
  OBVIOUS
<1>2. G \in [Seq(S) \X Nat -> Seq(S)]
  <2>1. ASSUME NEW xi \in Seq(S) \X Nat, xi[2] \in 1 .. n
        PROVE  xi[1] \o seqs[xi[2]] \in Seq(S)
    <3>1. xi[1] \in Seq(S) /\ seqs[xi[2]] \in Seq(S)
      BY <1>1, <2>1
    <3>2. QED
      BY <3>1, ConcatProperties
  <2>2. << >> \in Seq(S)
    OBVIOUS
  <2>3. QED
    BY <2>1, <2>2
<1>3. seqs[1] \in Seq(S)
  BY <1>1
<1>4. PICK f \in [1 .. n -> Seq(S)] : Goes(f, n, seqs[1], G)
  <2> HIDE DEF G
  <2>1. n \in Nat
    OBVIOUS
  <2>2. QED
    BY <1>2, <1>3, <2>1, StepByStep, Zenon
<1>5. ASSUME NEW i \in 1 .. n, i # 1
      PROVE  G[<<f[i - 1], i>>] = f[i - 1] \o seqs[i]
  <2>1. f[i - 1] \in Seq(S)
    BY <1>5
  <2>2. <<f[i - 1], i>> \in Seq(S) \X Nat
    BY <2>1
  <2>3. QED
    BY <2>2
<1> HIDE DEF G
<1>6. f = F(f)
  <2>1. \A i \in 1 .. n : f[i] = IF i = 1 THEN seqs[1] ELSE G[<<f[i - 1], i>>]
    BY <1>4 DEF Goes
  <2>2. \A i \in 1 .. n : f[i] = IF i = 1 THEN seqs[i] ELSE f[i - 1] \o seqs[i]
    BY <1>5, <2>1
  <2>3. f = [i \in 1 .. n |-> f[i]]
    OBVIOUS
  <2>4. QED
    BY <1>1, <2>2, <2>3
<1>7. PICK c : c = CHOOSE h : h = F(h)
  OBVIOUS
<1>8. c = F(c)
  <2> HIDE DEF F
  <2>1. QED
    BY <1>6, <1>7
<1>9. FlattenSeq(seqs) = c[n]
  BY <1>1, <1>7 DEF FlattenSeq
<1>10. \A i \in 1 .. n : c[i] = IF i = 1 THEN seqs[1] ELSE c[i - 1] \o seqs[i]
  BY <1>1, <1>8
<1> HIDE DEF F
<1> DEFINE Wrong == {i \in 1 .. n : c[i] \notin Seq(S)}
<1>11. Wrong = {}
  <2>1. SUFFICES ASSUME Wrong # {} PROVE FALSE
    OBVIOUS
  <2>2. PICK m \in Wrong : \A j \in Wrong : m <= j
    <3>1. Wrong \subseteq Nat
      OBVIOUS
    <3>2. QED
      BY <2>1, <3>1, LeastNumber, Zenon
  <2>3. m # 1
    BY <1>3, <1>10, <2>2
  <2>4. m - 1 \in 1 .. n /\ ~ m <= m - 1
    BY <2>2, <2>3
  <2>5. c[m - 1] \in Seq(S)
    BY <2>2, <2>4
  <2>6. c[m - 1] \o seqs[m] \in Seq(S)
    BY <1>1, <2>2, <2>5, ConcatProperties
  <2>7. QED
    BY <1>10, <2>2, <2>3, <2>6
<1>12. c \in [1 .. n -> Seq(S)]
  <2>1. c = [i \in 1 .. n |-> IF i = 1 THEN seqs[i] ELSE c[i - 1] \o seqs[i]]
    BY <1>1, <1>8 DEF F
  <2>2. \A i \in 1 .. n : c[i] \in Seq(S)
    BY <1>11
  <2>3. QED
    BY <2>1, <2>2
<1>13. Joined(c, n, seqs)
  <2>1. 1 \in 1 .. n /\ \A i \in 2 .. n : i \in 1 .. n /\ i # 1
    OBVIOUS
  <2>2. QED
    BY <1>10, <2>1 DEF Joined
<1>14. QED
  BY <1>9, <1>12, <1>13

\* Offsets are the sums of the sizes before.
LEMMA OffsetsFacts ==
  ASSUME NEW n \in Nat, NEW sizes \in [1 .. n -> Nat]
  PROVE  /\ Offsets(sizes) \in [1 .. n -> Nat]
         /\ \A i \in 1 .. n :
              Offsets(sizes)[i] = IF i = 1 THEN 0 ELSE Offsets(sizes)[i - 1] + sizes[i - 1]
<1> DEFINE G == [xi \in Nat \X Nat |-> IF xi[2] - 1 \in 1 .. n THEN xi[1] + sizes[xi[2] - 1] ELSE 0]
           F(f) == [i \in DOMAIN sizes |-> IF i = 1 THEN 0 ELSE f[i - 1] + sizes[i - 1]]
<1>1. DOMAIN sizes = 1 .. n /\ \A i \in 1 .. n : sizes[i] \in Nat
  OBVIOUS
<1>2. G \in [Nat \X Nat -> Nat]
  <2>1. ASSUME NEW xi \in Nat \X Nat, xi[2] - 1 \in 1 .. n
        PROVE  xi[1] + sizes[xi[2] - 1] \in Nat
    BY <1>1, <2>1
  <2>2. QED
    BY <2>1
<1>3. PICK f \in [1 .. n -> Nat] : Goes(f, n, 0, G)
  <2> HIDE DEF G
  <2>1. 0 \in Nat
    OBVIOUS
  <2>2. QED
    BY <1>2, <2>1, StepByStep, Zenon
<1>4. ASSUME NEW i \in 1 .. n, i # 1
      PROVE  G[<<f[i - 1], i>>] = f[i - 1] + sizes[i - 1]
  <2>1. i - 1 \in 1 .. n
    BY <1>4
  <2>2. f[i - 1] \in Nat
    BY <2>1
  <2>3. <<f[i - 1], i>> \in Nat \X Nat
    BY <2>2
  <2>4. QED
    BY <2>1, <2>3
<1> HIDE DEF G
<1>5. f = F(f)
  <2>1. \A i \in 1 .. n : f[i] = IF i = 1 THEN 0 ELSE G[<<f[i - 1], i>>]
    BY <1>3 DEF Goes
  <2>2. \A i \in 1 .. n : f[i] = IF i = 1 THEN 0 ELSE f[i - 1] + sizes[i - 1]
    BY <1>4, <2>1
  <2>3. f = [i \in 1 .. n |-> f[i]]
    OBVIOUS
  <2>4. QED
    BY <1>1, <2>2, <2>3
<1>6. Offsets(sizes) = F(Offsets(sizes))
  <2>1. Offsets(sizes) = CHOOSE h : h = F(h)
    BY DEF Offsets
  <2> HIDE DEF F
  <2>2. QED
    BY <1>5, <2>1
<1>7. \A i \in 1 .. n :
        Offsets(sizes)[i] = IF i = 1 THEN 0 ELSE Offsets(sizes)[i - 1] + sizes[i - 1]
  BY <1>1, <1>6
<1> DEFINE at == Offsets(sizes)
           Wrong == {i \in 1 .. n : at[i] \notin Nat}
<1>8. DOMAIN at = 1 .. n /\ at = [i \in 1 .. n |-> at[i]]
  BY <1>1, <1>6
<1> HIDE DEF F, at
<1>9. Wrong = {}
  <2>1. SUFFICES ASSUME Wrong # {} PROVE FALSE
    OBVIOUS
  <2>2. PICK m \in Wrong : \A j \in Wrong : m <= j
    <3>1. Wrong \subseteq Nat
      OBVIOUS
    <3>2. QED
      BY <2>1, <3>1, LeastNumber, Zenon
  <2>3. m # 1
    BY <1>7, <2>2 DEF at
  <2>4. m - 1 \in 1 .. n /\ ~ m <= m - 1
    BY <2>2, <2>3
  <2>5. at[m - 1] \in Nat /\ sizes[m - 1] \in Nat
    BY <1>1, <2>2, <2>4
  <2>6. at[m] = at[m - 1] + sizes[m - 1]
    BY <1>7, <2>2, <2>3 DEF at
  <2>7. QED
    BY <2>2, <2>5, <2>6
<1>10. at \in [1 .. n -> Nat]
  BY <1>8, <1>9
<1>11. QED
  BY <1>7, <1>10 DEF at

\* What is where in a sequence put behind another.
LEMMA ConcatFacts ==
  ASSUME NEW S, NEW s \in Seq(S), NEW t \in Seq(S)
  PROVE  /\ s \o t \in Seq(S)
         /\ Len(s) \in Nat /\ Len(t) \in Nat
         /\ Len(s \o t) = Len(s) + Len(t)
         /\ \A m \in 1 .. Len(s) : (s \o t)[m] = s[m]
         /\ \A m \in 1 .. Len(t) : (s \o t)[Len(s) + m] = t[m]
         /\ \A m \in 1 .. Len(s \o t) : m \in 1 .. Len(s) \/ m - Len(s) \in 1 .. Len(t)
<1>1. s \o t \in Seq(S) /\ Len(s \o t) = Len(s) + Len(t) /\ Len(s) \in Nat /\ Len(t) \in Nat
  BY ConcatProperties, LenProperties
<1>2. \A m \in 1 .. Len(s) + Len(t) : (s \o t)[m] = IF m <= Len(s) THEN s[m] ELSE t[m - Len(s)]
  BY ConcatProperties
<1>3. \A m \in 1 .. Len(s) : m \in 1 .. Len(s) + Len(t) /\ m <= Len(s)
  BY <1>1
<1>4. \A m \in 1 .. Len(t) : /\ Len(s) + m \in 1 .. Len(s) + Len(t) /\ ~ Len(s) + m <= Len(s)
                             /\ Len(s) + m - Len(s) = m
  BY <1>1
<1>5. \A m \in 1 .. Len(s \o t) : m \in 1 .. Len(s) \/ m - Len(s) \in 1 .. Len(t)
  BY <1>1
<1>6. QED
  BY <1>1, <1>2, <1>3, <1>4, <1>5

\* Each of the first n pieces is at its offset in flat, and there is nothing else.
Places(flat, n, seqs, off) ==
  /\ Len(flat) = off[n] + Len(seqs[n])
  /\ \A i \in 1 .. n :
       /\ off[i] + Len(seqs[i]) <= Len(flat)
       /\ \A j \in 1 .. Len(seqs[i]) : flat[off[i] + j] = seqs[i][j]
  /\ \A m \in 1 .. Len(flat) : \E i \in 1 .. n : m - off[i] \in 1 .. Len(seqs[i])

\* One more piece.
LEMMA OneMorePlace ==
  ASSUME NEW S, NEW n \in Nat, NEW k \in 2 .. n, NEW s \in Seq(S),
         NEW seqs \in [1 .. n -> Seq(S)], NEW off \in [1 .. n -> Nat], off[k] = off[k - 1] + Len(seqs[k - 1]),
         Places(s, k - 1, seqs, off)
  PROVE  Places(s \o seqs[k], k, seqs, off)
<1>1. k \in 1 .. k /\ k \in 1 .. n /\ 1 .. k \subseteq 1 .. n /\ \A i \in 1 .. k : i = k \/ i \in 1 .. k - 1
  OBVIOUS
<1>2. PICK t \in Seq(S) : t = seqs[k]
  BY <1>1
<1>3. /\ Len(s) \in Nat /\ Len(t) \in Nat
      /\ Len(s \o t) = Len(s) + Len(t)
      /\ \A m \in 1 .. Len(s) : (s \o t)[m] = s[m]
      /\ \A m \in 1 .. Len(t) : (s \o t)[Len(s) + m] = t[m]
      /\ \A m \in 1 .. Len(s \o t) : m \in 1 .. Len(s) \/ m - Len(s) \in 1 .. Len(t)
  BY ConcatFacts
<1>4. \A i \in 1 .. n : off[i] \in Nat /\ seqs[i] \in Seq(S) /\ Len(seqs[i]) \in Nat
  <2>1. \A i \in 1 .. n : off[i] \in Nat /\ seqs[i] \in Seq(S)
    OBVIOUS
  <2>2. QED
    BY <2>1, LenProperties
<1>5. off[k] = Len(s)
  BY DEF Places
<1>6. ASSUME NEW i \in 1 .. k
      PROVE  /\ off[i] + Len(seqs[i]) <= Len(s \o t)
             /\ \A j \in 1 .. Len(seqs[i]) : (s \o t)[off[i] + j] = seqs[i][j]
  <2>1. CASE i = k
    <3>1. off[i] = Len(s) /\ seqs[i] = t
      BY <1>2, <1>5, <2>1
    <3>2. Len(s) + Len(t) <= Len(s \o t)
      BY <1>3
    <3>3. QED
      BY <1>3, <3>1, <3>2
  <2>2. CASE i \in 1 .. k - 1
    <3>1. /\ off[i] + Len(seqs[i]) <= Len(s)
          /\ \A j \in 1 .. Len(seqs[i]) : s[off[i] + j] = seqs[i][j]
      BY <2>2 DEF Places
    <3>2. off[i] \in Nat /\ Len(seqs[i]) \in Nat
      BY <1>1, <1>4
    <3>3. \A j \in 1 .. Len(seqs[i]) : off[i] + j \in 1 .. Len(s)
      <4>1. PICK a \in Nat, l \in Nat, n1 \in Nat : a = off[i] /\ l = Len(seqs[i]) /\ n1 = Len(s)
        BY <1>3, <3>2
      <4>2. a + l <= n1
        BY <3>1, <4>1
      <4>3. \A j \in 1 .. l : a + j \in 1 .. n1
        BY <4>2
      <4>4. QED
        BY <4>1, <4>3
    <3>4. \A j \in 1 .. Len(seqs[i]) : (s \o t)[off[i] + j] = seqs[i][j]
      BY <1>3, <3>1, <3>3
    <3>5. off[i] + Len(seqs[i]) <= Len(s \o t)
      BY <1>3, <3>1, <3>2, SMTT(20)
    <3>6. QED
      BY <3>4, <3>5
  <2>3. QED
    BY <1>1, <2>1, <2>2
<1>7. ASSUME NEW m \in 1 .. Len(s \o t)
      PROVE  \E i \in 1 .. k : m - off[i] \in 1 .. Len(seqs[i])
  <2>1. CASE m \in 1 .. Len(s)
    <3>1. PICK i \in 1 .. k - 1 : m - off[i] \in 1 .. Len(seqs[i])
      BY <2>1 DEF Places
    <3>2. i \in 1 .. k
      OBVIOUS
    <3>3. QED
      BY <3>1, <3>2
  <2>2. CASE m - Len(s) \in 1 .. Len(t)
    BY <1>1, <1>2, <1>5, <2>2
  <2>3. QED
    BY <1>3, <2>1, <2>2
<1>8. Len(s \o t) = off[k] + Len(seqs[k])
  BY <1>2, <1>3, <1>5
<1>9. Places(s \o t, k, seqs, off)
  BY <1>6, <1>7, <1>8 DEF Places
<1>10. QED
  BY <1>2, <1>9

\* Each piece of a flattened sequence is at its offset.
LEMMA FlattenPlaces ==
  ASSUME NEW S, NEW n \in Nat \ {0}, NEW seqs \in [1 .. n -> Seq(S)],
         NEW off \in [1 .. n -> Nat], off[1] = 0,
         \A i \in 2 .. n : off[i] = off[i - 1] + Len(seqs[i - 1])
  PROVE  FlattenSeq(seqs) \in Seq(S) /\ Places(FlattenSeq(seqs), n, seqs, off)
<1>1. PICK fl \in [1 .. n -> Seq(S)] : Joined(fl, n, seqs) /\ FlattenSeq(seqs) = fl[n]
  BY FlattenFacts
<1>2. 1 \in 1 .. n /\ n \in 1 .. n /\ 1 .. 1 = {1}
  OBVIOUS
<1>3. \A i \in 1 .. n : /\ fl[i] \in Seq(S) /\ seqs[i] \in Seq(S) /\ off[i] \in Nat
                        /\ Len(seqs[i]) \in Nat
  <2>1. \A i \in 1 .. n : fl[i] \in Seq(S) /\ seqs[i] \in Seq(S) /\ off[i] \in Nat
    OBVIOUS
  <2>2. QED
    BY <2>1, LenProperties
<1>4. Places(fl[1], 1, seqs, off)
  <2>1. fl[1] = seqs[1] /\ off[1] = 0 /\ Len(seqs[1]) \in Nat
    BY <1>1, <1>2, <1>3 DEF Joined
  <2>2. QED
    BY <1>2, <2>1 DEF Places
<1>5. ASSUME NEW k \in 2 .. n, Places(fl[k - 1], k - 1, seqs, off)
      PROVE  Places(fl[k], k, seqs, off)
  <2>1. k \in 1 .. n /\ k - 1 \in 1 .. n
    OBVIOUS
  <2>2. off[k] = off[k - 1] + Len(seqs[k - 1]) /\ fl[k - 1] \in Seq(S)
    BY <1>3, <2>1
  <2>3. Places(fl[k - 1] \o seqs[k], k, seqs, off)
    BY <1>5, <2>2, OneMorePlace
  <2>4. fl[k] = fl[k - 1] \o seqs[k]
    BY <1>1 DEF Joined
  <2>5. QED
    BY <2>3, <2>4
<1> DEFINE Wrong == {k \in 1 .. n : ~ Places(fl[k], k, seqs, off)}
<1>6. Wrong = {}
  <2>1. SUFFICES ASSUME Wrong # {} PROVE FALSE
    OBVIOUS
  <2>2. PICK k \in Wrong : \A j \in Wrong : k <= j
    <3>1. Wrong \subseteq Nat
      OBVIOUS
    <3>2. QED
      BY <2>1, <3>1, LeastNumber, Zenon
  <2>3. k \in 2 .. n
    BY <1>4, <2>2
  <2>4. k - 1 \in 1 .. n /\ ~ k <= k - 1
    BY <2>3
  <2>5. Places(fl[k - 1], k - 1, seqs, off)
    BY <2>2, <2>4
  <2>6. QED
    BY <1>5, <2>2, <2>3, <2>5
<1>7. Places(fl[n], n, seqs, off)
  BY <1>2, <1>6
<1>8. fl[n] \in Seq(S)
  BY <1>2, <1>3
<1>9. QED
  BY <1>1, <1>7, <1>8

\* An object is its bytes, one after the other.
LEMMA ObjectBytesFacts ==
  ASSUME NEW o \in Objects
  PROVE  /\ Size[o] \in Nat
         /\ ObjectBytes(o) \in Seq(ObjectByte)
         /\ Len(ObjectBytes(o)) = Size[o]
         /\ \A j \in 1 .. Size[o] : ObjectBytes(o)[j] = <<[object |-> o], j>>
<1>1. Size[o] \in Nat
  BY SizeAssumption
<1>2. ObjectBytes(o) = [j \in 1 .. Size[o] |-> <<[object |-> o], j>>]
  BY DEF ObjectBytes, Cells
<1>3. \A j \in 1 .. Size[o] : <<[object |-> o], j>> \in ObjectByte
  BY <1>1 DEF ObjectByte
<1>4. ObjectBytes(o) \in [1 .. Size[o] -> ObjectByte]
  BY <1>2, <1>3
<1>5. ObjectBytes(o) \in Seq(ObjectByte) /\ Len(ObjectBytes(o)) = Size[o]
  <2> HIDE <1>2
  <2>1. QED
    BY <1>1, <1>4, SeqDef, LenProperties
<1>6. QED
  BY <1>1, <1>2, <1>5

\* The n bytes of f behind the first p encode v.
Encoded(f, p, n, v) == \A i \in 1 .. n : f[p + i] = <<v, i>>

\* The bytes of object i of a bunch are at its offset.
HasObjects(raw, n, objs, off) ==
  \A i \in 1 .. n : /\ off[i] + Size[objs[i]] <= Len(raw)
                    /\ Encoded(raw, off[i], Size[objs[i]], [object |-> objs[i]])

\* The bytes of a bunch have every object at its offset (get_data, np.cumsum).
LEMMA RawFacts ==
  ASSUME NEW n \in Nat \ {0}, NEW objs \in [1 .. n -> Objects],
         NEW sizes, sizes = [i \in 1 .. n |-> Size[objs[i]]]
  PROVE  /\ Raw(objs) \in Seq(ObjectByte)
         /\ sizes \in [1 .. n -> Nat]
         /\ Offsets(sizes) \in [1 .. n -> Nat]
         /\ HasObjects(Raw(objs), n, objs, Offsets(sizes))
<1> DEFINE seqs == [i \in 1 .. n |-> ObjectBytes(objs[i])]
           off == Offsets(sizes)
<1>1. \A i \in 1 .. n : objs[i] \in Objects
  OBVIOUS
<1>2. sizes \in [1 .. n -> Nat] /\ \A i \in 1 .. n : sizes[i] = Size[objs[i]]
  BY <1>1, SizeAssumption
<1>3. /\ off \in [1 .. n -> Nat]
      /\ \A i \in 1 .. n : off[i] = IF i = 1 THEN 0 ELSE off[i - 1] + sizes[i - 1]
  BY <1>2, OffsetsFacts
<1>4. /\ seqs \in [1 .. n -> Seq(ObjectByte)]
      /\ \A i \in 1 .. n : /\ seqs[i] = ObjectBytes(objs[i])
                           /\ Len(seqs[i]) = Size[objs[i]] /\ Size[objs[i]] \in Nat
  BY <1>1, ObjectBytesFacts
<1>5. Raw(objs) = FlattenSeq(seqs)
  <2>1. DOMAIN objs = 1 .. n
    OBVIOUS
  <2>2. QED
    BY <2>1 DEF Raw
<1> HIDE DEF seqs, off
<1>6. off[1] = 0
  BY <1>3
<1>7. \A i \in 2 .. n : off[i] = off[i - 1] + Len(seqs[i - 1])
  <2>1. \A i \in 2 .. n : i \in 1 .. n /\ i # 1 /\ i - 1 \in 1 .. n
    OBVIOUS
  <2>2. QED
    <3>1. ASSUME NEW i \in 2 .. n
          PROVE  off[i] = off[i - 1] + Len(seqs[i - 1])
      <4>1. i \in 1 .. n /\ i # 1 /\ i - 1 \in 1 .. n
        BY <2>1
      <4>2. off[i] = off[i - 1] + sizes[i - 1]
        BY <1>3, <4>1
      <4>3. sizes[i - 1] = Size[objs[i - 1]] /\ Len(seqs[i - 1]) = Size[objs[i - 1]]
        BY <1>2, <1>4, <4>1
      <4>4. QED
        BY <4>2, <4>3
    <3>2. QED
      BY <3>1
<1>8. FlattenSeq(seqs) \in Seq(ObjectByte) /\ Places(FlattenSeq(seqs), n, seqs, off)
  BY <1>3, <1>4, <1>6, <1>7, FlattenPlaces
<1>9. ASSUME NEW i \in 1 .. n
      PROVE  /\ off[i] + Size[objs[i]] <= Len(Raw(objs))
             /\ \A j \in 1 .. Size[objs[i]] : Raw(objs)[off[i] + j] = <<[object |-> objs[i]], j>>
  <2>1. Len(seqs[i]) = Size[objs[i]] /\ seqs[i] = ObjectBytes(objs[i])
    BY <1>4
  <2>2. \A j \in 1 .. Size[objs[i]] : ObjectBytes(objs[i])[j] = <<[object |-> objs[i]], j>>
    BY <1>1, ObjectBytesFacts
  <2>3. QED
    BY <1>5, <1>8, <2>1, <2>2 DEF Places
<1>10. QED
  <2>1. HasObjects(Raw(objs), n, objs, off)
    BY <1>9 DEF HasObjects, Encoded
  <2>2. QED
    BY <1>2, <1>3, <1>5, <1>8, <2>1 DEF off

------------------------------------------------------------------------------
(* Reading values, and the order of the index *)

\* A value is read where its bytes are.
LEMMA ValueRead ==
  ASSUME NEW S, NEW f \in Seq(S), NEW p \in Nat, NEW n \in Nat \ {0}, NEW v,
         p + n <= Len(f), Encoded(f, p, n, v)
  PROVE  Value(f, p, n) = v
<1>1. Len(f) \in Nat /\ p + 1 \in Nat /\ p + n \in Nat
  BY LenProperties
<1>2. SubSeq(f, p + 1, p + n) = [i \in 1 .. n |-> f[p + i]]
  <2>1. SubSeq(f, p + 1, p + n) = [i \in 1 .. (1 + p + n - (p + 1)) |-> f[i + (p + 1) - 1]]
    BY <1>1
  <2>2. 1 + p + n - (p + 1) = n
    OBVIOUS
  <2>3. \A i \in 1 .. n : i + (p + 1) - 1 = p + i
    OBVIOUS
  <2>4. QED
    BY <2>1, <2>2, <2>3
<1>3. [i \in 1 .. n |-> f[p + i]] = [i \in 1 .. n |-> <<v, i>>]
  BY DEF Encoded
<1>4. f[p + 1][1] = v
  <2>1. 1 \in 1 .. n
    OBVIOUS
  <2>2. f[p + 1] = <<v, 1>>
    BY <2>1 DEF Encoded
  <2>3. QED
    BY <2>2
<1>5. SubSeq(f, p + 1, p + n) = Cells(f[p + 1][1], n)
  BY <1>2, <1>3, <1>4 DEF Cells
<1>6. p >= 0 /\ n > 0
  OBVIOUS
<1>7. QED
  BY <1>4, <1>5, <1>6 DEF Value

\* What is read as a trailer begins with the first byte of one.
LEMMA TrailerRead ==
  ASSUME NEW S, NEW f \in Seq(S), NEW p \in Int, NEW n \in Nat \ {0},
         "bunchoff" \in DOMAIN Value(f, p, n)
  PROVE  /\ p >= 0 /\ p + n <= Len(f)
         /\ f[p + 1] = <<Value(f, p, n), 1>>
<1>1. DOMAIN [garbage |-> TRUE] = {"garbage"}
  OBVIOUS
<1>2. "bunchoff" \notin DOMAIN [garbage |-> TRUE]
  BY <1>1
<1>3. p >= 0 /\ p + n <= Len(f) /\ SubSeq(f, p + 1, p + n) = Cells(f[p + 1][1], n)
      /\ Value(f, p, n) = f[p + 1][1]
  BY <1>2 DEF Value
<1>4. Len(f) \in Nat
  BY LenProperties
<1>5. SubSeq(f, p + 1, p + n) = [i \in 1 .. (1 + p + n - (p + 1)) |-> f[i + (p + 1) - 1]]
  BY <1>3, <1>4
<1>6. 1 \in 1 .. (1 + p + n - (p + 1)) /\ 1 + (p + 1) - 1 = p + 1
  BY <1>3
<1>7. SubSeq(f, p + 1, p + n)[1] = f[p + 1]
  BY <1>5, <1>6
<1>8. Cells(f[p + 1][1], n)[1] = <<f[p + 1][1], 1>>
  BY DEF Cells
<1>9. QED
  BY <1>3, <1>7, <1>8

\* Numbers that grow and are the first ones are the first ones in order.
LEMMA InOrderOfNumbers ==
  ASSUME NEW m \in Nat, NEW s \in [1 .. m -> 0 .. m - 1],
         \A i, j \in DOMAIN s : i < j => s[i] < s[j]
  PROVE  \A i \in 1 .. m : s[i] = i - 1
<1>1. DOMAIN s = 1 .. m /\ \A i \in 1 .. m : s[i] \in 0 .. m - 1
  OBVIOUS
<1> DEFINE Low == {i \in 1 .. m : s[i] < i - 1}
           High == {d \in 0 .. m - 1 : s[m - d] > m - d - 1}
<1>2. Low = {}
  <2>1. SUFFICES ASSUME Low # {} PROVE FALSE
    OBVIOUS
  <2>2. PICK i \in Low : \A j \in Low : i <= j
    <3>1. Low \subseteq Nat
      OBVIOUS
    <3>2. QED
      BY <2>1, <3>1, LeastNumber, Zenon
  <2>3. i \in 1 .. m /\ s[i] < i - 1 /\ s[i] \in 0 .. m - 1
    BY <1>1, <2>2
  <2>4. i # 1
    BY <2>3
  <2>5. i - 1 \in 1 .. m /\ i - 1 < i /\ ~ i <= i - 1
    BY <2>3, <2>4
  <2>6. ~ s[i - 1] < (i - 1) - 1 /\ s[i - 1] \in 0 .. m - 1
    BY <1>1, <2>2, <2>5
  <2>7. s[i - 1] < s[i]
    BY <1>1, <2>3, <2>5
  <2>8. QED
    BY <2>3, <2>6, <2>7
<1>3. High = {}
  <2>1. SUFFICES ASSUME High # {} PROVE FALSE
    OBVIOUS
  <2>2. PICK d \in High : \A e \in High : d <= e
    <3>1. High \subseteq Nat
      OBVIOUS
    <3>2. QED
      BY <2>1, <3>1, LeastNumber, Zenon
  <2>3. d \in 0 .. m - 1 /\ s[m - d] > m - d - 1
    BY <2>2
  <2>4. m - d \in 1 .. m /\ s[m - d] \in 0 .. m - 1
    BY <1>1, <2>3
  <2>5. d # 0
    BY <2>3, <2>4
  <2>6. d - 1 \in 0 .. m - 1 /\ ~ d <= d - 1 /\ m - (d - 1) = m - d + 1
    BY <2>3, <2>5
  <2>7. ~ s[m - (d - 1)] > m - (d - 1) - 1
    BY <2>2, <2>6
  <2>8. m - d + 1 \in 1 .. m /\ m - d < m - d + 1 /\ s[m - d + 1] \in 0 .. m - 1
    BY <1>1, <2>3, <2>5
  <2>9. s[m - d] < s[m - d + 1]
    BY <1>1, <2>4, <2>8
  <2>10. QED
    BY <2>3, <2>4, <2>6, <2>7, <2>8, <2>9
<1>4. ASSUME NEW i \in 1 .. m
      PROVE  s[i] = i - 1
  <2>1. ~ s[i] < i - 1 /\ s[i] \in 0 .. m - 1
    BY <1>1, <1>2
  <2>2. m - i \in 0 .. m - 1 /\ m - (m - i) = i
    OBVIOUS
  <2>3. ~ s[m - (m - i)] > m - (m - i) - 1
    BY <1>3, <2>2
  <2>4. QED
    BY <2>1, <2>2, <2>3
<1>5. QED
  BY <1>4

\* The index of the bunches with the first numbers has one after the other.
LEMMA IndexFacts ==
  ASSUME NEW m \in Nat, NEW found, DOMAIN found = 0 .. m - 1
  PROVE  IndexOf(found) = IF m = 0 THEN << >> ELSE FlattenSeq([k \in 1 .. m |-> Located(found[k - 1])])
<1> DEFINE Grows(s) == \A i, j \in DOMAIN s : i < j => s[i] < s[j]
<1>1. Cardinality(0 .. m - 1) = m
  <2>1. Cardinality(0 .. m - 1) = IF 0 > m - 1 THEN 0 ELSE (m - 1) - 0 + 1
    BY FS_Interval
  <2>2. QED
    BY <2>1
<1>2. PICK sorted : sorted = CHOOSE s \in [1 .. Cardinality(DOMAIN found) -> DOMAIN found] : Grows(s)
  OBVIOUS
<1>3. sorted \in [1 .. m -> 0 .. m - 1] /\ Grows(sorted)
  <2>1. [i \in 1 .. m |-> i - 1] \in [1 .. m -> 0 .. m - 1]
    OBVIOUS
  <2>2. Grows([i \in 1 .. m |-> i - 1])
    OBVIOUS
  <2>3. [1 .. Cardinality(DOMAIN found) -> DOMAIN found] = [1 .. m -> 0 .. m - 1]
    BY <1>1
  <2> HIDE DEF Grows
  <2>4. QED
    BY <1>2, <2>1, <2>2, <2>3
<1>4. \A i \in 1 .. m : sorted[i] = i - 1
  BY <1>3, InOrderOfNumbers
<1>5. IndexOf(found) = FlattenSeq([k \in DOMAIN sorted |-> Located(found[sorted[k]])])
  BY <1>2 DEF IndexOf
<1> HIDE DEF Grows
<1>6. [k \in DOMAIN sorted |-> Located(found[sorted[k]])] = [k \in 1 .. m |-> Located(found[k - 1])]
  BY <1>3, <1>4
<1>7. CASE m = 0
  <2>1. [k \in 1 .. m |-> Located(found[k - 1])] = << >>
    BY <1>7
  <2>2. FlattenSeq(<< >>) = << >>
    BY DEF FlattenSeq
  <2>3. QED
    BY <1>5, <1>6, <1>7, <2>1, <2>2
<1>8. QED
  BY <1>5, <1>6, <1>7

------------------------------------------------------------------------------
(* The bunches of a file *)

\* Numbers of the parts of a bunch.
LEMMA BunchNumbers ==
  ASSUME TypeOK, Layout, NEW k \in 1 .. N
  PROVE  /\ N \in Nat /\ flushes[k].end \in Nat /\ flushes[k].count \in Nat
         /\ Before(k) \in Nat /\ Count(k) \in Nat \ {0} /\ IndexLen(k) \in Nat \ {0}
         /\ StartOf(k) \in Nat /\ DataEnd(k) \in Nat /\ TrailerAt(k) \in Nat
         /\ HeaderSize <= StartOf(k) /\ StartOf(k) <= DataEnd(k) /\ DataEnd(k) < TrailerAt(k)
         /\ TrailerAt(k) = DataEnd(k) + IndexLen(k)
         /\ flushes[k].end = TrailerAt(k) + TrailerSize
         /\ Before(k) + Count(k) = flushes[k].count
         /\ flushes[k].count <= Len(objects) /\ Len(objects) \in Nat
<1>1. /\ N \in Nat /\ Len(objects) \in Nat
      /\ \A j \in 1 .. N : flushes[j].end \in Nat /\ flushes[j].count \in Nat
  <2>1. flushes \in Seq([end : Nat, count : Nat]) /\ objects \in Seq(Objects)
    BY DEF TypeOK
  <2>2. \A j \in 1 .. N : flushes[j] \in [end : Nat, count : Nat]
    BY <2>1, ElementOfSeq DEF N
  <2>3. QED
    BY <2>1, <2>2, LenProperties DEF N
<1>2. IndexSize \in Nat \ {0} /\ TrailerSize \in Nat \ {0} /\ HeaderSize \in Nat
  BY FormatAssumption, HeaderAssumption
<1>3. /\ Before(k) < flushes[k].count /\ flushes[k].count <= Len(objects)
      /\ StartOf(k) <= DataEnd(k)
  BY DEF Layout
<1>4. k # 1 => k - 1 \in 1 .. N
  BY <1>1
<1>5. Before(k) \in Nat /\ StartOf(k) \in Nat
  BY <1>1, <1>2, <1>4 DEF Before, StartOf
<1>6. Count(k) \in Nat \ {0} /\ Before(k) + Count(k) = flushes[k].count
  BY <1>1, <1>3, <1>5 DEF Count
<1>7. IndexLen(k) \in Nat \ {0}
  <2>1. \A a, b \in Nat \ {0} : a * b \in Nat \ {0}
    OBVIOUS
  <2>2. QED
    BY <1>2, <1>6, <2>1 DEF IndexLen
<1>8. TrailerAt(k) \in Int /\ TrailerAt(k) = flushes[k].end - TrailerSize
      /\ DataEnd(k) = TrailerAt(k) - IndexLen(k)
  BY <1>1, <1>2 DEF TrailerAt, DataEnd
<1>9. HeaderSize <= StartOf(k)
  <2>1. 1 \in 1 .. N
    BY <1>1
  <2>2. HeaderSize <= flushes[1].end
    <3>1. StartOf(1) = HeaderSize /\ StartOf(1) <= DataEnd(1)
      BY <2>1 DEF Layout, StartOf
    <3>2. Before(1) = 0 /\ Before(1) < flushes[1].count
      BY <2>1 DEF Layout, Before
    <3>3. Count(1) \in Nat \ {0}
      BY <1>1, <2>1, <3>2 DEF Count
    <3>4. IndexLen(1) \in Nat \ {0}
      <4>1. \A a, b \in Nat \ {0} : a * b \in Nat \ {0}
        OBVIOUS
      <4>2. QED
        BY <1>2, <3>3, <4>1 DEF IndexLen
    <3>5. DataEnd(1) = flushes[1].end - TrailerSize - IndexLen(1)
      BY DEF DataEnd, TrailerAt
    <3>6. flushes[1].end \in Nat
      BY <1>1, <2>1
    <3>7. QED
      BY <1>2, <3>1, <3>4, <3>5, <3>6
  <2>3. CASE k = 1
    BY <1>2, <2>3 DEF StartOf
  <2>4. CASE k # 1
    <3>1. k - 1 \in 1 .. N /\ StartOf(k) = flushes[k - 1].end
      BY <1>4, <2>4 DEF StartOf
    <3>2. k - 1 = 1 \/ 1 < k - 1
      BY <3>1
    <3>3. 1 < k - 1 => flushes[1].end < flushes[k - 1].end
      BY <2>1, <3>1 DEF Layout
    <3>4. flushes[1].end \in Nat /\ flushes[k - 1].end \in Nat
      BY <1>1, <2>1, <3>1
    <3>5. QED
      BY <1>2, <2>2, <3>1, <3>2, <3>3, <3>4
  <2>5. QED
    BY <2>3, <2>4
<1>10. DataEnd(k) \in Nat /\ TrailerAt(k) \in Nat /\ DataEnd(k) < TrailerAt(k)
       /\ TrailerAt(k) = DataEnd(k) + IndexLen(k)
  BY <1>3, <1>5, <1>7, <1>8
<1>11. flushes[k].end = TrailerAt(k) + TrailerSize
  BY <1>1, <1>2, <1>8
<1>12. QED
  BY <1>1, <1>3, <1>5, <1>6, <1>7, <1>9, <1>10, <1>11

\* Bunches come one after the other.
LEMMA BunchOrder ==
  ASSUME TypeOK, Layout, NEW j \in 1 .. N, NEW k \in 1 .. N
  PROVE  /\ j < k => /\ flushes[j].end <= StartOf(k) /\ TrailerAt(j) < TrailerAt(k)
                     /\ flushes[j].end < flushes[k].end
         /\ TrailerAt(j) = TrailerAt(k) => j = k
<1>1. ASSUME NEW a \in 1 .. N, NEW b \in 1 .. N, a < b
      PROVE  /\ flushes[a].end <= StartOf(b) /\ TrailerAt(a) < TrailerAt(b)
             /\ flushes[a].end < flushes[b].end
  <2>1. /\ flushes[a].end < flushes[b].end
        /\ flushes[a].end \in Nat /\ flushes[b].end \in Nat /\ TrailerSize \in Nat
    BY <1>1, BunchNumbers, HeaderAssumption DEF Layout
  <2>2. TrailerAt(a) < TrailerAt(b)
    BY <2>1 DEF TrailerAt
  <2>3. b # 1 /\ b - 1 \in 1 .. N /\ (a = b - 1 \/ a < b - 1)
    BY <1>1, BunchNumbers
  <2>4. StartOf(b) = flushes[b - 1].end /\ flushes[b - 1].end \in Nat
    BY <2>3, BunchNumbers DEF StartOf
  <2>5. a < b - 1 => flushes[a].end < flushes[b - 1].end
    BY <1>1, <2>3 DEF Layout
  <2>6. QED
    BY <2>1, <2>2, <2>3, <2>4, <2>5
<1>2. j < k \/ k < j \/ j = k
  BY BunchNumbers
<1>3. TrailerAt(j) \in Nat /\ TrailerAt(k) \in Nat
  BY BunchNumbers
<1>4. QED
  BY <1>1, <1>2, <1>3

\* The objects of a bunch and their sizes.
LEMMA BunchObjects ==
  ASSUME TypeOK, Layout, NEW k \in 1 .. N
  PROVE  /\ ObjectsOf(k) \in [1 .. Count(k) -> Objects]
         /\ SizesOf(k) = [i \in 1 .. Count(k) |-> Size[ObjectsOf(k)[i]]]
         /\ SizesOf(k) \in [1 .. Count(k) -> Nat]
<1>1. \A i \in 1 .. Count(k) : objects[Before(k) + i] \in Objects
  <2>1. SUFFICES ASSUME NEW i \in 1 .. Count(k) PROVE objects[Before(k) + i] \in Objects
    OBVIOUS
  <2>2. Before(k) + i \in 1 .. Len(objects)
    <3>1. PICK b \in Nat, c \in Nat, l \in Nat :
            b = Before(k) /\ c = Count(k) /\ l = Len(objects) /\ b + c <= l
      BY BunchNumbers
    <3>2. i \in 1 .. c
      BY <3>1
    <3>3. b + i \in 1 .. l
      BY <3>1, <3>2
    <3>4. QED
      BY <3>1, <3>3
  <2>3. objects \in Seq(Objects)
    BY DEF TypeOK
  <2>4. QED
    BY <2>2, <2>3, ElementOfSeq
<1>2. \A o \in Objects : Size[o] \in Nat
  BY SizeAssumption
<1>3. QED
  BY <1>1, <1>2 DEF ObjectsOf, SizesOf

\* What a reader's scan finds of the first k bunches.
EntryOf(k) == BunchEntry(TrailerOf(k), SizesOf(k))
FoundOf(k) == [torn |-> FALSE, found |-> [b \in 0 .. k - 1 |-> EntryOf(b + 1)]]

\* The entry of the dictionary for bunch k (_scan_file).
LEMMA EntryFields ==
  ASSUME TypeOK, Layout, NEW k \in 1 .. N
  PROVE  EntryOf(k) = [bunch_n |-> k - 1, start |-> StartOf(k),
                       bunchsize |-> DataEnd(k) - StartOf(k), sizes |-> SizesOf(k)]
<1>1. /\ StartOf(k) \in Nat /\ DataEnd(k) \in Nat /\ TrailerAt(k) \in Nat /\ IndexLen(k) \in Nat
      /\ TrailerAt(k) = DataEnd(k) + IndexLen(k)
  BY BunchNumbers
<1>2. /\ TrailerOf(k).fileoff - TrailerOf(k).dataoff = StartOf(k)
      /\ TrailerOf(k).bunch_n = k - 1
      /\ TrailerOf(k).dataoff = TrailerAt(k) - StartOf(k)
      /\ TrailerOf(k).ndata = Count(k)
  BY <1>1 DEF TrailerOf
<1>3. TrailerOf(k).dataoff - TrailerOf(k).ndata * IndexSize = DataEnd(k) - StartOf(k)
  <2>1. TrailerOf(k).ndata * IndexSize = IndexLen(k)
    BY <1>2 DEF IndexLen
  <2>2. QED
    BY <1>1, <1>2, <2>1
<1>4. QED
  BY <1>2, <1>3 DEF EntryOf, BunchEntry

\* The dictionary with one more bunch.
LEMMA OneMoreFound ==
  ASSUME TypeOK, Layout, NEW k \in 1 .. N
  PROVE  /\ k = 1 => WithEntry(<< >>, k - 1, EntryOf(k)) = FoundOf(k).found
         /\ k # 1 => WithEntry(FoundOf(k - 1).found, k - 1, EntryOf(k)) = FoundOf(k).found
<1>1. /\ k \in Nat \ {0} /\ 0 .. k - 1 = 0 .. k - 2 \union {k - 1} /\ k - 1 \notin 0 .. k - 2
      /\ k - 1 + 1 = k /\ (k - 1) - 1 = k - 2
  OBVIOUS
<1>2. CASE k = 1
  <2>1. 0 .. k - 1 = {} \union {k - 1} /\ DOMAIN << >> = {}
    BY <1>2
  <2>2. QED
    BY <1>1, <1>2, <2>1 DEF WithEntry, FoundOf
<1>3. CASE k # 1
  <2>1. FoundOf(k - 1).found = [b \in 0 .. k - 2 |-> EntryOf(b + 1)]
    BY <1>1 DEF FoundOf
  <2>2. FoundOf(k).found = [b \in 0 .. k - 1 |-> EntryOf(b + 1)]
    BY DEF FoundOf
  <2>3. WithEntry(FoundOf(k - 1).found, k - 1, EntryOf(k))
          = [b \in 0 .. k - 2 \union {k - 1} |->
               IF b \in 0 .. k - 2 THEN EntryOf(b + 1) ELSE EntryOf(k)]
    BY <2>1 DEF WithEntry
  <2>4. \A b \in 0 .. k - 1 :
          (IF b \in 0 .. k - 2 THEN EntryOf(b + 1) ELSE EntryOf(k)) = EntryOf(b + 1)
    BY <1>1
  <2>5. [b \in 0 .. k - 1 |-> IF b \in 0 .. k - 2 THEN EntryOf(b + 1) ELSE EntryOf(k)]
          = [b \in 0 .. k - 1 |-> EntryOf(b + 1)]
    BY <2>4
  <2>6. 0 .. k - 2 \union {k - 1} = 0 .. k - 1
    BY <1>1
  <2>7. QED
    BY <1>3, <2>2, <2>3, <2>5, <2>6
<1>4. QED
  BY <1>2, <1>3

------------------------------------------------------------------------------
(* What a reader's scan finds *)

\* The first part of a sequence.
LEMMA PrefixFacts ==
  ASSUME NEW S, NEW s \in Seq(S), NEW n \in 0 .. Len(s)
  PROVE  /\ SubSeq(s, 1, n) \in Seq(S)
         /\ n \in Nat /\ Len(s) \in Nat
         /\ Len(SubSeq(s, 1, n)) = n
         /\ \A p \in 1 .. n : SubSeq(s, 1, n)[p] = s[p] /\ p \in 1 .. Len(s)
<1>1. Len(s) \in Nat /\ n \in Nat /\ n <= Len(s)
  BY LenProperties
<1>2. SubSeq(s, 1, n) = [p \in 1 .. n |-> s[p]]
  <2>1. SubSeq(s, 1, n) = [p \in 1 .. (1 + n - 1) |-> s[p + 1 - 1]]
    BY <1>1
  <2>2. 1 + n - 1 = n /\ \A p \in 1 .. n : p + 1 - 1 = p
    BY <1>1
  <2>3. QED
    BY <2>1, <2>2
<1>3. \A p \in 1 .. n : p \in 1 .. Len(s) /\ s[p] \in S
  BY <1>1, ElementOfSeq
<1>4. [p \in 1 .. n |-> s[p]] \in Seq(S) /\ Len([p \in 1 .. n |-> s[p]]) = n
  BY <1>1, <1>3
<1>5. QED
  BY <1>1, <1>2, <1>3, <1>4

\* What is at a place of the file: a byte of the data of a bunch.
LEMMA DataByteAt ==
  ASSUME Bytes, NEW p \in 1 .. Len(file), NEW k \in 1 .. N, StartOf(k) < p, p <= DataEnd(k)
  PROVE  file[p] = DataByte(k, p - StartOf(k))
BY DEF Bytes

\* The same of a byte of the index of a bunch.
LEMMA IndexByteAt ==
  ASSUME Bytes, NEW p \in 1 .. Len(file), NEW k \in 1 .. N, DataEnd(k) < p, p <= TrailerAt(k)
  PROVE  file[p] = <<[sizes |-> SizesOf(k)], p - DataEnd(k)>>
BY DEF Bytes

\* The same of a byte of a trailer.
LEMMA TrailerByteAt ==
  ASSUME Bytes, NEW p \in 1 .. Len(file), NEW k \in 1 .. N,
         TrailerAt(k) < p, p <= flushes[k].end
  PROVE  file[p] = <<TrailerOf(k), p - TrailerAt(k)>>
BY DEF Bytes

\* A bunch that is whole can be read.
LEMMA TrailerBytes ==
  ASSUME TypeOK, Layout, Bytes, NEW n \in 0 .. Len(file), NEW f, f = SubSeq(file, 1, n),
         NEW k \in 1 .. N, flushes[k].end <= n
  PROVE  /\ Value(f, TrailerAt(k), TrailerSize) = TrailerOf(k)
         /\ Value(f, DataEnd(k), IndexLen(k)) = [sizes |-> SizesOf(k)]
<1>1. file \in Seq(Content \X Nat)
  BY DEF TypeOK
<1>2. /\ f \in Seq(Content \X Nat) /\ n \in Nat /\ Len(file) \in Nat /\ Len(f) = n
      /\ \A p \in 1 .. n : f[p] = file[p] /\ p \in 1 .. Len(file)
  BY <1>1, PrefixFacts
<1>3. PICK at \in Nat, de \in Nat, il \in Nat \ {0} :
        /\ at = TrailerAt(k) /\ de = DataEnd(k) /\ il = IndexLen(k)
        /\ at = de + il /\ at + TrailerSize <= n /\ flushes[k].end = at + TrailerSize
  BY BunchNumbers
<1>4. TrailerSize \in Nat \ {0}
  BY HeaderAssumption
<1>5. Encoded(f, at, TrailerSize, TrailerOf(k))
  <2>1. SUFFICES ASSUME NEW i \in 1 .. TrailerSize
                 PROVE  f[at + i] = <<TrailerOf(k), i>>
    BY DEF Encoded
  <2>2. n \in Nat /\ at \in Nat /\ at + TrailerSize <= n /\ i \in Nat /\ 1 <= i /\ i <= TrailerSize
    BY <1>2, <1>3, <1>4
  <2>3. at + i \in 1 .. n /\ at < at + i /\ at + i <= at + TrailerSize /\ at + i - at = i
    BY <1>4, <2>2
  <2>4. at + i \in 1 .. Len(file) /\ f[at + i] = file[at + i]
    BY <1>2, <2>3
  <2>5. file[at + i] = <<TrailerOf(k), i>>
    <3>1. PICK p \in 1 .. Len(file) : p = at + i
      BY <2>4
    <3>2. TrailerAt(k) < p /\ p <= flushes[k].end
      BY <1>3, <2>3, <3>1
    <3>3. file[p] = <<TrailerOf(k), p - TrailerAt(k)>>
      BY <3>2, TrailerByteAt
    <3>4. p - TrailerAt(k) = i
      BY <1>3, <2>3, <3>1
    <3>5. QED
      BY <3>1, <3>3, <3>4
  <2>6. QED
    BY <1>3, <2>3, <2>4, <2>5
<1>6. Encoded(f, de, il, [sizes |-> SizesOf(k)])
  <2>1. SUFFICES ASSUME NEW i \in 1 .. il
                 PROVE  f[de + i] = <<[sizes |-> SizesOf(k)], i>>
    BY DEF Encoded
  <2>2. /\ n \in Nat /\ at \in Nat /\ de \in Nat /\ at = de + il /\ at + TrailerSize <= n
        /\ i \in Nat /\ 1 <= i /\ i <= il
    BY <1>2, <1>3, <1>4
  <2>3. de + i \in 1 .. n /\ de < de + i /\ de + i <= at /\ de + i - de = i
    BY <1>4, <2>2
  <2>4. de + i \in 1 .. Len(file) /\ f[de + i] = file[de + i]
    BY <1>2, <2>3
  <2>5. file[de + i] = <<[sizes |-> SizesOf(k)], i>>
    <3>1. PICK p \in 1 .. Len(file) : p = de + i
      BY <2>4
    <3>2. DataEnd(k) < p /\ p <= TrailerAt(k)
      BY <1>3, <2>3, <3>1
    <3>3. file[p] = <<[sizes |-> SizesOf(k)], p - DataEnd(k)>>
      BY <3>2, IndexByteAt
    <3>4. p - DataEnd(k) = i
      BY <1>3, <2>3, <3>1
    <3>5. QED
      BY <3>1, <3>3, <3>4
  <2>6. QED
    BY <1>3, <2>3, <2>4, <2>5
<1>7. at + TrailerSize <= Len(f) /\ de + il <= Len(f)
  BY <1>2, <1>3, <1>4
<1>8. Value(f, at, TrailerSize) = TrailerOf(k)
  <2>1. f \in Seq(Content \X Nat) /\ at \in Nat /\ at + TrailerSize <= Len(f)
    BY <1>2, <1>7
  <2>2. QED
    BY <1>4, <1>5, <2>1, ValueRead
<1>9. Value(f, de, il) = [sizes |-> SizesOf(k)]
  <2>1. f \in Seq(Content \X Nat) /\ de \in Nat /\ de + il <= Len(f) /\ il \in Nat \ {0}
    BY <1>2, <1>7
  <2>2. QED
    BY <1>6, <2>1, ValueRead
<1>10. QED
  BY <1>3, <1>8, <1>9

\* What can be read as a trailer is that of a whole bunch.
LEMMA OnlyTrailers ==
  ASSUME TypeOK, Layout, Bytes, NEW n \in 0 .. Len(file), NEW f, f = SubSeq(file, 1, n),
         NEW q \in Int, "bunchoff" \in DOMAIN Value(f, q, TrailerSize)
  PROVE  \E k \in 1 .. N : q = TrailerAt(k) /\ flushes[k].end <= n
<1>1. file \in Seq(Content \X Nat)
  BY DEF TypeOK
<1>2. /\ f \in Seq(Content \X Nat) /\ n \in Nat /\ Len(file) \in Nat /\ Len(f) = n
      /\ \A p \in 1 .. n : f[p] = file[p] /\ p \in 1 .. Len(file)
  BY <1>1, PrefixFacts
<1>3. TrailerSize \in Nat \ {0}
  BY HeaderAssumption
<1>4. q >= 0 /\ q + TrailerSize <= n /\ f[q + 1] = <<Value(f, q, TrailerSize), 1>>
  BY <1>2, <1>3, TrailerRead
<1>5. q + 1 \in 1 .. n
  BY <1>2, <1>3, <1>4
<1>6. file[q + 1] = <<Value(f, q, TrailerSize), 1>> /\ q + 1 \in 1 .. Len(file)
  BY <1>2, <1>4, <1>5
<1>7. file[q + 1][1] = Value(f, q, TrailerSize)
  BY <1>6
<1>8. PICK k \in 1 .. N : TrailerAt(k) < q + 1 /\ q + 1 <= flushes[k].end
  BY <1>6, <1>7 DEF Bytes
<1>9. TrailerAt(k) \in Nat /\ flushes[k].end = TrailerAt(k) + TrailerSize
  BY BunchNumbers
<1>10. PICK j \in Int : j = q + 1 - TrailerAt(k) /\ file[q + 1] = <<TrailerOf(k), j>>
  <2>1. PICK p \in 1 .. Len(file) : p = q + 1
    BY <1>6
  <2>2. TrailerAt(k) < p /\ p <= flushes[k].end
    BY <1>8, <2>1
  <2>3. file[p] = <<TrailerOf(k), p - TrailerAt(k)>>
    BY <2>2, TrailerByteAt
  <2>4. p - TrailerAt(k) \in Int /\ p - TrailerAt(k) = q + 1 - TrailerAt(k)
    BY <1>9, <2>1
  <2>5. QED
    BY <2>1, <2>3, <2>4
<1>11. q + 1 - TrailerAt(k) = 1
  BY <1>6, <1>10
<1>12. QED
  BY <1>4, <1>11, <1>9

\* The scan, a step of it, and what it must come to at each position.
ScanStep(f, h) ==
  [q \in 0 .. Len(f) |->
     IF q <= HeaderSize THEN [torn |-> FALSE, found |-> << >>]
     ELSE LET t == Value(f, q, TrailerSize)
          IN  IF "bunchoff" \notin DOMAIN t \/ q - t.bunchoff \notin 0 .. Len(f)
              THEN [torn |-> TRUE, found |-> << >>]
              ELSE LET i == Value(f, q - t.ndata * IndexSize, t.ndata * IndexSize)
                       rest == h[q - t.bunchoff]
                   IN  [torn  |-> rest.torn,
                        found |-> WithEntry(rest.found, t.bunch_n, BunchEntry(t, i.sizes))]]

Nothing == [torn |-> FALSE, found |-> << >>]
Torn == [torn |-> TRUE, found |-> << >>]

ScanMeetsAt(found, q, n) ==
  /\ q <= HeaderSize => found = Nothing
  /\ \A k \in 1 .. N : q = TrailerAt(k) /\ flushes[k].end <= n => found = FoundOf(k)
  /\ q > HeaderSize /\ (~ \E k \in 1 .. N : q = TrailerAt(k) /\ flushes[k].end <= n) =>
       found = Torn

ScanMeets(h, n) == \A q \in 0 .. n : ScanMeetsAt(h[q], q, n)

\* The value a step has at a position, without the bytes.
StepHas(g, h, q, n) ==
  /\ q <= HeaderSize => g[q] = Nothing
  /\ q > HeaderSize /\ (~ \E k \in 1 .. N : q = TrailerAt(k) /\ flushes[k].end <= n) => g[q] = Torn
  /\ \A k \in 1 .. N : q = TrailerAt(k) /\ flushes[k].end <= n =>
       /\ q > HeaderSize
       /\ k = 1 => g[q] = [torn  |-> h[0].torn,
                           found |-> WithEntry(h[0].found, k - 1, EntryOf(k))]
       /\ k # 1 => /\ k - 1 \in 1 .. N /\ flushes[k - 1].end <= n
                   /\ TrailerAt(k - 1) \in 0 .. n
                   /\ g[q] = [torn  |-> h[TrailerAt(k - 1)].torn,
                              found |-> WithEntry(h[TrailerAt(k - 1)].found, k - 1, EntryOf(k))]

\* Every step of the scan: at a trailer it goes on to the trailer before it, or to the
\* beginning, in front of the header's end it ends, and anywhere else it raises.
LEMMA StepValues ==
  ASSUME TypeOK, Layout, Bytes, NEW n \in 0 .. Len(file), NEW f, f = SubSeq(file, 1, n),
         NEW h, NEW q \in 0 .. n
  PROVE  StepHas(ScanStep(f, h), h, q, n)
<1>1. n \in Nat /\ Len(f) = n /\ q \in 0 .. Len(f) /\ HeaderSize \in Nat /\ q \in Int
  <2>1. file \in Seq(Content \X Nat)
    BY DEF TypeOK
  <2>2. n \in Nat /\ Len(f) = n
    BY <2>1, PrefixFacts
  <2>3. QED
    BY <2>2, HeaderAssumption
<1>2. q <= HeaderSize => ScanStep(f, h)[q] = Nothing
  BY <1>1 DEF ScanStep, Nothing
<1>3. ASSUME q > HeaderSize, ~ \E k \in 1 .. N : q = TrailerAt(k) /\ flushes[k].end <= n
      PROVE  ScanStep(f, h)[q] = Torn
  <2>1. "bunchoff" \notin DOMAIN Value(f, q, TrailerSize)
    BY <1>1, <1>3, OnlyTrailers
  <2>2. ~ q <= HeaderSize
    BY <1>1, <1>3
  <2>3. QED
    BY <1>1, <2>1, <2>2 DEF ScanStep, Torn
<1>4. ASSUME NEW k \in 1 .. N, q = TrailerAt(k), flushes[k].end <= n
      PROVE  /\ q > HeaderSize
             /\ k = 1 => ScanStep(f, h)[q] =
                           [torn  |-> h[0].torn,
                            found |-> WithEntry(h[0].found, k - 1, EntryOf(k))]
             /\ k # 1 => /\ k - 1 \in 1 .. N /\ flushes[k - 1].end <= n
                         /\ TrailerAt(k - 1) \in 0 .. n
                         /\ ScanStep(f, h)[q] =
                           [torn  |-> h[TrailerAt(k - 1)].torn,
                            found |-> WithEntry(h[TrailerAt(k - 1)].found, k - 1, EntryOf(k))]
  <2>1. q > HeaderSize /\ ~ q <= HeaderSize
    BY <1>1, <1>4, BunchNumbers, SMTT(20)
  <2>2. PICK t : t = Value(f, q, TrailerSize)
    OBVIOUS
  <2>3. t = TrailerOf(k) /\ Value(f, DataEnd(k), IndexLen(k)) = [sizes |-> SizesOf(k)]
    BY <1>4, <2>2, TrailerBytes
  <2>4. /\ t.bunchoff = q - (IF k = 1 THEN 0 ELSE TrailerAt(k - 1))
        /\ t.ndata = Count(k) /\ t.bunch_n = k - 1 /\ "bunchoff" \in DOMAIN t
    BY <1>4, <2>3 DEF TrailerOf
  <2>5. t.ndata * IndexSize = IndexLen(k) /\ q - IndexLen(k) = DataEnd(k)
    <3>1. t.ndata * IndexSize = IndexLen(k)
      BY <2>4 DEF IndexLen
    <3>2. QED
      BY <1>4, <3>1, BunchNumbers
  <2>6. k # 1 => /\ k - 1 \in 1 .. N /\ flushes[k - 1].end <= n
                 /\ TrailerAt(k - 1) \in 0 .. n
    <3>1. SUFFICES ASSUME k # 1 PROVE k - 1 \in 1 .. N /\ flushes[k - 1].end <= n
                                      /\ TrailerAt(k - 1) \in 0 .. n
      OBVIOUS
    <3>2. k - 1 \in 1 .. N /\ k - 1 < k
      BY <3>1, BunchNumbers
    <3>3. flushes[k - 1].end < flushes[k].end /\ flushes[k].end \in Nat
      BY <3>2, BunchNumbers, BunchOrder
    <3>4. /\ flushes[k - 1].end \in Nat /\ TrailerAt(k - 1) \in Nat
          /\ flushes[k - 1].end = TrailerAt(k - 1) + TrailerSize
      BY <3>2, BunchNumbers
    <3>5. QED
      BY <1>1, <1>4, <3>2, <3>3, <3>4, HeaderAssumption
  <2>7. q - t.bunchoff = (IF k = 1 THEN 0 ELSE TrailerAt(k - 1))
    BY <1>1, <2>4, <2>6
  <2>8. q - t.bunchoff \in 0 .. Len(f)
    BY <1>1, <2>6, <2>7
  <2>9. ScanStep(f, h)[q] =
          [torn  |-> h[q - t.bunchoff].torn,
           found |-> WithEntry(h[q - t.bunchoff].found, t.bunch_n,
                               BunchEntry(t, Value(f, q - t.ndata * IndexSize,
                                                   t.ndata * IndexSize).sizes))]
    BY <1>1, <2>1, <2>2, <2>4, <2>8 DEF ScanStep
  <2>10. BunchEntry(t, Value(f, q - t.ndata * IndexSize, t.ndata * IndexSize).sizes) = EntryOf(k)
    <3>1. Value(f, q - t.ndata * IndexSize, t.ndata * IndexSize) = [sizes |-> SizesOf(k)]
      BY <2>3, <2>5
    <3>2. QED
      BY <2>3, <3>1 DEF EntryOf
  <2>11. QED
    BY <2>1, <2>4, <2>6, <2>7, <2>9, <2>10
<1>5. QED
  BY <1>2, <1>3, <1>4 DEF StepHas

\* A function that a step leaves as it is has the right values.
LEMMA FixedMeets ==
  ASSUME TypeOK, Layout, Bytes, NEW n \in 0 .. Len(file), NEW f, f = SubSeq(file, 1, n),
         NEW h, h = ScanStep(f, h)
  PROVE  ScanMeets(h, n)
<1>1. n \in Nat /\ HeaderSize \in Nat
  <2>1. file \in Seq(Content \X Nat)
    BY DEF TypeOK
  <2>2. QED
    BY <2>1, PrefixFacts, HeaderAssumption
<1>2. ASSUME NEW q \in 0 .. n
      PROVE  /\ q <= HeaderSize => h[q] = Nothing
             /\ q > HeaderSize /\ (~ \E k \in 1 .. N : q = TrailerAt(k) /\ flushes[k].end <= n) =>
                  h[q] = Torn
  <2>1. q \in 0 .. n
    OBVIOUS
  <2>2. StepHas(h, h, q, n)
    BY <2>1, StepValues
  <2>3. QED
    BY <2>2 DEF StepHas
<1>3. h[0] = Nothing
  BY <1>1, <1>2
<1> DEFINE Wrong == {k \in 1 .. N : flushes[k].end <= n /\ h[TrailerAt(k)] # FoundOf(k)}
<1>4. Wrong = {}
  <2>1. SUFFICES ASSUME Wrong # {} PROVE FALSE
    OBVIOUS
  <2>2. PICK k \in Wrong : \A j \in Wrong : k <= j
    <3>1. Wrong \subseteq Nat
      BY DEF N
    <3>2. QED
      BY <2>1, <3>1, LeastNumber, Zenon
  <2>3. k \in 1 .. N /\ flushes[k].end <= n /\ h[TrailerAt(k)] # FoundOf(k)
    BY <2>2
  <2>4. TrailerAt(k) \in 0 .. n
    BY <1>1, <2>3, BunchNumbers, HeaderAssumption
  <2>5. PICK q \in 0 .. n : q = TrailerAt(k)
    BY <2>4
  <2>6. /\ k = 1 => h[q] = [torn  |-> h[0].torn,
                            found |-> WithEntry(h[0].found, k - 1, EntryOf(k))]
        /\ k # 1 => /\ k - 1 \in 1 .. N /\ flushes[k - 1].end <= n
                    /\ h[q] = [torn  |-> h[TrailerAt(k - 1)].torn,
                               found |-> WithEntry(h[TrailerAt(k - 1)].found, k - 1, EntryOf(k))]
    <3>1. q \in 0 .. n
      OBVIOUS
    <3>2. StepHas(h, h, q, n)
      BY <3>1, StepValues
    <3>3. QED
      BY <2>3, <2>5, <3>2 DEF StepHas
  <2>7. CASE k = 1
    <3>1. h[q] = [torn |-> FALSE, found |-> WithEntry(<< >>, k - 1, EntryOf(k))]
      BY <1>3, <2>6, <2>7 DEF Nothing
    <3>2. WithEntry(<< >>, k - 1, EntryOf(k)) = FoundOf(k).found
      BY <2>3, <2>7, OneMoreFound
    <3>3. FoundOf(k) = [torn |-> FALSE, found |-> FoundOf(k).found]
      BY DEF FoundOf
    <3>4. QED
      BY <2>3, <2>5, <3>1, <3>2, <3>3
  <2>8. CASE k # 1
    <3>1. k - 1 \in 1 .. N /\ flushes[k - 1].end <= n /\ ~ k <= k - 1
      BY <2>3, <2>6, <2>8
    <3>2. h[TrailerAt(k - 1)] = FoundOf(k - 1)
      BY <2>2, <3>1
    <3>3. h[q] = [torn |-> FALSE, found |-> WithEntry(FoundOf(k - 1).found, k - 1, EntryOf(k))]
      <4>1. FoundOf(k - 1).torn = FALSE
        BY DEF FoundOf
      <4>2. QED
        BY <2>6, <2>8, <3>2, <4>1
    <3>4. WithEntry(FoundOf(k - 1).found, k - 1, EntryOf(k)) = FoundOf(k).found
      BY <2>3, <2>8, OneMoreFound
    <3>5. FoundOf(k) = [torn |-> FALSE, found |-> FoundOf(k).found]
      BY DEF FoundOf
    <3>6. QED
      BY <2>3, <2>5, <3>3, <3>4, <3>5
  <2>9. QED
    BY <2>7, <2>8
<1>5. \A q \in 0 .. n, k \in 1 .. N : q = TrailerAt(k) /\ flushes[k].end <= n => h[q] = FoundOf(k)
  BY <1>4
<1>6. QED
  BY <1>2, <1>5 DEF ScanMeets, ScanMeetsAt

\* A step takes the right values to the right values.
LEMMA StepMeets ==
  ASSUME TypeOK, Layout, Bytes, NEW n \in 0 .. Len(file), NEW f, f = SubSeq(file, 1, n),
         NEW h, ScanMeets(h, n)
  PROVE  ScanMeets(ScanStep(f, h), n)
<1>1. n \in Nat /\ HeaderSize \in Nat
  <2>1. file \in Seq(Content \X Nat)
    BY DEF TypeOK
  <2>2. QED
    BY <2>1, PrefixFacts, HeaderAssumption
<1>2. ASSUME NEW q \in 0 .. n
      PROVE  /\ q <= HeaderSize => ScanStep(f, h)[q] = Nothing
             /\ q > HeaderSize /\ (~ \E k \in 1 .. N : q = TrailerAt(k) /\ flushes[k].end <= n) =>
                  ScanStep(f, h)[q] = Torn
  <2>1. q \in 0 .. n
    OBVIOUS
  <2>2. StepHas(ScanStep(f, h), h, q, n)
    BY <2>1, StepValues
  <2>3. QED
    BY <2>2 DEF StepHas
<1>3. h[0] = Nothing
  BY <1>1 DEF ScanMeets, ScanMeetsAt
<1>4. ASSUME NEW q \in 0 .. n, NEW k \in 1 .. N, q = TrailerAt(k), flushes[k].end <= n
      PROVE  ScanStep(f, h)[q] = FoundOf(k)
  <2>1. PICK g : g = ScanStep(f, h)
    OBVIOUS
  <2>2. /\ k = 1 => g[q] = [torn  |-> h[0].torn,
                            found |-> WithEntry(h[0].found, k - 1, EntryOf(k))]
        /\ k # 1 => /\ k - 1 \in 1 .. N /\ flushes[k - 1].end <= n
                    /\ TrailerAt(k - 1) \in 0 .. n
                    /\ g[q] = [torn  |-> h[TrailerAt(k - 1)].torn,
                               found |-> WithEntry(h[TrailerAt(k - 1)].found, k - 1, EntryOf(k))]
    <3>1. q \in 0 .. n
      OBVIOUS
    <3>2. StepHas(g, h, q, n)
      BY <2>1, <3>1, StepValues
    <3>3. QED
      BY <1>4, <3>2 DEF StepHas
  <2>3. CASE k = 1
    <3>1. g[q] = [torn |-> FALSE, found |-> WithEntry(<< >>, k - 1, EntryOf(k))]
      BY <1>3, <2>2, <2>3 DEF Nothing
    <3>2. WithEntry(<< >>, k - 1, EntryOf(k)) = FoundOf(k).found
      BY <2>3, OneMoreFound
    <3>3. FoundOf(k) = [torn |-> FALSE, found |-> FoundOf(k).found]
      BY DEF FoundOf
    <3>4. QED
      BY <2>1, <3>1, <3>2, <3>3
  <2>4. CASE k # 1
    <3>1. h[TrailerAt(k - 1)] = FoundOf(k - 1)
      BY <2>2, <2>4 DEF ScanMeets, ScanMeetsAt
    <3>2. g[q] = [torn |-> FALSE, found |-> WithEntry(FoundOf(k - 1).found, k - 1, EntryOf(k))]
      <4>1. FoundOf(k - 1).torn = FALSE
        BY DEF FoundOf
      <4>2. QED
        BY <2>2, <2>4, <3>1, <4>1
    <3>3. WithEntry(FoundOf(k - 1).found, k - 1, EntryOf(k)) = FoundOf(k).found
      BY <2>4, OneMoreFound
    <3>4. FoundOf(k) = [torn |-> FALSE, found |-> FoundOf(k).found]
      BY DEF FoundOf
    <3>5. QED
      BY <2>1, <3>2, <3>3, <3>4
  <2>5. QED
    BY <2>3, <2>4
<1>5. QED
  BY <1>2, <1>4 DEF ScanMeets, ScanMeetsAt

\* What the scan from position p finds.
LEMMA ScanFacts ==
  ASSUME TypeOK, Layout, Bytes, NEW n \in 0 .. Len(file), NEW f, f = SubSeq(file, 1, n),
         NEW p \in 0 .. n
  PROVE  ScanMeetsAt(Bunches(f, p), p, n)
<1>1. n \in Nat /\ Len(f) = n
  <2>1. file \in Seq(Content \X Nat)
    BY DEF TypeOK
  <2>2. QED
    BY <2>1, PrefixFacts
<1> DEFINE Whole(q) == {k \in 1 .. N : q = TrailerAt(k) /\ flushes[k].end <= n}
           g == [q \in 0 .. n |->
                   IF q <= HeaderSize THEN Nothing
                   ELSE IF Whole(q) = {} THEN Torn ELSE FoundOf(CHOOSE k \in Whole(q) : TRUE)]
<1>2. \A q \in 0 .. n, k \in 1 .. N :
        q = TrailerAt(k) /\ flushes[k].end <= n =>
          q > HeaderSize /\ Whole(q) # {} /\ (CHOOSE j \in Whole(q) : TRUE) = k
  <2>1. ASSUME NEW q \in 0 .. n, NEW k \in 1 .. N, q = TrailerAt(k), flushes[k].end <= n
        PROVE  q > HeaderSize /\ Whole(q) = {k}
    <3>1. q > HeaderSize
      BY <2>1, BunchNumbers, HeaderAssumption
    <3>2. \A j \in Whole(q) : j = k
      BY <2>1, BunchOrder
    <3>3. QED
      BY <2>1, <3>1, <3>2
  <2>2. \A k : (CHOOSE j \in {k} : TRUE) = k
    OBVIOUS
  <2>3. QED
    BY <2>1, <2>2
<1>3. ScanMeets(g, n)
  <2>1. ASSUME NEW q \in 0 .. n
        PROVE  /\ q <= HeaderSize => g[q] = Nothing
               /\ \A k \in 1 .. N : q = TrailerAt(k) /\ flushes[k].end <= n => g[q] = FoundOf(k)
               /\ q > HeaderSize /\ (~ \E k \in 1 .. N : q = TrailerAt(k) /\ flushes[k].end <= n) =>
                    g[q] = Torn
    <3>1. q <= HeaderSize => g[q] = Nothing
      OBVIOUS
    <3>2. ~ q <= HeaderSize /\ Whole(q) = {} => g[q] = Torn
      OBVIOUS
    <3>3. ~ q <= HeaderSize /\ Whole(q) # {} => g[q] = FoundOf(CHOOSE k \in Whole(q) : TRUE)
      OBVIOUS
    <3>4. q \in Int /\ HeaderSize \in Int
      BY <1>1, HeaderAssumption
    <3> HIDE DEF g
    <3>5. q > HeaderSize <=> ~ q <= HeaderSize
      BY <3>4
    <3>6. (~ \E k \in 1 .. N : q = TrailerAt(k) /\ flushes[k].end <= n) => Whole(q) = {}
      OBVIOUS
    <3> HIDE DEF Whole
    <3>7. QED
      BY <1>2, <3>1, <3>2, <3>3, <3>5, <3>6
  <2> HIDE DEF g
  <2>2. QED
    BY <2>1 DEF ScanMeets, ScanMeetsAt
<1>4. ScanMeets(ScanStep(f, g), n)
  <2> HIDE DEF g
  <2>1. QED
    BY <1>3, StepMeets
<1>5. g = ScanStep(f, g)
  <2>1. \A q \in 0 .. n : g[q] = ScanStep(f, g)[q]
    <3> HIDE DEF g
    <3>1. \A q \in 0 .. n : q <= HeaderSize \/ q > HeaderSize
      BY <1>1, HeaderAssumption
    <3>2. QED
      BY <1>3, <1>4, <3>1 DEF ScanMeets, ScanMeetsAt
  <2>2. g = [q \in 0 .. n |-> g[q]]
    OBVIOUS
  <2> HIDE DEF g
  <2>3. ScanStep(f, g) = [q \in 0 .. n |-> ScanStep(f, g)[q]]
    BY <1>1 DEF ScanStep
  <2>4. QED
    BY <2>1, <2>2, <2>3
<1>6. PICK c : c = CHOOSE h : h = ScanStep(f, h)
  OBVIOUS
<1>7. c = ScanStep(f, c)
  <2> HIDE DEF g
  <2>1. QED
    BY <1>5, <1>6
<1>8. Bunches(f, p) = c[p]
  BY <1>6 DEF Bunches, ScanStep
<1>9. ScanMeets(c, n)
  BY <1>7, FixedMeets
<1>10. QED
  BY <1>8, <1>9 DEF ScanMeets, ScanMeetsAt

------------------------------------------------------------------------------
(* The index of a reader *)

\* Where the objects of bunch k are.
LEMMA LocatedFacts ==
  ASSUME TypeOK, Layout, NEW k \in 1 .. N
  PROVE  /\ Located(EntryOf(k)) \in Seq(Entry)
         /\ Len(Located(EntryOf(k))) = Count(k)
         /\ \A i \in 1 .. Count(k) : IsEntry(Located(EntryOf(k))[i], Before(k) + i, k)
<1>1. /\ Count(k) \in Nat /\ Before(k) \in Nat /\ StartOf(k) \in Nat
      /\ DataEnd(k) - StartOf(k) \in Nat
  BY BunchNumbers
<1>2. /\ ObjectsOf(k) \in [1 .. Count(k) -> Objects]
      /\ SizesOf(k) = [i \in 1 .. Count(k) |-> Size[ObjectsOf(k)[i]]]
      /\ SizesOf(k) \in [1 .. Count(k) -> Nat]
  BY BunchObjects
<1>3. Offsets(SizesOf(k)) \in [1 .. Count(k) -> Nat]
  BY <1>1, <1>2, OffsetsFacts
<1>4. PICK l : l = Located(EntryOf(k))
  OBVIOUS
<1>5. PICK e : e = EntryOf(k)
  OBVIOUS
<1>6. /\ e.start = StartOf(k) /\ e.bunchsize = DataEnd(k) - StartOf(k)
      /\ e.sizes = SizesOf(k)
  BY <1>5, EntryFields
<1>7. l = [i \in 1 .. Count(k) |-> [start |-> StartOf(k), bunchsize |-> DataEnd(k) - StartOf(k),
                                    offset |-> Offsets(SizesOf(k))[i], size |-> SizesOf(k)[i]]]
  <2>1. DOMAIN SizesOf(k) = 1 .. Count(k)
    BY <1>2
  <2>2. QED
    BY <1>4, <1>5, <1>6, <2>1 DEF Located
<1>8. \A i \in 1 .. Count(k) : Offsets(SizesOf(k))[i] \in Nat /\ SizesOf(k)[i] \in Nat
  BY <1>2, <1>3
<1>9. l \in Seq(Entry) /\ Len(l) = Count(k)
  <2>1. \A i \in 1 .. Count(k) : l[i] \in Entry
    BY <1>1, <1>7, <1>8 DEF Entry
  <2>2. l \in [1 .. Count(k) -> Entry]
    BY <1>7, <2>1
  <2>3. QED
    BY <1>1, <2>2, SeqDef, LenProperties
<1>10. ASSUME NEW i \in 1 .. Count(k)
       PROVE  IsEntry(l[i], Before(k) + i, k)
  <2>1. Before(k) + i - Before(k) = i
    BY <1>1
  <2>2. SizesOf(k)[i] = Size[objects[Before(k) + i]]
    BY DEF SizesOf
  <2>3. l[i] = [start |-> StartOf(k), bunchsize |-> DataEnd(k) - StartOf(k),
                offset |-> Offsets(SizesOf(k))[i], size |-> SizesOf(k)[i]]
    BY <1>7
  <2>4. QED
    BY <1>1, <2>1, <2>2, <2>3 DEF IsEntry
<1>11. QED
  BY <1>4, <1>9, <1>10

\* The index of the first k bunches.
IndexGood(ix, k) ==
  /\ ix \in Seq(Entry)
  /\ Len(ix) = flushes[k].count
  /\ \A m \in 1 .. Len(ix) : \E b \in 1 .. k : IsEntry(ix[m], m, b)

\* Sorted by number and flattened, the entries of the first k bunches are their objects'
\* places in the order of the objects.
LEMMA IndexOfBunches ==
  ASSUME TypeOK, Layout, NEW k \in 1 .. N
  PROVE  IndexGood(IndexOf(FoundOf(k).found), k)
<1> DEFINE seqs == [b \in 1 .. k |-> Located(EntryOf(b))]
           off == [b \in 1 .. k |-> Before(b)]
<1>1. k \in Nat \ {0} /\ k \in 1 .. k /\ 1 \in 1 .. k
  OBVIOUS
<1>2. \A b \in 1 .. k : b \in 1 .. N
  BY BunchNumbers
<1>3. \A b \in 1 .. k : /\ seqs[b] = Located(EntryOf(b)) /\ seqs[b] \in Seq(Entry)
                        /\ Len(seqs[b]) = Count(b)
                        /\ \A i \in 1 .. Count(b) : IsEntry(seqs[b][i], Before(b) + i, b)
  BY <1>2, LocatedFacts
<1>4. \A b \in 1 .. k : /\ off[b] = Before(b) /\ off[b] \in Nat
                        /\ off[b] + Count(b) = flushes[b].count /\ Count(b) \in Nat
                        /\ flushes[b].count \in Nat
  BY <1>2, BunchNumbers
<1>5. seqs \in [1 .. k -> Seq(Entry)] /\ off \in [1 .. k -> Nat]
  <2>1. \A b \in 1 .. k : Located(EntryOf(b)) \in Seq(Entry) /\ Before(b) \in Nat
    BY <1>3, <1>4
  <2>2. QED
    BY <2>1
<1> HIDE DEF seqs, off
<1>6. off[1] = 0
  BY <1>1, <1>4 DEF Before
<1>7. \A b \in 2 .. k : off[b] = off[b - 1] + Len(seqs[b - 1])
  <2>1. ASSUME NEW b \in 2 .. k
        PROVE  off[b] = off[b - 1] + Len(seqs[b - 1])
    <3>1. b \in 1 .. k /\ b # 1 /\ b - 1 \in 1 .. k
      OBVIOUS
    <3>2. off[b] = flushes[b - 1].count
      BY <1>4, <3>1 DEF Before
    <3>3. off[b - 1] + Count(b - 1) = flushes[b - 1].count /\ Len(seqs[b - 1]) = Count(b - 1)
      BY <1>3, <1>4, <3>1
    <3>4. QED
      BY <3>2, <3>3
  <2>2. QED
    BY <2>1
<1>8. FlattenSeq(seqs) \in Seq(Entry) /\ Places(FlattenSeq(seqs), k, seqs, off)
  BY <1>1, <1>5, <1>6, <1>7, FlattenPlaces
<1>9. IndexOf(FoundOf(k).found) = FlattenSeq(seqs)
  <2>1. DOMAIN FoundOf(k).found = 0 .. k - 1
    BY DEF FoundOf
  <2>2. IndexOf(FoundOf(k).found) = FlattenSeq([b \in 1 .. k |-> Located(FoundOf(k).found[b - 1])])
    BY <1>1, <2>1, IndexFacts
  <2>3. \A b \in 1 .. k : FoundOf(k).found[b - 1] = EntryOf(b)
    <3>1. \A b \in 1 .. k : b - 1 \in 0 .. k - 1 /\ b - 1 + 1 = b
      OBVIOUS
    <3>2. QED
      BY <3>1 DEF FoundOf
  <2>4. QED
    BY <2>2, <2>3 DEF seqs
<1>10. PICK ix : ix = FlattenSeq(seqs)
  OBVIOUS
<1>11. Len(ix) = flushes[k].count
  BY <1>1, <1>3, <1>4, <1>8, <1>10 DEF Places
<1>12. ASSUME NEW m \in 1 .. Len(ix)
       PROVE  \E b \in 1 .. k : IsEntry(ix[m], m, b)
  <2>1. PICK b \in 1 .. k : m - off[b] \in 1 .. Len(seqs[b])
    BY <1>8, <1>10, <1>12 DEF Places
  <2>2. PICK i \in 1 .. Count(b) : i = m - off[b]
    BY <1>3, <2>1
  <2>3. ix[off[b] + i] = seqs[b][i]
    BY <1>3, <1>8, <1>10 DEF Places
  <2>4. off[b] + i = m /\ Before(b) + i = m
    BY <1>4, <2>2
  <2>5. IsEntry(seqs[b][i], Before(b) + i, b)
    BY <1>3
  <2>6. QED
    BY <2>3, <2>4, <2>5
<1>13. QED
  BY <1>8, <1>9, <1>10, <1>11, <1>12 DEF IndexGood

\* The number of objects in the bunches that end within n bytes, for any bunches.
CountIn(fl, n) ==
  LET whole == {k \in DOMAIN fl : fl[k].end <= n}
  IN  IF whole = {} THEN 0 ELSE fl[CHOOSE k \in whole : \A j \in whole : j <= k].count

\* It is that of the last one.
LEMMA CountUpTo ==
  ASSUME NEW fl \in Seq([end : Nat, count : Nat]), NEW n \in Nat
  PROVE  /\ (\A j \in 1 .. Len(fl) : ~ fl[j].end <= n) => CountIn(fl, n) = 0
         /\ \A k \in 1 .. Len(fl) :
              fl[k].end <= n /\ (\A j \in 1 .. Len(fl) : fl[j].end <= n => j <= k) =>
                CountIn(fl, n) = fl[k].count
<1> DEFINE whole == {k \in DOMAIN fl : fl[k].end <= n}
<1>1. DOMAIN fl = 1 .. Len(fl) /\ Len(fl) \in Nat
  BY LenProperties
<1>2. CountIn(fl, n) = IF whole = {} THEN 0
                       ELSE fl[CHOOSE k \in whole : \A j \in whole : j <= k].count
  BY DEF CountIn
<1>3. ASSUME \A j \in 1 .. Len(fl) : ~ fl[j].end <= n
      PROVE  CountIn(fl, n) = 0
  <2>1. whole = {}
    BY <1>1, <1>3
  <2>2. QED
    BY <1>2, <2>1
<1>4. ASSUME NEW k \in 1 .. Len(fl), fl[k].end <= n,
             \A j \in 1 .. Len(fl) : fl[j].end <= n => j <= k
      PROVE  CountIn(fl, n) = fl[k].count
  <2>1. k \in whole /\ \A j \in whole : j <= k
    BY <1>1, <1>4
  <2>2. \A i \in whole : (\A j \in whole : j <= i) => i = k
    <3>1. \A i \in whole : i \in Int
      BY <1>1
    <3>2. QED
      BY <2>1, <3>1
  <2>3. (CHOOSE i \in whole : \A j \in whole : j <= i) = k
    <3> HIDE DEF whole
    <3>1. QED
      BY <2>1, <2>2
  <2>4. whole # {}
    BY <2>1
  <2>5. QED
    BY <1>2, <2>3, <2>4
<1>5. QED
  BY <1>3, <1>4

\* Later bunches do not change it.
LEMMA CountStays ==
  ASSUME NEW fl \in Seq([end : Nat, count : Nat]), NEW gl \in Seq([end : Nat, count : Nat]),
         NEW n \in Nat, Len(fl) <= Len(gl), \A k \in 1 .. Len(fl) : gl[k] = fl[k],
         \A k \in 1 .. Len(gl) : k > Len(fl) => gl[k].end > n
  PROVE  CountIn(gl, n) = CountIn(fl, n)
<1>1. /\ Len(fl) \in Nat /\ Len(gl) \in Nat
      /\ \A k \in 1 .. Len(gl) : gl[k].end \in Nat /\ (k \in 1 .. Len(fl) \/ k > Len(fl))
      /\ \A k \in 1 .. Len(fl) : k \in 1 .. Len(gl)
  <2>1. Len(fl) \in Nat /\ Len(gl) \in Nat
    BY LenProperties
  <2>2. \A k \in 1 .. Len(gl) : gl[k] \in [end : Nat, count : Nat]
    BY ElementOfSeq
  <2>3. QED
    BY <2>1, <2>2
<1>2. \A k \in 1 .. Len(gl) : gl[k].end <= n => k \in 1 .. Len(fl)
  BY <1>1
<1> DEFINE whole == {k \in 1 .. Len(fl) : fl[k].end <= n}
           Far == {Len(fl) - k : k \in whole}
<1>3. CASE whole = {}
  <2>1. \A k \in 1 .. Len(fl) : ~ fl[k].end <= n
    BY <1>3
  <2>2. \A k \in 1 .. Len(gl) : ~ gl[k].end <= n
    BY <1>1, <1>2, <2>1
  <2>3. QED
    BY <2>1, <2>2, CountUpTo
<1>4. CASE whole # {}
  <2>1. PICK d \in Far : \A e \in Far : d <= e
    <3>1. PICK l \in Nat : l = Len(fl)
      BY <1>1
    <3>2. \A k \in whole : k \in 1 .. l
      BY <3>1
    <3>3. \A k \in 1 .. l : l - k \in Nat
      OBVIOUS
    <3> HIDE DEF whole
    <3>4. Far \subseteq Nat
      BY <3>1, <3>2, <3>3
    <3>5. Far # {}
      BY <1>4
    <3> HIDE DEF Far
    <3>6. QED
      BY <3>4, <3>5, LeastNumber, Zenon
  <2>2. PICK k \in whole : d = Len(fl) - k
    BY <2>1
  <2>3. k \in 1 .. Len(fl) /\ fl[k].end <= n
    BY <2>2
  <2>4. \A j \in 1 .. Len(fl) : fl[j].end <= n => j <= k
    <3>1. ASSUME NEW j \in 1 .. Len(fl), fl[j].end <= n
          PROVE  j <= k
      <4>1. Len(fl) - j \in Far
        BY <3>1
      <4>2. Len(fl) - k <= Len(fl) - j
        BY <2>1, <2>2, <4>1
      <4>3. QED
        BY <1>1, <2>3, <4>2
    <3>2. QED
      BY <3>1
  <2>5. k \in 1 .. Len(gl) /\ gl[k].end <= n /\ gl[k].count = fl[k].count
    BY <1>1, <2>3
  <2>6. \A j \in 1 .. Len(gl) : gl[j].end <= n => j <= k
    BY <1>1, <1>2, <2>4
  <2>7. CountIn(fl, n) = fl[k].count
    BY <2>3, <2>4, CountUpTo
  <2>8. CountIn(gl, n) = gl[k].count
    BY <2>5, <2>6, CountUpTo
  <2>9. QED
    BY <2>5, <2>7, <2>8
<1>5. QED
  BY <1>3, <1>4

\* The number of objects is that of the bunches of the writer.
LEMMA CountAtFacts ==
  ASSUME TypeOK, NEW n \in Nat
  PROVE  /\ CountAt(n) = CountIn(flushes, n)
         /\ (\A j \in 1 .. N : ~ flushes[j].end <= n) => CountAt(n) = 0
         /\ \A k \in 1 .. N :
              flushes[k].end <= n /\ (\A j \in 1 .. N : flushes[j].end <= n => j <= k) =>
                CountAt(n) = flushes[k].count
<1>1. CountAt(n) = CountIn(flushes, n)
  BY DEF CountAt, CountIn
<1>2. flushes \in Seq([end : Nat, count : Nat])
  BY DEF TypeOK
<1>3. QED
  BY <1>1, <1>2, CountUpTo DEF N

\* A reader that finds a trailer, or nothing behind the header, has the objects of the
\* bunches that are whole, and one that finds neither has not read from a bunch's end.
ReaderGood(ix, n) ==
  /\ ix \in Seq(Entry)
  /\ Len(ix) = CountAt(n)
  /\ \A m \in 1 .. Len(ix) : \E k \in 1 .. N : flushes[k].end <= n /\ IsEntry(ix[m], m, k)

\* What a reader has when it opens the first n bytes: every whole bunch, or it raises,
\* and then the n bytes end neither with the header nor with a bunch.
LEMMA OpenedFacts ==
  ASSUME TypeOK, Layout, Bytes, NEW n \in 0 .. Len(file), NEW f, f = SubSeq(file, 1, n),
         n >= HeaderSize, NEW scan, scan = Bunches(f, n - TrailerSize)
  PROVE  /\ scan.torn \in BOOLEAN
         /\ ~ scan.torn => ReaderGood(IndexOf(scan.found), n)
         /\ scan.torn => n # HeaderSize /\ \A k \in 1 .. N : n # flushes[k].end
<1>1. n \in Nat /\ HeaderSize \in Nat /\ TrailerSize \in Nat \ {0} /\ TrailerSize <= HeaderSize
  <2>1. file \in Seq(Content \X Nat)
    BY DEF TypeOK
  <2>2. QED
    BY <2>1, PrefixFacts, HeaderAssumption
<1>2. PICK p \in 0 .. n : p = n - TrailerSize
  BY <1>1
<1>3. \A k \in 1 .. N : p = TrailerAt(k) <=> n = flushes[k].end
  <2>1. ASSUME NEW k \in 1 .. N PROVE p = TrailerAt(k) <=> n = flushes[k].end
    <3>1. TrailerAt(k) \in Nat /\ flushes[k].end = TrailerAt(k) + TrailerSize
      BY BunchNumbers
    <3>2. QED
      BY <1>1, <1>2, <3>1
  <2>2. QED
    BY <2>1
<1>4. ScanMeetsAt(Bunches(f, p), p, n)
  BY ScanFacts
<1>5. CASE p <= HeaderSize
  <2>1. scan = Nothing
    BY <1>2, <1>4, <1>5 DEF ScanMeetsAt
  <2>2. \A k \in 1 .. N : ~ flushes[k].end <= n
    <3>1. ASSUME NEW k \in 1 .. N PROVE ~ flushes[k].end <= n
      <4>1. /\ TrailerAt(k) \in Nat /\ flushes[k].end = TrailerAt(k) + TrailerSize
            /\ HeaderSize <= DataEnd(k) /\ DataEnd(k) < TrailerAt(k) /\ DataEnd(k) \in Nat
        BY BunchNumbers, HeaderAssumption
      <4>2. QED
        BY <1>1, <1>2, <1>5, <4>1
    <3>2. QED
      BY <3>1
  <2>3. CountAt(n) = 0
    BY <1>1, <2>2, CountAtFacts
  <2>4. IndexOf(<< >>) = << >>
    <3>1. 0 \in Nat /\ DOMAIN << >> = 0 .. 0 - 1
      OBVIOUS
    <3>2. QED
      BY <3>1, IndexFacts
  <2>5. scan.torn = FALSE /\ scan.found = << >>
    BY <2>1 DEF Nothing
  <2>6. << >> \in Seq(Entry) /\ Len(<< >>) = 0
    OBVIOUS
  <2>7. ReaderGood(<< >>, n)
    BY <2>3, <2>6 DEF ReaderGood
  <2>8. QED
    BY <2>4, <2>5, <2>7
<1>6. CASE p > HeaderSize /\ \E k \in 1 .. N : p = TrailerAt(k) /\ flushes[k].end <= n
  <2>1. PICK k \in 1 .. N : p = TrailerAt(k) /\ flushes[k].end <= n
    BY <1>6
  <2>2. scan = FoundOf(k)
    BY <1>2, <1>4, <2>1 DEF ScanMeetsAt
  <2>3. scan.torn = FALSE /\ IndexGood(IndexOf(scan.found), k)
    <3>1. FoundOf(k).torn = FALSE
      BY DEF FoundOf
    <3>2. QED
      BY <2>2, <3>1, IndexOfBunches
  <2>4. n = flushes[k].end
    BY <1>3, <2>1
  <2>5. \A j \in 1 .. N : flushes[j].end <= n => j <= k
    <3>1. ASSUME NEW j \in 1 .. N, flushes[j].end <= n
          PROVE  j <= k
      <4>1. k < j => flushes[k].end < flushes[j].end
        BY BunchOrder
      <4>2. flushes[j].end \in Nat
        BY BunchNumbers
      <4>3. k \in Nat /\ j \in Nat
        OBVIOUS
      <4>4. QED
        BY <1>1, <2>4, <3>1, <4>1, <4>2, <4>3, SMTT(20)
    <3>2. QED
      BY <3>1
  <2>6. CountAt(n) = flushes[k].count
    BY <1>1, <2>1, <2>5, CountAtFacts
  <2>7. \A b \in 1 .. k : b \in 1 .. N /\ flushes[b].end <= n
    <3>1. ASSUME NEW b \in 1 .. k PROVE b \in 1 .. N /\ flushes[b].end <= n
      <4>1. b \in 1 .. N /\ (b < k \/ b = k)
        BY BunchNumbers
      <4>2. b < k => flushes[b].end < flushes[k].end
        BY <4>1, BunchOrder
      <4>3. flushes[b].end \in Nat
        BY <4>1, BunchNumbers
      <4>4. QED
        BY <1>1, <2>4, <4>1, <4>2, <4>3
    <3>2. QED
      BY <3>1
  <2>8. ReaderGood(IndexOf(scan.found), n)
    BY <2>3, <2>6, <2>7 DEF ReaderGood, IndexGood
  <2>9. QED
    BY <2>3, <2>8
<1>7. CASE p > HeaderSize /\ ~ \E k \in 1 .. N : p = TrailerAt(k) /\ flushes[k].end <= n
  <2>1. scan = Torn
    BY <1>2, <1>4, <1>7 DEF ScanMeetsAt
  <2>2. scan.torn = TRUE
    BY <2>1 DEF Torn
  <2>3. n # HeaderSize
    BY <1>1, <1>2, <1>7
  <2>4. \A k \in 1 .. N : n # flushes[k].end
    BY <1>1, <1>3, <1>7
  <2>5. QED
    BY <2>2, <2>3, <2>4
<1>8. p <= HeaderSize \/ p > HeaderSize
  BY <1>1
<1>9. QED
  BY <1>5, <1>6, <1>7, <1>8

------------------------------------------------------------------------------
(* Reading an object *)

\* A part of a sequence that encodes a value.
LEMMA SliceFacts ==
  ASSUME NEW S, NEW s \in Seq(S), NEW a \in Nat, NEW n \in Nat, NEW v,
         a + n <= Len(s), Encoded(s, a, n, v)
  PROVE  SubSeq(s, a + 1, a + n) = Cells(v, n)
<1>1. Len(s) \in Nat /\ a + 1 \in Nat /\ a + n \in Nat
  BY LenProperties
<1>2. SubSeq(s, a + 1, a + n) = [i \in 1 .. (1 + a + n - (a + 1)) |-> s[i + (a + 1) - 1]]
  BY <1>1
<1>3. 1 + a + n - (a + 1) = n /\ \A i \in 1 .. n : i + (a + 1) - 1 = a + i
  OBVIOUS
<1>4. \A i \in 1 .. n : s[a + i] = <<v, i>>
  BY DEF Encoded
<1>5. QED
  BY <1>2, <1>3, <1>4 DEF Cells

\* The data of a whole bunch is where its entries say.
LEMMA DataBytes ==
  ASSUME TypeOK, Layout, Bytes, NEW k \in 1 .. N, flushes[k].end <= Len(file)
  PROVE  \A i \in 1 .. DataEnd(k) - StartOf(k) : file[StartOf(k) + i] = DataByte(k, i)
<1>1. file \in Seq(Content \X Nat)
  BY DEF TypeOK
<1>2. Len(file) \in Nat
  BY <1>1, LenProperties
<1>3. PICK st \in Nat, de \in Nat :
        /\ st = StartOf(k) /\ de = DataEnd(k) /\ st <= de /\ de <= Len(file)
  <2>1. /\ StartOf(k) \in Nat /\ DataEnd(k) \in Nat /\ StartOf(k) <= DataEnd(k)
        /\ DataEnd(k) < TrailerAt(k) /\ TrailerAt(k) \in Nat
        /\ flushes[k].end = TrailerAt(k) + TrailerSize /\ TrailerSize \in Nat
    BY BunchNumbers, HeaderAssumption
  <2>2. DataEnd(k) <= Len(file)
    BY <1>2, <2>1
  <2>3. QED
    BY <2>1, <2>2
<1>4. ASSUME NEW i \in 1 .. de - st
      PROVE  file[st + i] = DataByte(k, i)
  <2>1. PICK p \in 1 .. Len(file) : p = st + i /\ st < p /\ p <= de /\ p - st = i
    BY <1>2, <1>3
  <2>2. StartOf(k) < p /\ p <= DataEnd(k)
    BY <1>3, <2>1
  <2>3. file[p] = DataByte(k, p - StartOf(k))
    BY <2>2, DataByteAt
  <2>4. p - StartOf(k) = i
    BY <1>3, <2>1
  <2>5. QED
    BY <2>1, <2>3, <2>4
<1>5. QED
  BY <1>3, <1>4

\* What read_at returns for an entry of the index is the object that was written.
LEMMA ObjectRead ==
  ASSUME TypeOK, Layout, Bytes, NEW e, NEW m \in Nat, NEW k \in 1 .. N,
         flushes[k].end <= Len(file), IsEntry(e, m, k)
  PROVE  /\ m \in 1 .. flushes[k].count /\ m \in 1 .. Len(objects) /\ objects[m] \in Objects
         /\ ObjectAt(e) = ObjectBytes(objects[m])
<1>1. /\ Count(k) \in Nat \ {0} /\ Before(k) \in Nat /\ flushes[k].count \in Nat
      /\ Before(k) + Count(k) = flushes[k].count
      /\ flushes[k].count <= Len(objects) /\ Len(objects) \in Nat
  BY BunchNumbers
<1>2. /\ StartOf(k) \in Nat /\ DataEnd(k) \in Nat /\ StartOf(k) <= DataEnd(k)
      /\ DataEnd(k) < TrailerAt(k) /\ TrailerAt(k) \in Nat
      /\ flushes[k].end = TrailerAt(k) + TrailerSize /\ TrailerSize \in Nat
  BY BunchNumbers, HeaderAssumption
<1>3. file \in Seq(Content \X Nat) /\ Len(file) \in Nat
  BY LenProperties DEF TypeOK
<1>4. PICK i \in 1 .. Count(k) : i = m - Before(k)
  BY DEF IsEntry
<1>5. m = Before(k) + i /\ m \in 1 .. flushes[k].count /\ m \in 1 .. Len(objects)
  BY <1>1, <1>4
<1>6. objects[m] \in Objects
  <2>1. objects \in Seq(Objects)
    BY DEF TypeOK
  <2>2. QED
    BY <1>5, <2>1, ElementOfSeq
<1>7. /\ ObjectsOf(k) \in [1 .. Count(k) -> Objects]
      /\ SizesOf(k) = [j \in 1 .. Count(k) |-> Size[ObjectsOf(k)[j]]]
  BY BunchObjects
<1>8. ObjectsOf(k)[i] = objects[m]
  BY <1>5 DEF ObjectsOf
<1>9. PICK off \in Nat, sz \in Nat, raw \in Seq(ObjectByte), lr \in Nat :
        /\ off = Offsets(SizesOf(k))[i] /\ sz = Size[objects[m]] /\ raw = Raw(ObjectsOf(k))
        /\ lr = Len(raw) /\ off + sz <= lr
        /\ Encoded(raw, off, sz, [object |-> objects[m]])
  <2>1. /\ Raw(ObjectsOf(k)) \in Seq(ObjectByte)
        /\ Offsets(SizesOf(k)) \in [1 .. Count(k) -> Nat]
        /\ HasObjects(Raw(ObjectsOf(k)), Count(k), ObjectsOf(k), Offsets(SizesOf(k)))
    BY <1>1, <1>7, RawFacts
  <2>2. Size[objects[m]] \in Nat
    BY <1>6, SizeAssumption
  <2>3. Offsets(SizesOf(k))[i] \in Nat
    BY <2>1
  <2>4. Len(Raw(ObjectsOf(k))) \in Nat
    BY <2>1, LenProperties
  <2>5. /\ Offsets(SizesOf(k))[i] + Size[objects[m]] <= Len(Raw(ObjectsOf(k)))
        /\ Encoded(Raw(ObjectsOf(k)), Offsets(SizesOf(k))[i], Size[objects[m]],
                   [object |-> objects[m]])
    BY <1>8, <2>1 DEF HasObjects
  <2>6. QED
    BY <2>1, <2>2, <2>3, <2>4, <2>5
<1>10. /\ e.start = StartOf(k) /\ e.bunchsize = DataEnd(k) - StartOf(k) /\ e.offset = off
       /\ e.size = sz
  BY <1>4, <1>9 DEF IsEntry
<1>11. Cells([object |-> objects[m]], sz) = ObjectBytes(objects[m])
  BY <1>9 DEF ObjectBytes
<1>12. PICK st \in Nat, n \in Nat : /\ st = StartOf(k) /\ n = DataEnd(k) - StartOf(k)
                                    /\ st + n <= Len(file)
                                    /\ \A j \in 1 .. n : file[st + j] = DataByte(k, j)
  <2>1. DataEnd(k) - StartOf(k) \in Nat /\ StartOf(k) + (DataEnd(k) - StartOf(k)) <= Len(file)
    BY <1>2, <1>3
  <2>2. QED
    BY <1>2, <2>1, DataBytes
<1>13. CASE compress
  <2>1. n \in Nat \ {0}
    <3>1. StartOf(k) < DataEnd(k)
      BY <1>13 DEF Layout
    <3>2. QED
      BY <1>2, <1>12, <3>1
  <2>2. Encoded(file, st, n, [compressed |-> raw])
    BY <1>9, <1>12, <1>13 DEF Encoded, DataByte
  <2>3. Value(file, st, n) = [compressed |-> raw]
    BY <1>3, <1>12, <2>1, <2>2, ValueRead
  <2>4. Encoded(raw, off, sz, [object |-> objects[m]]) /\ off + sz <= Len(raw)
    BY <1>9
  <2>5. SubSeq(raw, off + 1, off + sz) = Cells([object |-> objects[m]], sz)
    BY <2>4, SliceFacts
  <2>6. ObjectAt(e) = SubSeq(raw, off + 1, off + sz)
    BY <1>10, <1>12, <1>13, <2>3 DEF ObjectAt
  <2>7. QED
    BY <1>5, <1>6, <1>11, <2>5, <2>6
<1>14. CASE ~ compress
  <2>1. n = lr
    BY <1>9, <1>12, <1>14 DEF Layout
  <2>2. Encoded(file, st + off, sz, [object |-> objects[m]])
    <3>1. ASSUME NEW j \in 1 .. sz
          PROVE  file[st + off + j] = <<[object |-> objects[m]], j>>
      <4>1. off + j \in 1 .. n /\ st + off + j = st + (off + j)
        <5>1. st \in Nat /\ off \in Nat /\ sz \in Nat /\ off + sz <= n /\ n \in Nat
          BY <1>9, <1>12, <2>1
        <5>2. QED
          BY <5>1
      <4>2. file[st + (off + j)] = DataByte(k, off + j)
        BY <1>12, <4>1
      <4>3. DataByte(k, off + j) = raw[off + j]
        BY <1>9, <1>14 DEF DataByte
      <4>4. raw[off + j] = <<[object |-> objects[m]], j>>
        BY <1>9 DEF Encoded
      <4>5. QED
        BY <4>1, <4>2, <4>3, <4>4
    <3>2. QED
      BY <3>1 DEF Encoded
  <2>3. PICK a \in Nat : a = st + off /\ a + sz <= Len(file)
    <3>1. /\ st \in Nat /\ off \in Nat /\ sz \in Nat /\ off + sz <= n /\ n \in Nat
          /\ st + n <= Len(file) /\ Len(file) \in Nat
      BY <1>3, <1>9, <1>12, <2>1
    <3>2. st + off \in Nat /\ st + off + sz <= Len(file)
      BY <3>1
    <3>3. QED
      BY <3>2
  <2>4. SubSeq(file, a + 1, a + sz) = Cells([object |-> objects[m]], sz)
    <3>1. Encoded(file, a, sz, [object |-> objects[m]]) /\ sz \in Nat
      BY <1>9, <2>2, <2>3
    <3>2. QED
      BY <1>3, <2>3, <3>1, SliceFacts
  <2>5. ObjectAt(e) = SubSeq(file, a + 1, a + sz)
    BY <1>10, <1>12, <1>14, <2>3 DEF ObjectAt
  <2>6. QED
    BY <1>5, <1>6, <1>11, <2>4, <2>5
<1>15. QED
  BY <1>13, <1>14

------------------------------------------------------------------------------
(* What a step leaves as it is *)

\* Where the last bunch ends.
LEMMA EndFacts ==
  ASSUME TypeOK, Layout
  PROVE  /\ N \in Nat /\ End \in Nat /\ HeaderSize <= End /\ HeaderSize \in Nat
         /\ Saved \in Nat /\ Saved <= Len(objects) /\ Len(objects) \in Nat
         /\ \A k \in 1 .. N : flushes[k].end <= End
<1>1. N \in Nat /\ Len(objects) \in Nat /\ HeaderSize \in Nat
  <2>1. flushes \in Seq([end : Nat, count : Nat]) /\ objects \in Seq(Objects)
    BY DEF TypeOK
  <2>2. QED
    BY <2>1, LenProperties, HeaderAssumption DEF N
<1>2. CASE N = 0
  BY <1>1, <1>2 DEF End, Saved
<1>3. CASE N # 0
  <2>1. N \in 1 .. N /\ End = flushes[N].end /\ Saved = flushes[N].count
    BY <1>1, <1>3 DEF End, Saved
  <2>2. /\ flushes[N].end \in Nat /\ flushes[N].count \in Nat /\ flushes[N].count <= Len(objects)
        /\ HeaderSize <= StartOf(N) /\ StartOf(N) <= DataEnd(N) /\ DataEnd(N) < TrailerAt(N)
        /\ StartOf(N) \in Nat /\ DataEnd(N) \in Nat /\ TrailerAt(N) \in Nat
        /\ flushes[N].end = TrailerAt(N) + TrailerSize
    BY <2>1, BunchNumbers
  <2>3. HeaderSize <= flushes[N].end
    BY <1>1, <2>2, HeaderAssumption
  <2>4. \A k \in 1 .. N : flushes[k].end <= flushes[N].end
    <3>1. ASSUME NEW k \in 1 .. N PROVE flushes[k].end <= flushes[N].end
      <4>1. k < N => flushes[k].end < flushes[N].end
        BY <2>1, BunchOrder
      <4>2. flushes[k].end \in Nat /\ (k < N \/ k = N)
        BY <1>1, BunchNumbers, SMTT(20)
      <4>3. QED
        BY <2>2, <4>1, <4>2
    <3>2. QED
      BY <3>1
  <2>5. QED
    BY <1>1, <2>1, <2>2, <2>3, <2>4
<1>4. QED
  BY <1>2, <1>3

\* Objects and bunches are added behind those there are.
Grows ==
  /\ flushes' \in Seq([end : Nat, count : Nat])
  /\ objects' \in Seq(Objects)
  /\ N <= N'
  /\ \A k \in 1 .. N : flushes'[k] = flushes[k]
  /\ Len(objects) <= Len(objects')
  /\ \A i \in 1 .. Len(objects) : objects'[i] = objects[i]
  /\ compress' = compress

SameBunch(k) ==
  /\ flushes'[k] = flushes[k]
  /\ Before(k)' = Before(k)
  /\ StartOf(k)' = StartOf(k)
  /\ TrailerAt(k)' = TrailerAt(k)
  /\ Count(k)' = Count(k)
  /\ IndexLen(k)' = IndexLen(k)
  /\ DataEnd(k)' = DataEnd(k)
  /\ ObjectsOf(k)' = ObjectsOf(k)
  /\ SizesOf(k)' = SizesOf(k)
  /\ TrailerOf(k)' = TrailerOf(k)

\* Appending objects and bunches leaves each bunch there is as it was.
LEMMA GrowsFacts ==
  ASSUME TypeOK, Layout, Grows, NEW k \in 1 .. N
  PROVE  SameBunch(k) /\ k \in 1 .. N' /\ \A i : DataByte(k, i)' = DataByte(k, i)
<1>1. N \in Nat /\ N' \in Nat /\ N <= N'
  <2>1. flushes \in Seq([end : Nat, count : Nat]) /\ flushes' \in Seq([end : Nat, count : Nat])
    BY DEF TypeOK, Grows
  <2>2. QED
    BY <2>1, LenProperties DEF N, Grows
<1>2. k \in Nat /\ k \in 1 .. N' /\ (k # 1 => k - 1 \in 1 .. N)
  BY <1>1
<1>3. flushes'[k] = flushes[k] /\ (k # 1 => flushes'[k - 1] = flushes[k - 1])
  BY <1>2 DEF Grows
<1>4. Before(k)' = Before(k) /\ StartOf(k)' = StartOf(k) /\ TrailerAt(k)' = TrailerAt(k)
  BY <1>3 DEF Before, StartOf, TrailerAt
<1>5. Count(k)' = Count(k)
  BY <1>3, <1>4 DEF Count
<1>6. IndexLen(k)' = IndexLen(k) /\ DataEnd(k)' = DataEnd(k)
  BY <1>4, <1>5 DEF IndexLen, DataEnd
<1>7. \A i \in 1 .. Count(k) : objects'[Before(k) + i] = objects[Before(k) + i]
  <2>1. PICK b \in Nat, c \in Nat, l \in Nat :
          b = Before(k) /\ c = Count(k) /\ l = Len(objects) /\ b + c <= l
    BY BunchNumbers
  <2>2. \A i \in 1 .. c : b + i \in 1 .. l
    BY <2>1
  <2>3. \A j \in 1 .. l : objects'[j] = objects[j]
    BY <2>1 DEF Grows
  <2>4. QED
    BY <2>1, <2>2, <2>3
<1>8. ObjectsOf(k)' = ObjectsOf(k) /\ SizesOf(k)' = SizesOf(k)
  BY <1>4, <1>5, <1>7 DEF ObjectsOf, SizesOf
<1>9. TrailerOf(k)' = TrailerOf(k)
  <2>1. k # 1 => TrailerAt(k - 1)' = TrailerAt(k - 1)
    BY <1>3 DEF TrailerAt
  <2>2. QED
    BY <1>4, <1>5, <2>1 DEF TrailerOf
<1>10. \A i : DataByte(k, i)' = DataByte(k, i)
  <2>1. compress' = compress
    BY DEF Grows
  <2>2. QED
    BY <1>8, <2>1 DEF DataByte
<1>11. QED
  BY <1>2, <1>3, <1>4, <1>5, <1>6, <1>8, <1>9, <1>10 DEF SameBunch

\* The objects an index has are among those that were written.
LEMMA EntryObject ==
  ASSUME TypeOK, Layout, NEW m \in Nat, NEW k \in 1 .. N, NEW e, IsEntry(e, m, k)
  PROVE  m \in 1 .. Len(objects)
<1>1. PICK b \in Nat, c \in Nat, l \in Nat :
        b = Before(k) /\ c = Count(k) /\ l = Len(objects) /\ b + c <= l
  BY BunchNumbers
<1>2. m - b \in 1 .. c
  BY <1>1 DEF IsEntry
<1>3. m \in 1 .. l
  BY <1>1, <1>2
<1>4. QED
  BY <1>1, <1>3

\* What a reader has stays right when bunches are added behind what it has seen.
LEMMA ReaderStays ==
  ASSUME TypeOK, Layout, Reader, Grows, UNCHANGED readerVars,
         \A k \in 1 .. N' : k > N => flushes'[k].end > seen
  PROVE  Reader'
<1>1. /\ opened' = opened /\ seen' = seen /\ index' = index /\ current_index' = current_index
      /\ got' = got /\ stream' = stream
  BY DEF readerVars
<1>2. /\ N \in Nat /\ N' \in Nat /\ N <= N' /\ seen \in Nat
      /\ \A k \in 1 .. N' : k \in 1 .. N \/ k > N
  <2>1. flushes \in Seq([end : Nat, count : Nat]) /\ flushes' \in Seq([end : Nat, count : Nat])
        /\ file \in Seq(Content \X Nat)
    BY DEF TypeOK, Grows
  <2>2. N \in Nat /\ N' \in Nat /\ N <= N' /\ Len(file) \in Nat
    BY <2>1, LenProperties DEF N, Grows
  <2>3. QED
    BY <2>2 DEF TypeOK
<1>3. CountAt(seen)' = CountAt(seen)
  <2>1. CountAt(seen)' = CountIn(flushes', seen) /\ CountAt(seen) = CountIn(flushes, seen)
    BY <1>1 DEF CountAt, CountIn
  <2>2. /\ flushes \in Seq([end : Nat, count : Nat]) /\ flushes' \in Seq([end : Nat, count : Nat])
        /\ Len(flushes) <= Len(flushes')
        /\ \A k \in 1 .. Len(flushes) : flushes'[k] = flushes[k]
        /\ \A k \in 1 .. Len(flushes') : k > Len(flushes) => flushes'[k].end > seen
    BY DEF TypeOK, Grows, N
  <2>3. QED
    BY <1>2, <2>1, <2>2, CountStays
<1>4. index \in Seq(Entry) /\ Len(index) \in Nat
  BY LenProperties DEF TypeOK
<1>5. ASSUME opened = "open", NEW m \in 1 .. Len(index)
      PROVE  /\ m \in 1 .. Len(objects)
             /\ \E k \in 1 .. N' : flushes'[k].end <= seen /\ IsEntry(index[m], m, k)'
  <2>1. PICK k \in 1 .. N : flushes[k].end <= seen /\ IsEntry(index[m], m, k)
    BY <1>5 DEF Reader
  <2>2. m \in 1 .. Len(objects)
    BY <1>4, <2>1, EntryObject
  <2>3. SameBunch(k) /\ k \in 1 .. N'
    BY GrowsFacts
  <2>4. objects'[m] = objects[m]
    BY <2>2 DEF Grows
  <2>5. IsEntry(index[m], m, k)'
    BY <1>1, <2>1, <2>3, <2>4 DEF IsEntry, SameBunch
  <2>6. QED
    BY <2>1, <2>2, <2>3, <2>5 DEF SameBunch
<1>6. opened = "open" \/ (index = << >> /\ got.ind = -1 /\ stream = << >>)
  BY DEF Reader
<1>7. \A i \in 1 .. Len(index) : objects'[i] = objects[i]
  <2>1. CASE opened = "open"
    BY <1>5, <2>1 DEF Grows
  <2>2. CASE opened # "open"
    <3>1. Len(index) = 0
      BY <1>6, <2>2
    <3>2. QED
      BY <3>1
  <2>3. QED
    BY <2>1, <2>2
<1>8. (opened = "open" =>
         /\ Len(index) = CountAt(seen)
         /\ \A m \in 1 .. Len(index) :
              \E k \in 1 .. N : flushes[k].end <= seen /\ IsEntry(index[m], m, k))'
  <2>1. opened = "open" => Len(index) = CountAt(seen)
    BY DEF Reader
  <2>2. QED
    BY <1>1, <1>3, <1>5, <2>1
<1>9. (opened = "raised" => seen # HeaderSize /\ \A k \in 1 .. N : seen # flushes[k].end)'
  <2>1. SUFFICES ASSUME opened = "raised", NEW k \in 1 .. N'
                 PROVE  seen # HeaderSize /\ seen # flushes'[k].end
    <3>1. ASSUME opened = "raised" PROVE seen # HeaderSize
      BY <3>1 DEF Reader
    <3>2. QED
      BY <1>1, <3>1
  <2>2. seen # HeaderSize /\ \A j \in 1 .. N : seen # flushes[j].end
    BY <2>1 DEF Reader
  <2>3. CASE k \in 1 .. N
    BY <2>2, <2>3 DEF Grows
  <2>4. CASE k > N
    BY <1>2, <2>2, <2>4
  <2>5. QED
    BY <1>2, <2>3, <2>4
<1>10. (got.ind >= 0 => got.ind < Len(index) /\ got.bytes = ObjectBytes(objects[got.ind + 1]))'
  <2>1. SUFFICES ASSUME got.ind >= 0
                 PROVE  got.ind < Len(index) /\ got.bytes = ObjectBytes(objects'[got.ind + 1])
    BY <1>1
  <2>2. got.ind < Len(index) /\ got.bytes = ObjectBytes(objects[got.ind + 1])
    BY <2>1 DEF Reader
  <2>3. got.ind \in Int
    BY DEF TypeOK
  <2>4. got.ind + 1 \in 1 .. Len(index)
    BY <1>4, <2>1, <2>2, <2>3
  <2>5. QED
    BY <1>7, <2>2, <2>4
<1>11. (\A i \in 1 .. Len(stream) : stream[i] = ObjectBytes(objects[i]))'
  <2>1. Len(stream) <= Len(index) /\ Len(stream) \in Nat
    <3>1. stream \in Seq(Seq(ObjectByte)) /\ current_index \in Nat
      BY DEF TypeOK
    <3>2. Len(stream) \in Nat
      BY <3>1, LenProperties
    <3>3. Len(stream) = IF current_index < Len(index) THEN current_index ELSE Len(index)
      BY DEF Reader
    <3>4. QED
      BY <1>4, <3>1, <3>2, <3>3
  <2>2. \A i \in 1 .. Len(stream) : i \in 1 .. Len(index)
    BY <1>4, <2>1
  <2>3. \A i \in 1 .. Len(stream) : stream[i] = ObjectBytes(objects[i])
    BY DEF Reader
  <2>4. QED
    BY <1>1, <1>7, <2>2, <2>3
<1>12. /\ (opened # "open" => index = << >> /\ got.ind = -1 /\ stream = << >> /\ current_index = 0)'
       /\ (Len(stream) = (IF current_index < Len(index) THEN current_index ELSE Len(index)))'
  BY <1>1 DEF Reader
<1>13. QED
  BY <1>8, <1>9, <1>10, <1>11, <1>12 DEF Reader

------------------------------------------------------------------------------
(* The writer's steps *)

\* A value's cells.
LEMMA CellsFacts ==
  ASSUME NEW v \in Content, NEW n \in Nat
  PROVE  /\ Cells(v, n) \in Seq(Content \X Nat)
         /\ Len(Cells(v, n)) = n
         /\ \A i \in 1 .. n : Cells(v, n)[i] = <<v, i>>
<1>1. Cells(v, n) = [i \in 1 .. n |-> <<v, i>>]
  BY DEF Cells
<1>2. \A i \in 1 .. n : <<v, i>> \in Content \X Nat
  OBVIOUS
<1>3. Cells(v, n) \in [1 .. n -> Content \X Nat]
  BY <1>1, <1>2
<1>4. Cells(v, n) \in Seq(Content \X Nat) /\ Len(Cells(v, n)) = n
  BY <1>3, SeqDef, LenProperties
<1>5. QED
  BY <1>1, <1>4

\* What is neither trailer nor header begins with no trailer.
LEMMA NoTrailers ==
  /\ \A c \in Seq(ObjectByte) : /\ [compressed |-> c] \in Content
                                /\ "bunchoff" \notin DOMAIN [compressed |-> c]
  /\ \A s \in Seq(Nat) : [sizes |-> s] \in Content /\ "bunchoff" \notin DOMAIN [sizes |-> s]
  /\ \A b \in ObjectByte : b \in Content \X Nat /\ "bunchoff" \notin DOMAIN b[1]
  /\ [header |-> TRUE] \in Content /\ "bunchoff" \notin DOMAIN [header |-> TRUE]
<1>1. \A c \in Seq(ObjectByte) : [compressed |-> c] \in Content
  BY DEF Content
<1>2. \A c : "bunchoff" \notin DOMAIN [compressed |-> c]
  <2>1. \A c : DOMAIN [compressed |-> c] = {"compressed"}
    OBVIOUS
  <2>2. QED
    BY <2>1
<1>3. \A s \in Seq(Nat) : [sizes |-> s] \in Content
  BY DEF Content
<1>4. \A s : "bunchoff" \notin DOMAIN [sizes |-> s]
  <2>1. \A s : DOMAIN [sizes |-> s] = {"sizes"}
    OBVIOUS
  <2>2. QED
    BY <2>1
<1>5. ASSUME NEW b \in ObjectByte
      PROVE  b \in Content \X Nat /\ "bunchoff" \notin DOMAIN b[1]
  <2>1. b \in [object : Objects] \X Nat
    BY DEF ObjectByte
  <2>2. b[1] \in [object : Objects] /\ b[2] \in Nat /\ b = <<b[1], b[2]>>
    BY <2>1
  <2>3. b[1] \in Content
    BY <2>2 DEF Content
  <2>4. DOMAIN b[1] = {"object"}
    BY <2>2
  <2>5. b \in Content \X Nat
    BY <2>2, <2>3
  <2>6. QED
    BY <2>4, <2>5
<1>6. [header |-> TRUE] \in Content
  BY DEF Content
<1>7. "bunchoff" \notin DOMAIN [header |-> TRUE]
  <2>1. DOMAIN [header |-> TRUE] = {"header"}
    OBVIOUS
  <2>2. QED
    BY <2>1
<1>8. QED
  BY <1>1, <1>2, <1>3, <1>4, <1>5, <1>6, <1>7

\* The data and the index that a flush writes.
BodyHas(stored, ix, objs) ==
  /\ stored \in Seq(Content \X Nat) /\ Len(stored) \in Nat
  /\ \A i \in 1 .. Len(stored) :
       /\ stored[i] = IF compress THEN <<[compressed |-> Raw(objs)], i>> ELSE Raw(objs)[i]
       /\ "bunchoff" \notin DOMAIN stored[i][1]
  /\ compress => Len(stored) # 0
  /\ ~ compress => Len(stored) = Len(Raw(objs))
  /\ ix \in Seq(Content \X Nat) /\ Len(ix) = Len(objs) * IndexSize /\ Len(ix) \in Nat \ {0}
  /\ \A i \in 1 .. Len(ix) :
       /\ ix[i] = <<[sizes |-> [j \in 1 .. Len(objs) |-> Size[objs[j]]]], i>>
       /\ "bunchoff" \notin DOMAIN ix[i][1]

\* What a flush writes in front of the trailer: the data as it is stored and the index,
\* and no byte of a trailer.
LEMMA BodyFacts ==
  ASSUME compress \in BOOLEAN, NEW objs \in Seq(Objects), objs # << >>,
         NEW stored \in StoredForms(objs)
  PROVE  BodyHas(stored, IndexBytes(objs), objs)
<1>1. PICK n \in Nat \ {0} : n = Len(objs) /\ objs \in [1 .. n -> Objects]
  <2>1. Len(objs) \in Nat /\ objs \in [1 .. Len(objs) -> Objects]
    BY LenProperties
  <2>2. Len(objs) # 0
    BY EmptySeq
  <2>3. QED
    BY <2>1, <2>2
<1>2. PICK sizes : sizes = [j \in 1 .. n |-> Size[objs[j]]]
  OBVIOUS
<1>3. sizes \in [1 .. n -> Nat] /\ sizes \in Seq(Nat)
  <2>1. \A j \in 1 .. n : Size[objs[j]] \in Nat
    BY <1>1, SizeAssumption
  <2>2. QED
    BY <1>2, <2>1
<1>4. Raw(objs) \in Seq(ObjectByte) /\ Len(Raw(objs)) \in Nat
  <2>1. Raw(objs) \in Seq(ObjectByte)
    BY <1>1, <1>2, RawFacts
  <2>2. QED
    BY <2>1, LenProperties
<1>5. /\ stored \in Seq(Content \X Nat) /\ Len(stored) \in Nat
      /\ \A i \in 1 .. Len(stored) :
           /\ stored[i] = IF compress THEN <<[compressed |-> Raw(objs)], i>> ELSE Raw(objs)[i]
           /\ "bunchoff" \notin DOMAIN stored[i][1]
      /\ compress => Len(stored) # 0
      /\ ~ compress => Len(stored) = Len(Raw(objs))
  <2>1. CASE compress
    <3>1. PICK c \in CompressedSizes : stored = Cells([compressed |-> Raw(objs)], c)
      BY <2>1 DEF StoredForms
    <3>2. c \in Nat \ {0}
      BY FormatAssumption
    <3>3. /\ [compressed |-> Raw(objs)] \in Content
          /\ "bunchoff" \notin DOMAIN [compressed |-> Raw(objs)]
      BY <1>4, NoTrailers
    <3>4. PICK v \in Content : v = [compressed |-> Raw(objs)]
      BY <3>3
    <3>5. /\ stored \in Seq(Content \X Nat) /\ Len(stored) = c
          /\ \A i \in 1 .. c : stored[i] = <<v, i>>
      BY <3>1, <3>2, <3>4, CellsFacts
    <3>6. \A i \in 1 .. c : stored[i][1] = v
      <4>1. \A i \in 1 .. c : <<v, i>>[1] = v
        OBVIOUS
      <4>2. QED
        BY <3>5, <4>1, Zenon
    <3>7. QED
      BY <2>1, <3>2, <3>3, <3>4, <3>5, <3>6
  <2>2. CASE ~ compress
    <3>1. stored = Raw(objs)
      BY <2>2 DEF StoredForms
    <3>2. \A i \in 1 .. Len(stored) : stored[i] \in ObjectByte
      BY <1>4, <3>1, ElementOfSeq
    <3>3. \A i \in 1 .. Len(stored) : stored[i] \in Content \X Nat /\ "bunchoff" \notin DOMAIN stored[i][1]
      BY <3>2, NoTrailers
    <3>4. stored \in Seq(Content \X Nat)
      <4>1. stored \in [1 .. Len(stored) -> ObjectByte] /\ Len(stored) \in Nat
        BY <1>4, <3>1, LenProperties
      <4>2. stored \in [1 .. Len(stored) -> Content \X Nat]
        BY <3>3, <4>1
      <4>3. QED
        BY <4>1, <4>2, SeqDef
    <3>5. QED
      BY <1>4, <2>2, <3>1, <3>3, <3>4
  <2>3. QED
    BY <2>1, <2>2
<1>6. /\ IndexBytes(objs) \in Seq(Content \X Nat)
      /\ Len(IndexBytes(objs)) = Len(objs) * IndexSize /\ Len(IndexBytes(objs)) \in Nat \ {0}
      /\ \A i \in 1 .. Len(IndexBytes(objs)) :
           /\ IndexBytes(objs)[i] = <<[sizes |-> sizes], i>>
           /\ "bunchoff" \notin DOMAIN IndexBytes(objs)[i][1]
  <2>1. PICK l \in Nat \ {0} : l = Len(objs) * IndexSize
    <3>1. \A a, b \in Nat \ {0} : a * b \in Nat \ {0}
      OBVIOUS
    <3>2. n * IndexSize \in Nat \ {0}
      BY <3>1, FormatAssumption
    <3>3. QED
      BY <1>1, <3>2
  <2>2. IndexBytes(objs) = Cells([sizes |-> sizes], l)
    <3>1. DOMAIN objs = 1 .. n
      BY <1>1
    <3>2. QED
      BY <1>2, <2>1, <3>1 DEF IndexBytes
  <2>3. [sizes |-> sizes] \in Content /\ "bunchoff" \notin DOMAIN [sizes |-> sizes]
    BY <1>3, NoTrailers
  <2>4. PICK v \in Content : v = [sizes |-> sizes]
    BY <2>3
  <2>5. /\ Cells(v, l) \in Seq(Content \X Nat) /\ Len(Cells(v, l)) = l
        /\ \A i \in 1 .. l : Cells(v, l)[i] = <<v, i>>
    BY <2>1, <2>4, CellsFacts
  <2>6. PICK ix : ix = IndexBytes(objs) /\ ix = Cells(v, l)
    BY <2>2, <2>4
  <2>7. /\ ix \in Seq(Content \X Nat) /\ Len(ix) = l
        /\ \A i \in 1 .. l : ix[i] = <<v, i>>
    BY <2>5, <2>6
  <2>8. \A i \in 1 .. l : ix[i][1] = v
    BY <2>7
  <2>9. QED
    BY <2>1, <2>3, <2>4, <2>6, <2>7, <2>8
<1>7. QED
  BY <1>1, <1>2, <1>5, <1>6 DEF BodyHas

\* Place p of the next file g is right for bunch k.
PlaceGood(g, p, k) ==
  /\ StartOf(k)' < p /\ p <= DataEnd(k)' => g[p] = DataByte(k, p - StartOf(k))'
  /\ DataEnd(k)' < p /\ p <= TrailerAt(k)' => g[p] = <<[sizes |-> SizesOf(k)'], p - DataEnd(k)'>>
  /\ TrailerAt(k)' < p /\ p <= flushes'[k].end => g[p] = <<TrailerOf(k)', p - TrailerAt(k)'>>

\* The places of a file that a flush or a part of one adds to.
LEMMA BytesStay ==
  ASSUME TypeOK, Layout, Bytes, Grows, NEW g \in Seq(Content \X Nat),
         Len(file) <= Len(g), \A p \in 1 .. Len(file) : g[p] = file[p],
         NEW p \in 1 .. Len(file), NEW k \in 1 .. N
  PROVE  PlaceGood(g, p, k)
<1>1. SameBunch(k) /\ \A i : DataByte(k, i)' = DataByte(k, i)
  BY GrowsFacts
<1>2. /\ StartOf(k) < p /\ p <= DataEnd(k) => file[p] = DataByte(k, p - StartOf(k))
      /\ DataEnd(k) < p /\ p <= TrailerAt(k) => file[p] = <<[sizes |-> SizesOf(k)], p - DataEnd(k)>>
      /\ TrailerAt(k) < p /\ p <= flushes[k].end => file[p] = <<TrailerOf(k), p - TrailerAt(k)>>
  BY DEF Bytes
<1>3. g[p] = file[p]
  OBVIOUS
<1>4. DataByte(k, p - StartOf(k))' = DataByte(k, p - StartOf(k))
  <2>1. StartOf(k)' = StartOf(k) /\ ObjectsOf(k)' = ObjectsOf(k) /\ compress' = compress
    BY <1>1 DEF SameBunch, Grows
  <2>2. QED
    BY <2>1 DEF DataByte
<1>5. QED
  BY <1>1, <1>2, <1>3, <1>4 DEF SameBunch, PlaceGood

\* The places behind the bunches.
LEMMA BehindBunches ==
  ASSUME TypeOK, Layout, Grows, NEW g, NEW p \in Nat, p > End, NEW k \in 1 .. N
  PROVE  PlaceGood(g, p, k)
<1>1. SameBunch(k)
  BY GrowsFacts
<1>2. /\ DataEnd(k) \in Nat /\ TrailerAt(k) \in Nat /\ flushes[k].end \in Nat
      /\ DataEnd(k) < TrailerAt(k) /\ flushes[k].end = TrailerAt(k) + TrailerSize
  BY BunchNumbers
<1>3. End \in Nat /\ flushes[k].end <= End
  BY EndFacts
<1>4. TrailerSize \in Nat
  BY HeaderAssumption
<1>5. ~ p <= DataEnd(k) /\ ~ p <= TrailerAt(k) /\ ~ p <= flushes[k].end
  BY <1>2, <1>3, <1>4
<1>6. QED
  BY <1>1, <1>5 DEF SameBunch, PlaceGood

\* What is where when data and index are put behind a file, and a trailer behind them.
Parts3(s, a, b, c) ==
  /\ Len(s) = Len(a) + Len(b) + Len(c)
  /\ \A p \in 1 .. Len(a) : s[p] = a[p]
  /\ \A i \in 1 .. Len(b) : s[Len(a) + i] = b[i]
  /\ \A i \in 1 .. Len(c) : s[Len(a) + Len(b) + i] = c[i]

\* Three sequences one behind the other.
LEMMA ThreeParts ==
  ASSUME NEW S, NEW a \in Seq(S), NEW b \in Seq(S), NEW c \in Seq(S)
  PROVE  a \o (b \o c) \in Seq(S) /\ Parts3(a \o (b \o c), a, b, c)
<1>1. PICK d \in Seq(S) : d = b \o c
  BY ConcatFacts
<1>2. /\ Len(b) \in Nat /\ Len(c) \in Nat /\ Len(d) = Len(b) + Len(c)
      /\ \A i \in 1 .. Len(b) : d[i] = b[i]
      /\ \A i \in 1 .. Len(c) : d[Len(b) + i] = c[i]
  BY <1>1, ConcatFacts
<1>3. PICK e \in Seq(S) : e = a \o d
  BY ConcatFacts
<1>4. /\ Len(a) \in Nat /\ Len(e) = Len(a) + Len(d)
      /\ \A i \in 1 .. Len(a) : e[i] = a[i]
      /\ \A i \in 1 .. Len(d) : e[Len(a) + i] = d[i]
  BY <1>3, ConcatFacts
<1>5. \A i \in 1 .. Len(b) : i \in 1 .. Len(d)
  BY <1>2
<1>6. \A i \in 1 .. Len(c) : Len(b) + i \in 1 .. Len(d) /\ Len(a) + (Len(b) + i) = Len(a) + Len(b) + i
  BY <1>2, <1>4
<1>7. Len(e) = Len(a) + Len(b) + Len(c)
  BY <1>2, <1>4
<1>8. \A i \in 1 .. Len(b) : e[Len(a) + i] = b[i]
  BY <1>2, <1>4, <1>5
<1>9. \A i \in 1 .. Len(c) : e[Len(a) + Len(b) + i] = c[i]
  <2>1. \A i \in 1 .. Len(c) : e[Len(a) + (Len(b) + i)] = c[i]
    BY <1>2, <1>4, <1>6
  <2>2. QED
    BY <1>6, <2>1
<1>10. Parts3(e, a, b, c)
  BY <1>4, <1>7, <1>8, <1>9 DEF Parts3
<1>11. QED
  BY <1>1, <1>3, <1>10

\* The objects that a flush writes: those behind the ones in bunches.
Gives(objs) ==
  /\ objects' \in Seq(Objects)
  /\ Len(objects) <= Len(objects')
  /\ \A i \in 1 .. Len(objects) : objects'[i] = objects[i]
  /\ Len(objs) = Len(objects') - Saved
  /\ \A i \in 1 .. Len(objs) : objs[i] = objects'[Saved + i]

\* The bunch that a flush adds.
NewBunch(K, s, x, objs, at) ==
  /\ Grows /\ K = N + 1 /\ N' = K /\ K \in Nat /\ K \in 1 .. N'
  /\ fp = End /\ Len(file) = fp
  /\ flushes'[K] = [end |-> at + TrailerSize, count |-> Len(objects')]
  /\ Before(K)' = Saved /\ Len(objects') - Saved \in Nat \ {0}
  /\ StartOf(K)' = fp
  /\ TrailerAt(K)' = at
  /\ DataEnd(K)' = fp + s
  /\ ObjectsOf(K)' = objs
  /\ SizesOf(K)' = [j \in 1 .. Len(objs) |-> Size[objs[j]]]
  /\ TrailerOf(K)' = Trailer(at, Len(objs))
  /\ at = fp + s + x
  /\ End' = at + TrailerSize
  /\ Saved' = Len(objects')

\* The bunch that a flush appends, in the terms of the layout.
LEMMA NewBunchFacts ==
  ASSUME TypeOK, Layout, Writer, state = "open", NEW objs \in Seq(Objects), objs # << >>,
         Gives(objs), compress' = compress, bunch_number <= MaxBunch,
         NEW s \in Nat, NEW x \in Nat, x = Len(objs) * IndexSize,
         NEW at \in Nat, at = fp + s + x,
         flushes' = Append(flushes, [end |-> at + TrailerSize, count |-> Len(objects')]),
         NEW K \in Nat, K = N + 1
  PROVE  NewBunch(K, s, x, objs, at)
<1>1. /\ N \in Nat /\ End \in Nat /\ Saved \in Nat /\ Saved <= Len(objects) /\ Len(objects) \in Nat
      /\ HeaderSize \in Nat /\ HeaderSize <= End
  BY EndFacts
<1>2. /\ fp \in Nat /\ bunch_number \in Nat /\ MaxBunch \in Nat
      /\ TrailerSize \in Nat \ {0} /\ IndexSize \in Nat \ {0}
  BY FormatAssumption, HeaderAssumption DEF TypeOK
<1>3. fp = End /\ Len(file) = fp
  BY <1>1, <1>2 DEF Writer
<1> DEFINE new == [end |-> at + TrailerSize, count |-> Len(objects')]
<1>4. K \in Nat /\ K \in 1 .. K /\ (K # 1 => K - 1 = N) /\ (K = 1 <=> N = 0) /\ K - 1 = N
      /\ \A k \in 1 .. N : k # K
  BY <1>1
<1>5. Len(objects') \in Nat /\ Len(objs) \in Nat \ {0}
  <2>1. objects' \in Seq(Objects)
    BY DEF Gives
  <2>2. QED
    BY <2>1, LenProperties, EmptySeq
<1>6. new \in [end : Nat, count : Nat]
  BY <1>2, <1>5
<1>7. /\ flushes' \in Seq([end : Nat, count : Nat]) /\ Len(flushes') = K
      /\ flushes'[K] = new /\ \A k \in 1 .. N : flushes'[k] = flushes[k]
  <2>1. flushes \in Seq([end : Nat, count : Nat]) /\ flushes' = Append(flushes, new)
    BY DEF TypeOK
  <2> HIDE DEF new
  <2>2. QED
    BY <1>6, <2>1, AppendProperties DEF N
<1>8. N' = K
  BY <1>7 DEF N
<1>9. Grows
  BY <1>1, <1>7, <1>8 DEF Grows, Gives
<1>10. Before(K)' = Saved /\ StartOf(K)' = fp
  <2>1. CASE N = 0
    BY <1>3, <1>4, <2>1 DEF Before, StartOf, Saved, End
  <2>2. CASE N # 0
    <3>1. flushes'[K - 1] = flushes[K - 1] /\ flushes[K - 1] = flushes[N]
      BY <1>1, <1>4, <1>7, <2>2
    <3>2. QED
      BY <1>3, <1>4, <2>2, <3>1 DEF Before, StartOf, Saved, End
  <2>3. QED
    BY <2>1, <2>2
<1>11. TrailerAt(K)' = at
  <2>1. PICK e \in Nat : e = at + TrailerSize
    BY <1>2
  <2>2. flushes'[K].end = e
    BY <1>7, <2>1
  <2>3. TrailerAt(K)' = e - TrailerSize
    BY <2>2 DEF TrailerAt
  <2>4. QED
    BY <1>2, <2>1, <2>3
<1>12. Count(K)' = Len(objs)
  <2>1. Count(K)' = Len(objects') - Saved
    BY <1>7, <1>10 DEF Count
  <2>2. QED
    BY <2>1 DEF Gives
<1>13. IndexLen(K)' = x
  BY <1>12 DEF IndexLen
<1>14. DataEnd(K)' = fp + s
  <2>1. DataEnd(K)' = at - x
    BY <1>11, <1>13 DEF DataEnd
  <2>2. QED
    BY <1>2, <2>1
<1>15. ObjectsOf(K)' = objs /\ SizesOf(K)' = [j \in 1 .. Len(objs) |-> Size[objs[j]]]
  <2>1. \A i \in 1 .. Len(objs) : objs[i] = objects'[Saved + i]
    BY DEF Gives
  <2>2. objs = [i \in 1 .. Len(objs) |-> objs[i]]
    BY LenProperties
  <2>3. ObjectsOf(K)' = [i \in 1 .. Len(objs) |-> objects'[Saved + i]]
    BY <1>10, <1>12 DEF ObjectsOf
  <2>4. SizesOf(K)' = [i \in 1 .. Len(objs) |-> Size[objects'[Saved + i]]]
    BY <1>10, <1>12 DEF SizesOf
  <2>5. QED
    BY <2>1, <2>2, <2>3, <2>4
<1>16. TrailerOf(K)' = Trailer(at, Len(objs))
  <2>1. (IF K = 1 THEN 0 ELSE TrailerAt(K - 1))' = last_bunch_fp
    <3>1. CASE N = 0
      BY <1>4, <3>1 DEF Writer
    <3>2. CASE N # 0
      <4>1. flushes'[K - 1] = flushes[K - 1]
        BY <1>1, <1>4, <1>7, <3>2
      <4>2. TrailerAt(K - 1)' = TrailerAt(K - 1) /\ TrailerAt(K - 1) = TrailerAt(N)
        BY <1>4, <4>1 DEF TrailerAt
      <4>3. QED
        BY <1>4, <3>2, <4>2 DEF Writer
    <3>3. QED
      BY <3>1, <3>2
  <2>2. K - 1 = bunch_number
    BY <1>4 DEF Writer
  <2>3. QED
    BY <1>10, <1>11, <1>12, <2>1, <2>2 DEF TrailerOf, Trailer
<1>17. End' = at + TrailerSize /\ Saved' = Len(objects')
  BY <1>4, <1>7, <1>8 DEF End, Saved
<1>18. Len(objects') - Saved \in Nat \ {0}
  BY <1>5 DEF Gives
<1>19. QED
  BY <1>3, <1>4, <1>7, <1>8, <1>9, <1>10, <1>11, <1>14, <1>15, <1>16, <1>17, <1>18
     DEF NewBunch

\* The bytes of the file with the new bunch.
LEMMA NewBytes ==
  ASSUME TypeOK, Layout, Bytes, NEW objs \in Seq(Objects), NEW stored, NEW x,
         BodyHas(stored, x, objs), compress' = compress,
         NEW K, NEW at \in Nat, NewBunch(K, Len(stored), Len(x), objs, at),
         Trailer(at, Len(objs)) \in Content,
         file' = file \o (stored \o x) \o Cells(Trailer(at, Len(objs)), TrailerSize)
  PROVE  /\ file' \in Seq(Content \X Nat) /\ Len(file') = at + TrailerSize
         /\ Len(file) <= Len(file')
         /\ Bytes'
<1> DEFINE t == Cells(Trailer(at, Len(objs)), TrailerSize)
           body == file \o (stored \o x)
<1>1. file \in Seq(Content \X Nat) /\ stored \in Seq(Content \X Nat) /\ x \in Seq(Content \X Nat)
  BY DEF TypeOK, BodyHas
<1>2. TrailerSize \in Nat \ {0}
  BY HeaderAssumption
<1>3. /\ t \in Seq(Content \X Nat) /\ Len(t) = TrailerSize
      /\ \A i \in 1 .. TrailerSize : t[i] = <<Trailer(at, Len(objs)), i>>
  BY <1>2, CellsFacts
<1> HIDE DEF t
<1>4. body \in Seq(Content \X Nat) /\ Parts3(body, file, stored, x)
  BY <1>1, ThreeParts
<1> HIDE DEF body
<1>5. file' = body \o t
  BY DEF body, t
<1>6. PICK F \in Nat, s \in Nat, l \in Nat :
        /\ F = Len(file) /\ s = Len(stored) /\ l = Len(x) /\ F = fp
        /\ at = F + s + l /\ Len(body) = at
  <2>1. Len(file) \in Nat /\ Len(stored) \in Nat /\ Len(x) \in Nat
    BY <1>1, LenProperties
  <2>2. /\ Len(file) = fp /\ at = fp + Len(stored) + Len(x)
        /\ Len(body) = Len(file) + Len(stored) + Len(x)
    BY <1>4 DEF NewBunch, Parts3
  <2>3. QED
    BY <2>1, <2>2
<1>7. /\ file' \in Seq(Content \X Nat) /\ Len(file') = at + TrailerSize
      /\ \A p \in 1 .. at : file'[p] = body[p]
      /\ \A i \in 1 .. TrailerSize : file'[at + i] = <<Trailer(at, Len(objs)), i>>
  <2>1. PICK b \in Seq(Content \X Nat), r \in Seq(Content \X Nat) : b = body /\ r = t
    BY <1>3, <1>4
  <2>2. PICK g \in Seq(Content \X Nat) : g = b \o r
    BY ConcatFacts
  <2>3. /\ Len(g) = Len(b) + Len(r)
        /\ \A p \in 1 .. Len(b) : g[p] = b[p]
        /\ \A i \in 1 .. Len(r) : g[Len(b) + i] = r[i]
    BY <2>2, ConcatFacts
  <2>4. file' = g
    BY <1>5, <2>1, <2>2
  <2>5. QED
    BY <1>3, <1>6, <2>1, <2>3, <2>4
<1>8. \A p \in 1 .. F : file'[p] = file[p]
  <2>1. \A p \in 1 .. F : p \in 1 .. at
    BY <1>6
  <2>2. \A p \in 1 .. F : body[p] = file[p]
    BY <1>4, <1>6 DEF Parts3
  <2>3. QED
    BY <1>7, <2>1, <2>2
<1>9. \A i \in 1 .. s : file'[F + i] = stored[i]
  <2>1. \A i \in 1 .. s : F + i \in 1 .. at
    BY <1>6
  <2>2. \A i \in 1 .. s : body[F + i] = stored[i]
    BY <1>4, <1>6 DEF Parts3
  <2>3. QED
    BY <1>7, <2>1, <2>2
<1>10. \A i \in 1 .. l : file'[F + s + i] = x[i]
  <2>1. \A i \in 1 .. l : F + s + i \in 1 .. at
    BY <1>6
  <2>2. \A i \in 1 .. l : body[F + s + i] = x[i]
    BY <1>4, <1>6 DEF Parts3
  <2>3. QED
    BY <1>7, <2>1, <2>2
<1>11. PICK L \in Nat : L = Len(file') /\ L = at + TrailerSize
  BY <1>2, <1>7
<1>12. F <= L
  BY <1>2, <1>6, <1>11
<1>13. /\ StartOf(K)' = F /\ DataEnd(K)' = F + s /\ TrailerAt(K)' = at
       /\ flushes'[K].end = at + TrailerSize /\ K \in 1 .. N' /\ Grows
       /\ ObjectsOf(K)' = objs /\ SizesOf(K)' = [j \in 1 .. Len(objs) |-> Size[objs[j]]]
       /\ TrailerOf(K)' = Trailer(at, Len(objs))
  BY <1>6 DEF NewBunch
<1>14. \A k \in 1 .. N' : k \in 1 .. N \/ k = K
  <2>1. N \in Nat /\ N' = N + 1 /\ K = N + 1
    BY EndFacts DEF NewBunch
  <2>2. QED
    BY <2>1
<1>15. \A p \in 1 .. L : /\ p \in Nat
                         /\ \/ p \in 1 .. F
                            \/ p > F /\ p - F \in 1 .. s
                            \/ p > F /\ p - (F + s) \in 1 .. l
                            \/ p > F /\ p - at \in 1 .. TrailerSize
  BY <1>2, <1>6, <1>11
<1>16. ASSUME NEW p \in 1 .. L
       PROVE  /\ \A k \in 1 .. N : PlaceGood(file', p, k)
              /\ PlaceGood(file', p, K)
              /\ "bunchoff" \in DOMAIN file'[p][1] =>
                   \E k \in 1 .. N' : TrailerAt(k)' < p /\ p <= flushes'[k].end
  <2>1. CASE p \in 1 .. F
    <3>1. \A k \in 1 .. N : PlaceGood(file', p, k)
      BY <1>6, <1>7, <1>8, <1>11, <1>12, <1>13, <2>1, BytesStay
    <3>2. ~ F < p /\ ~ F + s < p /\ ~ at < p
      BY <1>6, <2>1
    <3>3. PlaceGood(file', p, K)
      BY <1>13, <3>2 DEF PlaceGood
    <3>4. ASSUME "bunchoff" \in DOMAIN file'[p][1]
          PROVE  \E k \in 1 .. N' : TrailerAt(k)' < p /\ p <= flushes'[k].end
      <4>1. PICK k \in 1 .. N : TrailerAt(k) < p /\ p <= flushes[k].end
        BY <1>6, <1>8, <2>1, <3>4 DEF Bytes
      <4>2. SameBunch(k) /\ k \in 1 .. N'
        BY <1>13, GrowsFacts
      <4>3. QED
        BY <4>1, <4>2 DEF SameBunch
    <3>5. QED
      BY <3>1, <3>3, <3>4
  <2>2. ASSUME p > F
        PROVE  \A k \in 1 .. N : PlaceGood(file', p, k)
    <3>1. p > End /\ p \in Nat
      BY <1>6, <1>15, <2>2 DEF NewBunch
    <3>2. QED
      BY <1>13, <3>1, BehindBunches
  <2>3. CASE p > F /\ p - F \in 1 .. s
    <3>1. PICK i \in 1 .. s : p = F + i
      BY <1>6, <2>3
    <3>2. /\ file'[p] = IF compress THEN <<[compressed |-> Raw(objs)], i>> ELSE Raw(objs)[i]
          /\ "bunchoff" \notin DOMAIN file'[p][1]
      <4>1. file'[p] = stored[i]
        BY <1>9, <3>1
      <4>2. /\ stored[i] = IF compress THEN <<[compressed |-> Raw(objs)], i>> ELSE Raw(objs)[i]
            /\ "bunchoff" \notin DOMAIN stored[i][1]
        BY <1>6 DEF BodyHas
      <4>3. QED
        BY <4>1, <4>2
    <3>3. p - F = i /\ ~ F + s < p /\ ~ at < p
      BY <1>6, <3>1
    <3>4. DataByte(K, p - StartOf(K))' = file'[p]
      BY <1>13, <3>2, <3>3 DEF DataByte
    <3>5. PlaceGood(file', p, K)
      BY <1>13, <3>3, <3>4 DEF PlaceGood
    <3>6. QED
      BY <2>2, <2>3, <3>2, <3>5
  <2>4. CASE p > F /\ p - (F + s) \in 1 .. l
    <3>1. PICK i \in 1 .. l : p = F + s + i
      <4>1. p \in Nat /\ F \in Nat /\ s \in Nat
        BY <1>15
      <4>2. p = F + s + (p - (F + s))
        BY <4>1
      <4>3. QED
        BY <2>4, <4>2
    <3>2. /\ file'[p] = <<[sizes |-> SizesOf(K)'], i>>
          /\ "bunchoff" \notin DOMAIN file'[p][1]
      <4>1. file'[p] = x[i]
        BY <1>10, <3>1
      <4>2. /\ x[i] = <<[sizes |-> [j \in 1 .. Len(objs) |-> Size[objs[j]]]], i>>
            /\ "bunchoff" \notin DOMAIN x[i][1]
        BY <1>6 DEF BodyHas
      <4>3. QED
        BY <1>13, <4>1, <4>2
    <3>3. p - (F + s) = i /\ ~ p <= F + s /\ ~ at < p
      BY <1>6, <3>1
    <3>4. PlaceGood(file', p, K)
      BY <1>13, <3>2, <3>3 DEF PlaceGood
    <3>5. QED
      BY <2>2, <2>4, <3>2, <3>4
  <2>5. CASE p > F /\ p - at \in 1 .. TrailerSize
    <3>1. PICK i \in 1 .. TrailerSize : p = at + i
      BY <1>2, <2>5, <1>15
    <3>2. file'[p] = <<TrailerOf(K)', i>>
      BY <1>7, <1>13, <3>1
    <3>3. p - at = i /\ ~ p <= F + s /\ ~ p <= at /\ at < p /\ p <= at + TrailerSize
      BY <1>2, <1>6, <3>1
    <3>4. PlaceGood(file', p, K)
      BY <1>13, <3>2, <3>3 DEF PlaceGood
    <3>5. \E k \in 1 .. N' : TrailerAt(k)' < p /\ p <= flushes'[k].end
      BY <1>13, <3>3
    <3>6. QED
      BY <2>2, <2>5, <3>4, <3>5
  <2>6. QED
    BY <1>15, <2>1, <2>3, <2>4, <2>5
<1>17. Bytes'
  <2>1. ASSUME NEW p \in 1 .. Len(file'), NEW k \in 1 .. N'
        PROVE  PlaceGood(file', p, k)
    BY <1>11, <1>14, <1>16
  <2>2. QED
    BY <1>11, <1>16, <2>1 DEF Bytes, PlaceGood
<1>18. QED
  BY <1>6, <1>7, <1>11, <1>12, <1>17

\* A flush keeps the invariant.
LEMMA FlushKeeps ==
  ASSUME OInv, state = "open", state' \in {"open", "closed"}, UNCHANGED <<compress, readerVars>>,
         NEW objs \in Seq(Objects), objs # << >>, Gives(objs), Flush(objs)
  PROVE  OInv'
<1> USE DEF OInv
<1>1. PICK stored \in StoredForms(objs) :
        LET at == fp + Len(stored \o IndexBytes(objs))
        IN  /\ bunch_number <= MaxBunch
            /\ file' = file \o (stored \o IndexBytes(objs))
                            \o Cells(Trailer(at, Len(objs)), TrailerSize)
            /\ fp' = at + TrailerSize
            /\ last_bunch_fp' = at
            /\ bunch_number' = bunch_number + 1
            /\ buffer' = << >>
            /\ cbunchoffset' = 0
            /\ flushes' = Append(flushes, [end |-> at + TrailerSize, count |-> Len(objects')])
  BY DEF Flush
<1>2. PICK x : x = IndexBytes(objs)
  OBVIOUS
<1>3. BodyHas(stored, x, objs)
  BY <1>2, BodyFacts DEF TypeOK
<1>4. PICK s \in Nat, l \in Nat : /\ s = Len(stored) /\ l = Len(x) /\ l = Len(objs) * IndexSize
                                  /\ Len(stored \o x) = s + l
  <2>1. stored \in Seq(Content \X Nat) /\ x \in Seq(Content \X Nat)
    BY <1>3 DEF BodyHas
  <2>2. Len(stored \o x) = Len(stored) + Len(x)
    BY <2>1, ConcatFacts
  <2>3. QED
    BY <1>3, <2>2 DEF BodyHas
<1>5. PICK at \in Nat : at = fp + s + l
  BY DEF TypeOK
<1>6. at = fp + Len(stored \o IndexBytes(objs))
  BY <1>2, <1>4, <1>5 DEF TypeOK
<1>7. /\ bunch_number <= MaxBunch
      /\ file' = file \o (stored \o x) \o Cells(Trailer(at, Len(objs)), TrailerSize)
      /\ fp' = at + TrailerSize /\ last_bunch_fp' = at /\ bunch_number' = bunch_number + 1
      /\ buffer' = << >> /\ cbunchoffset' = 0
      /\ flushes' = Append(flushes, [end |-> at + TrailerSize, count |-> Len(objects')])
  BY <1>1, <1>2, <1>6
<1>8. PICK K \in Nat : K = N + 1
  BY EndFacts
<1>9. NewBunch(K, s, l, objs, at)
  <2>1. compress' = compress
    OBVIOUS
  <2>2. QED
    BY <1>4, <1>5, <1>7, <1>8, <2>1, NewBunchFacts
<1>10. Trailer(at, Len(objs)) \in Content
  <2>1. at \in Int /\ fp \in Int /\ last_bunch_fp \in Int /\ bunch_number \in Nat /\ Len(objs) \in Nat
    BY LenProperties DEF TypeOK
  <2>2. at - last_bunch_fp \in Int /\ at - fp \in Int
    BY <2>1
  <2>3. QED
    BY <2>1, <2>2 DEF Trailer, Content
<1>11. /\ file' \in Seq(Content \X Nat) /\ Len(file') = at + TrailerSize
       /\ Len(file) <= Len(file') /\ Bytes'
  <2>1. NewBunch(K, Len(stored), Len(x), objs, at)
    BY <1>4, <1>9
  <2>2. QED
    BY <1>3, <1>7, <1>10, <2>1, NewBytes
<1>12. TrailerSize \in Nat \ {0}
  BY HeaderAssumption
<1>13. Grows /\ N' = N + 1 /\ N \in Nat /\ K = N + 1
  BY <1>9, EndFacts DEF NewBunch
<1>14. \A k \in 1 .. N' : k \in 1 .. N \/ k = K
  BY <1>13
<1>15. /\ fp \in Nat /\ Len(file) = fp /\ fp = End /\ seen <= fp /\ seen \in Nat
       /\ fp < at + TrailerSize
  <2>1. fp \in Nat /\ Len(file) = fp /\ fp = End
    BY <1>9 DEF NewBunch, TypeOK
  <2>2. seen \in 0 .. Len(file)
    BY DEF TypeOK
  <2>3. QED
    BY <1>5, <1>12, <2>1, <2>2
<1>16. /\ opened' = opened /\ seen' = seen /\ index' = index /\ current_index' = current_index
       /\ got' = got /\ stream' = stream
  BY DEF readerVars
<1>17. TypeOK'
  <2>1. at + TrailerSize \in Nat /\ bunch_number + 1 \in Nat
    BY <1>12 DEF TypeOK
  <2>2. seen' \in 0 .. Len(file')
    BY <1>11, <1>15, <1>16
  <2>3. << >> \in Seq(Objects)
    OBVIOUS
  <2>4. QED
    BY <1>7, <1>11, <1>13, <1>16, <2>1, <2>2, <2>3 DEF TypeOK, Grows
<1>18. Layout'
  <2>1. ASSUME NEW k \in 1 .. N'
        PROVE  /\ Before(k)' < flushes'[k].count
               /\ flushes'[k].count <= Len(objects')
               /\ StartOf(k)' <= DataEnd(k)'
               /\ compress' => StartOf(k)' < DataEnd(k)'
               /\ ~ compress' => DataEnd(k)' - StartOf(k)' = Len(Raw(ObjectsOf(k)'))
    <3>1. CASE k \in 1 .. N
      <4>1. SameBunch(k) /\ compress' = compress
        BY <1>13, <3>1, GrowsFacts
      <4>2. /\ Before(k) < flushes[k].count
            /\ flushes[k].count <= Len(objects)
            /\ StartOf(k) <= DataEnd(k)
            /\ compress => StartOf(k) < DataEnd(k)
            /\ ~ compress => DataEnd(k) - StartOf(k) = Len(Raw(ObjectsOf(k)))
        BY <3>1 DEF Layout
      <4>3. flushes[k].count <= Len(objects')
        <5>1. flushes[k].count \in Nat /\ Len(objects) \in Nat
          BY <3>1, BunchNumbers
        <5>2. Len(objects) <= Len(objects') /\ Len(objects') \in Nat
          <6>1. objects' \in Seq(Objects) /\ Len(objects) <= Len(objects')
            BY DEF Gives
          <6>2. QED
            BY <6>1, LenProperties
        <5>3. QED
          BY <4>2, <5>1, <5>2
      <4>4. QED
        BY <4>1, <4>2, <4>3 DEF SameBunch
    <3>2. CASE k = K
      <4>1. /\ Before(K)' = Saved /\ flushes'[K].count = Len(objects')
            /\ StartOf(K)' = fp /\ DataEnd(K)' = fp + s /\ ObjectsOf(K)' = objs
            /\ Len(objects') - Saved \in Nat \ {0}
        BY <1>9 DEF NewBunch
      <4>2. Saved \in Nat /\ Len(objects') \in Nat
        <5>1. objects' \in Seq(Objects)
          BY DEF Gives
        <5>2. QED
          BY <5>1, EndFacts, LenProperties
      <4>3. Saved < Len(objects')
        BY <4>1, <4>2
      <4>4. fp + s - fp = s /\ fp <= fp + s /\ (s # 0 => fp < fp + s)
        BY <1>15
      <4>5. (compress => s # 0) /\ (~ compress => s = Len(Raw(objs))) /\ compress' = compress
        BY <1>3, <1>4 DEF BodyHas
      <4>6. Before(K)' < flushes'[K].count /\ flushes'[K].count <= Len(objects')
        BY <4>1, <4>2, <4>3
      <4>7. StartOf(K)' <= DataEnd(K)' /\ (compress' => StartOf(K)' < DataEnd(K)')
        BY <4>1, <4>4, <4>5
      <4>8. ~ compress' => DataEnd(K)' - StartOf(K)' = Len(Raw(ObjectsOf(K)'))
        <5>1. DataEnd(K)' - StartOf(K)' = s
          BY <1>15, <4>1
        <5>2. QED
          BY <4>1, <4>5, <5>1
      <4>9. QED
        BY <3>2, <4>6, <4>7, <4>8
    <3>3. QED
      BY <1>14, <3>1, <3>2
  <2>2. ASSUME NEW j \in 1 .. N', NEW k \in 1 .. N', j < k
        PROVE  flushes'[j].end < flushes'[k].end /\ flushes'[j].count < flushes'[k].count
    <3>1. j \in 1 .. N
      BY <1>13, <2>2
    <3>2. flushes'[j] = flushes[j]
      BY <1>13, <3>1 DEF Grows
    <3>3. CASE k \in 1 .. N
      <4>1. flushes'[k] = flushes[k]
        BY <1>13, <3>3 DEF Grows
      <4>2. QED
        BY <2>2, <3>1, <3>2, <3>3, <4>1 DEF Layout
    <3>4. CASE k = K
      <4>1. flushes'[K].end = at + TrailerSize /\ flushes'[K].count = Len(objects')
            /\ Len(objects') - Saved \in Nat \ {0}
        BY <1>9 DEF NewBunch
      <4>2. flushes[j].end <= End /\ End \in Nat /\ flushes[j].end \in Nat
        BY <3>1, EndFacts, BunchNumbers
      <4>3. flushes[j].end < at + TrailerSize
        BY <1>12, <1>15, <4>2
      <4>4. flushes[j].count <= Saved /\ Saved \in Nat /\ flushes[j].count \in Nat
        <5>1. N # 0 /\ N \in 1 .. N /\ Saved = flushes[N].count
          BY <1>13, <3>1 DEF Saved
        <5>2. j < N => flushes[j].count < flushes[N].count
          BY <3>1, <5>1 DEF Layout
        <5>3. flushes[j].count \in Nat /\ flushes[N].count \in Nat
          BY <3>1, <5>1, BunchNumbers
        <5>4. j < N \/ j = N
          BY <1>13, <3>1
        <5>5. QED
          BY <5>1, <5>2, <5>3, <5>4
      <4>5. Len(objects') \in Nat
        <5>1. objects' \in Seq(Objects)
          BY DEF Gives
        <5>2. QED
          BY <5>1, LenProperties
      <4>6. flushes[j].count < Len(objects')
        BY <4>1, <4>4, <4>5
      <4>7. QED
        BY <3>2, <3>4, <4>1, <4>3, <4>6
    <3>5. QED
      BY <1>14, <3>3, <3>4
  <2>3. QED
    BY <2>1, <2>2 DEF Layout
<1>19. Writer'
  <2>1. bunch_number' = N'
    BY <1>7, <1>13 DEF Writer
  <2>2. N' # 0 /\ N' = K /\ TrailerAt(K)' = at /\ End' = at + TrailerSize /\ Saved' = Len(objects')
    BY <1>9, <1>13 DEF NewBunch
  <2>3. (last_bunch_fp = (IF N = 0 THEN 0 ELSE TrailerAt(N)))'
    <3>1. TrailerAt(N)' = at
      BY <2>2 DEF TrailerAt
    <3>2. QED
      BY <1>7, <2>2, <3>1
  <2>4. Len(buffer') = 0 /\ Len(objects') \in Nat
    <3>1. objects' \in Seq(Objects)
      BY DEF Gives
    <3>2. QED
      BY <1>7, <3>1, LenProperties
  <2>5. fp' = End' /\ fp' \in Nat /\ Len(file') = fp'
    BY <1>7, <1>11, <1>12, <2>2
  <2>6. QED
    BY <1>7, <2>1, <2>2, <2>3, <2>4, <2>5 DEF Writer
<1>20. Reader'
  <2>1. \A k \in 1 .. N' : k > N => flushes'[k].end > seen
    <3>1. flushes'[K].end = at + TrailerSize
      BY <1>9 DEF NewBunch
    <3>2. at + TrailerSize > seen
      BY <1>12, <1>15
    <3>3. \A k \in 1 .. N : ~ k > N
      BY <1>13
    <3>4. QED
      BY <1>14, <3>1, <3>2, <3>3
  <2>2. QED
    BY <1>13, <2>1, ReaderStays
<1>21. QED
  BY <1>11, <1>17, <1>18, <1>19, <1>20

\* So does a flush that raises: data and index are in no bunch.
LEMMA RaiseKeeps ==
  ASSUME OInv, state = "open", state' \in {"open", "failed"}, UNCHANGED <<compress, readerVars>>,
         cbunchoffset' \in Nat,
         NEW objs \in Seq(Objects), objs # << >>, Gives(objs), FlushRaises(objs)
  PROVE  OInv'
<1> USE DEF OInv
<1>1. PICK stored \in StoredForms(objs) :
        /\ bunch_number > MaxBunch
        /\ file' = file \o (stored \o IndexBytes(objs))
        /\ fp' = fp + Len(stored \o IndexBytes(objs))
        /\ buffer' = objs
        /\ UNCHANGED <<last_bunch_fp, bunch_number, flushes>>
  BY DEF FlushRaises
<1>2. PICK x : x = IndexBytes(objs)
  OBVIOUS
<1>3. BodyHas(stored, x, objs)
  BY <1>2, BodyFacts DEF TypeOK
<1>4. /\ stored \in Seq(Content \X Nat) /\ x \in Seq(Content \X Nat)
      /\ file \in Seq(Content \X Nat)
  BY <1>3 DEF BodyHas, TypeOK
<1>5. PICK s \in Nat, l \in Nat : s = Len(stored) /\ l = Len(x) /\ Len(stored \o x) = s + l
  <2>1. Len(stored \o x) = Len(stored) + Len(x) /\ Len(stored) \in Nat /\ Len(x) \in Nat
    BY <1>4, ConcatFacts
  <2>2. QED
    BY <2>1
<1>6. PICK F \in Nat : F = fp /\ F = Len(file) /\ F >= End /\ End \in Nat
  BY EndFacts DEF Writer, TypeOK
<1>7. /\ file' = file \o (stored \o x) /\ fp' = F + (s + l) /\ buffer' = objs
      /\ flushes' = flushes /\ last_bunch_fp' = last_bunch_fp /\ bunch_number' = bunch_number
  BY <1>1, <1>2, <1>5, <1>6
<1>8. file' \in Seq(Content \X Nat) /\ Parts3(file', file, stored, x)
  BY <1>4, <1>7, ThreeParts
<1>9. /\ Len(file') = F + s + l
      /\ \A p \in 1 .. F : file'[p] = file[p]
      /\ \A i \in 1 .. s : file'[F + i] = stored[i]
      /\ \A i \in 1 .. l : file'[F + s + i] = x[i]
  BY <1>5, <1>6, <1>8 DEF Parts3
<1>10. Grows /\ N' = N /\ N \in Nat
  <2>1. N' = N /\ N \in Nat
    BY <1>7, EndFacts DEF N
  <2>2. QED
    BY <1>7, <2>1 DEF Grows, Gives, TypeOK
<1>11. /\ opened' = opened /\ seen' = seen /\ index' = index /\ current_index' = current_index
       /\ got' = got /\ stream' = stream
  BY DEF readerVars
<1>12. Len(objects') \in Nat
  <2>1. objects' \in Seq(Objects)
    BY DEF Gives
  <2>2. QED
    BY <2>1, LenProperties
<1>13. TypeOK'
  <2>1. seen' \in 0 .. Len(file')
    <3>1. seen \in 0 .. F
      BY <1>6 DEF TypeOK
    <3>2. QED
      BY <1>9, <1>11, <3>1
  <2>2. fp' \in Nat
    BY <1>7
  <2>3. QED
    BY <1>7, <1>8, <1>10, <1>11, <2>1, <2>2 DEF TypeOK, Grows
<1>14. Layout'
  <2>1. ASSUME NEW k \in 1 .. N
        PROVE  /\ Before(k)' < flushes'[k].count
               /\ flushes'[k].count <= Len(objects')
               /\ StartOf(k)' <= DataEnd(k)'
               /\ compress' => StartOf(k)' < DataEnd(k)'
               /\ ~ compress' => DataEnd(k)' - StartOf(k)' = Len(Raw(ObjectsOf(k)'))
    <3>1. SameBunch(k) /\ compress' = compress
      BY <1>10, GrowsFacts
    <3>2. /\ Before(k) < flushes[k].count
          /\ flushes[k].count <= Len(objects)
          /\ StartOf(k) <= DataEnd(k)
          /\ compress => StartOf(k) < DataEnd(k)
          /\ ~ compress => DataEnd(k) - StartOf(k) = Len(Raw(ObjectsOf(k)))
      BY DEF Layout
    <3>3. flushes[k].count <= Len(objects')
      <4>1. flushes[k].count \in Nat /\ Len(objects) \in Nat /\ Len(objects) <= Len(objects')
        BY BunchNumbers DEF Gives
      <4>2. QED
        BY <1>12, <3>2, <4>1
    <3>4. QED
      BY <3>1, <3>2, <3>3 DEF SameBunch
  <2>2. \A j, k \in 1 .. N :
          j < k => flushes'[j].end < flushes'[k].end /\ flushes'[j].count < flushes'[k].count
    BY <1>7 DEF Layout
  <2>3. QED
    BY <1>10, <2>1, <2>2 DEF Layout
<1>15. Writer'
  <2>1. End' = End /\ Saved' = Saved /\ (last_bunch_fp = (IF N = 0 THEN 0 ELSE TrailerAt(N)))'
    <3>1. End' = End /\ Saved' = Saved
      BY <1>7, <1>10 DEF End, Saved
    <3>2. TrailerAt(N)' = TrailerAt(N)
      BY <1>7, <1>10 DEF TrailerAt
    <3>3. last_bunch_fp = IF N = 0 THEN 0 ELSE TrailerAt(N)
      BY DEF Writer
    <3>4. QED
      BY <1>7, <1>10, <3>1, <3>2, <3>3
  <2>2. bunch_number' = N'
    BY <1>7, <1>10 DEF Writer
  <2>3. Len(buffer') = Len(objects') - Saved' /\ \A i \in 1 .. Len(buffer') : buffer'[i] = objects'[Saved' + i]
    BY <1>7, <2>1 DEF Gives
  <2>4. fp' >= End' /\ bunch_number' > MaxBunch /\ buffer' # << >>
    BY <1>1, <1>6, <1>7, <2>1
  <2>5. Len(file') = fp' /\ state' # "closed"
    BY <1>7, <1>9
  <2>6. QED
    BY <2>1, <2>2, <2>3, <2>4, <2>5 DEF Writer
<1>16. Bytes'
  <2>1. PICK L \in Nat : L = Len(file') /\ L = F + s + l
    BY <1>9
  <2>2. \A p \in 1 .. L : p \in Nat /\ (p \in 1 .. F \/ (p > F /\ p - F \in 1 .. s)
                                        \/ (p > F /\ p - (F + s) \in 1 .. l))
    BY <2>1
  <2>3. ASSUME NEW p \in 1 .. L
        PROVE  /\ \A k \in 1 .. N : PlaceGood(file', p, k)
               /\ "bunchoff" \in DOMAIN file'[p][1] =>
                    \E k \in 1 .. N : TrailerAt(k)' < p /\ p <= flushes'[k].end
    <3>1. CASE p \in 1 .. F
      <4>1. \A k \in 1 .. N : PlaceGood(file', p, k)
        <5>1. Len(file) <= Len(file')
          BY <1>6, <2>1
        <5>2. QED
          BY <1>6, <1>8, <1>9, <1>10, <3>1, <5>1, BytesStay
      <4>2. ASSUME "bunchoff" \in DOMAIN file'[p][1]
            PROVE  \E k \in 1 .. N : TrailerAt(k)' < p /\ p <= flushes'[k].end
        <5>1. PICK k \in 1 .. N : TrailerAt(k) < p /\ p <= flushes[k].end
          BY <1>6, <1>9, <3>1, <4>2 DEF Bytes
        <5>2. SameBunch(k)
          BY <1>10, GrowsFacts
        <5>3. QED
          BY <5>1, <5>2 DEF SameBunch
      <4>3. QED
        BY <4>1, <4>2
    <3>2. ASSUME p > F PROVE \A k \in 1 .. N : PlaceGood(file', p, k)
      <4>1. p > End /\ p \in Nat
        BY <1>6, <2>2, <3>2
      <4>2. QED
        BY <1>10, <4>1, BehindBunches
    <3>3. CASE p > F /\ p - F \in 1 .. s
      <4>1. PICK i \in 1 .. s : p = F + i
        BY <3>3
      <4>2. "bunchoff" \notin DOMAIN stored[i][1]
        BY <1>3, <1>5 DEF BodyHas
      <4>3. QED
        BY <1>9, <3>2, <3>3, <4>1, <4>2
    <3>4. CASE p > F /\ p - (F + s) \in 1 .. l
      <4>1. PICK i \in 1 .. l : p = F + s + i
        <5>1. p \in Nat
          BY <2>2
        <5>2. p = F + s + (p - (F + s))
          BY <5>1
        <5>3. QED
          BY <3>4, <5>2
      <4>2. "bunchoff" \notin DOMAIN x[i][1]
        BY <1>3, <1>5 DEF BodyHas
      <4>3. QED
        BY <1>9, <3>2, <3>4, <4>1, <4>2
    <3>5. QED
      BY <2>2, <3>1, <3>3, <3>4
  <2>4. QED
    BY <1>10, <2>1, <2>3 DEF Bytes, PlaceGood
<1>17. Reader'
  <2>1. \A k \in 1 .. N' : ~ k > N
    BY <1>10
  <2>2. QED
    BY <1>10, <2>1, ReaderStays
<1>18. QED
  BY <1>13, <1>14, <1>15, <1>16, <1>17

------------------------------------------------------------------------------
(* The invariant *)

\* In the beginning there is a header.
LEMMA InitOInv == Init => OInv
<1> SUFFICES ASSUME Init PROVE OInv
  OBVIOUS
<1> USE DEF Init
<1>1. HeaderSize \in Nat
  BY HeaderAssumption
<1>2. /\ file \in Seq(Content \X Nat) /\ Len(file) = HeaderSize
      /\ \A p \in 1 .. HeaderSize : "bunchoff" \notin DOMAIN file[p][1]
  <2>1. PICK v \in Content : v = [header |-> TRUE] /\ "bunchoff" \notin DOMAIN v
    BY NoTrailers
  <2>2. file = Cells(v, HeaderSize)
    BY <2>1 DEF Header
  <2>3. /\ file \in Seq(Content \X Nat) /\ Len(file) = HeaderSize
        /\ \A p \in 1 .. HeaderSize : file[p] = <<v, p>>
    BY <1>1, <2>2, CellsFacts
  <2>4. \A p : <<v, p>>[1] = v
    OBVIOUS
  <2>5. QED
    BY <2>1, <2>3, <2>4
<1>3. N = 0 /\ End = HeaderSize /\ Saved = 0
  BY DEF N, End, Saved
<1>4. TypeOK
  <2>1. << >> \in Seq(Objects) /\ << >> \in Seq(Entry) /\ << >> \in Seq(ObjectByte)
        /\ << >> \in Seq(Seq(ObjectByte)) /\ << >> \in Seq([end : Nat, count : Nat])
    OBVIOUS
  <2>2. seen \in 0 .. Len(file)
    BY <1>1, <1>2
  <2>3. got \in [ind : Int, bytes : Seq(ObjectByte)]
    BY <2>1
  <2>4. QED
    BY <1>1, <1>2, <2>1, <2>2, <2>3 DEF TypeOK
<1>5. \A k \in 1 .. N : FALSE
  BY <1>3
<1>6. Layout
  BY <1>5 DEF Layout
<1>7. Writer
  <2>1. Len(buffer) = 0 /\ Len(objects) = 0
    OBVIOUS
  <2>2. QED
    BY <1>1, <1>2, <1>3, <2>1 DEF Writer
<1>8. Bytes
  BY <1>2, <1>5 DEF Bytes
<1>9. Reader
  <2>1. Len(stream) = 0 /\ Len(index) = 0 /\ got.ind = -1
    OBVIOUS
  <2>2. QED
    BY <2>1 DEF Reader
<1>10. QED
  BY <1>4, <1>6, <1>7, <1>8, <1>9 DEF OInv

\* What write was given and what it has collected, when it adds an object.
LEMMA GivenFacts ==
  ASSUME OInv, NEW o \in Objects, Given(o)
  PROVE  /\ Append(buffer, o) \in Seq(Objects) /\ Append(buffer, o) # << >>
         /\ Gives(Append(buffer, o))
<1>1. buffer \in Seq(Objects) /\ objects \in Seq(Objects) /\ objects' = Append(objects, o)
  BY DEF OInv, TypeOK, Given
<1>2. PICK b \in Nat, l \in Nat : b = Len(buffer) /\ l = Len(objects)
  BY <1>1, LenProperties
<1>3. Saved \in Nat /\ b = l - Saved /\ \A i \in 1 .. b : buffer[i] = objects[Saved + i]
  BY <1>2, EndFacts DEF OInv, Writer
<1>4. /\ objects' \in Seq(Objects) /\ Len(objects') = l + 1
      /\ objects'[l + 1] = o /\ \A i \in 1 .. l : objects'[i] = objects[i]
  BY <1>1, <1>2, AppendProperties
<1>5. PICK a \in Seq(Objects) : /\ a = Append(buffer, o) /\ Len(a) = b + 1
                                /\ a[b + 1] = o /\ \A i \in 1 .. b : a[i] = buffer[i]
  <2>1. PICK a \in Seq(Objects) : a = Append(buffer, o)
    BY <1>1, AppendProperties
  <2>2. Len(a) = b + 1 /\ a[b + 1] = o /\ \A i \in 1 .. b : a[i] = buffer[i]
    BY <1>1, <1>2, <2>1, AppendProperties
  <2>3. QED
    BY <2>1, <2>2
<1>6. a # << >>
  <2>1. Len(a) # 0
    BY <1>5
  <2>2. QED
    BY <2>1, EmptySeq
<1>7. \A i \in 1 .. Len(a) : a[i] = objects'[Saved + i]
  <2>1. ASSUME NEW i \in 1 .. b + 1 PROVE a[i] = objects'[Saved + i]
    <3>1. CASE i \in 1 .. b
      <4>1. Saved + i \in 1 .. l
        BY <1>3, <3>1
      <4>2. QED
        BY <1>3, <1>4, <1>5, <3>1, <4>1
    <3>2. CASE i = b + 1
      <4>1. Saved + i = l + 1
        BY <1>3, <3>2
      <4>2. QED
        BY <1>4, <1>5, <3>2, <4>1
    <3>3. QED
      BY <3>1, <3>2
  <2>2. QED
    BY <1>5, <2>1
<1>8. Len(a) = Len(objects') - Saved /\ Len(objects) <= Len(objects')
  BY <1>2, <1>3, <1>4, <1>5
<1>9. Gives(a)
  BY <1>2, <1>4, <1>7, <1>8 DEF Gives
<1>10. QED
  BY <1>5, <1>6, <1>9

\* The steps that change neither file nor bunches.
LEMMA QuietKeeps ==
  ASSUME OInv, Grows, UNCHANGED <<file, flushes>>
  PROVE  /\ N' = N /\ End' = End /\ Saved' = Saved
         /\ (last_bunch_fp' = last_bunch_fp =>
               (last_bunch_fp = (IF N = 0 THEN 0 ELSE TrailerAt(N)))')
         /\ Layout' /\ Bytes'
         /\ UNCHANGED readerVars => Reader'
<1> USE DEF OInv
<1>1. N' = N /\ N \in Nat
  BY EndFacts DEF N
<1>2. End' = End /\ Saved' = Saved
  BY <1>1 DEF End, Saved
<1>3. \A k \in 1 .. N : SameBunch(k) /\ \A i : DataByte(k, i)' = DataByte(k, i)
  BY GrowsFacts
<1>4. Layout'
  <2>1. ASSUME NEW k \in 1 .. N
        PROVE  /\ Before(k)' < flushes'[k].count
               /\ flushes'[k].count <= Len(objects')
               /\ StartOf(k)' <= DataEnd(k)'
               /\ compress' => StartOf(k)' < DataEnd(k)'
               /\ ~ compress' => DataEnd(k)' - StartOf(k)' = Len(Raw(ObjectsOf(k)'))
    <3>1. SameBunch(k) /\ compress' = compress
      BY <1>3 DEF Grows
    <3>2. /\ Before(k) < flushes[k].count
          /\ flushes[k].count <= Len(objects)
          /\ StartOf(k) <= DataEnd(k)
          /\ compress => StartOf(k) < DataEnd(k)
          /\ ~ compress => DataEnd(k) - StartOf(k) = Len(Raw(ObjectsOf(k)))
      BY DEF Layout
    <3>3. flushes[k].count <= Len(objects')
      <4>1. flushes[k].count \in Nat /\ Len(objects) \in Nat
        BY BunchNumbers
      <4>2. Len(objects) <= Len(objects') /\ Len(objects') \in Nat
        <5>1. objects' \in Seq(Objects) /\ Len(objects) <= Len(objects')
          BY DEF Grows
        <5>2. QED
          BY <5>1, LenProperties
      <4>3. QED
        BY <3>2, <4>1, <4>2
    <3>4. QED
      BY <3>1, <3>2, <3>3 DEF SameBunch
  <2>2. \A j, k \in 1 .. N :
          j < k => flushes'[j].end < flushes'[k].end /\ flushes'[j].count < flushes'[k].count
    BY DEF Layout
  <2>3. QED
    BY <1>1, <2>1, <2>2 DEF Layout
<1>5. Bytes'
  <2>1. file \in Seq(Content \X Nat) /\ file' = file
    BY DEF TypeOK
  <2>2. Len(file) <= Len(file)
    <3>1. Len(file) \in Nat
      BY <2>1, LenProperties
    <3>2. QED
      BY <3>1
  <2>3. ASSUME NEW p \in 1 .. Len(file), NEW k \in 1 .. N
        PROVE  PlaceGood(file, p, k)
    BY <2>1, <2>2, BytesStay
  <2>4. ASSUME NEW p \in 1 .. Len(file), "bunchoff" \in DOMAIN file[p][1]
        PROVE  \E k \in 1 .. N : TrailerAt(k)' < p /\ p <= flushes'[k].end
    <3>1. PICK k \in 1 .. N : TrailerAt(k) < p /\ p <= flushes[k].end
      BY <2>4 DEF Bytes
    <3>2. QED
      BY <1>3, <3>1 DEF SameBunch
  <2>5. QED
    BY <1>1, <2>1, <2>3, <2>4 DEF Bytes, PlaceGood
<1>6. ASSUME UNCHANGED readerVars PROVE Reader'
  <2>1. \A k \in 1 .. N' : ~ k > N
    BY <1>1
  <2>2. QED
    BY <1>6, <2>1, ReaderStays
<1>7. ASSUME last_bunch_fp' = last_bunch_fp
      PROVE  (last_bunch_fp = (IF N = 0 THEN 0 ELSE TrailerAt(N)))'
  <2>1. TrailerAt(N)' = TrailerAt(N)
    BY <1>1 DEF TrailerAt
  <2>2. last_bunch_fp = IF N = 0 THEN 0 ELSE TrailerAt(N)
    BY DEF Writer
  <2>3. QED
    BY <1>1, <1>7, <2>1, <2>2
<1>8. QED
  BY <1>1, <1>2, <1>4, <1>5, <1>6, <1>7

\* Each step of the writer keeps the invariant.
LEMMA WriteKeeps ==
  ASSUME OInv, NEW o \in Objects, Write(o)
  PROVE  OInv'
<1> USE DEF OInv
<1>1. /\ state' = state /\ state = "open" /\ compress' = compress /\ UNCHANGED readerVars
      /\ objects' = Append(objects, o) /\ buffer' = Append(buffer, o)
      /\ cbunchoffset' = cbunchoffset + Size[o]
      /\ UNCHANGED <<fp, last_bunch_fp, bunch_number, file, flushes>>
  BY DEF Write, Given
<1>2. /\ buffer' \in Seq(Objects) /\ buffer' # << >> /\ Gives(buffer')
  BY <1>1, GivenFacts DEF Write
<1>3. Grows
  <2>1. N' = N /\ N \in Nat
    BY <1>1, EndFacts DEF N
  <2>2. QED
    BY <1>1, <1>2, <2>1 DEF Grows, Gives, TypeOK
<1>4. /\ N' = N /\ End' = End /\ Saved' = Saved
      /\ (last_bunch_fp = (IF N = 0 THEN 0 ELSE TrailerAt(N)))'
      /\ Layout' /\ Bytes' /\ Reader'
  BY <1>1, <1>3, QuietKeeps
<1>5. TypeOK'
  <2>1. cbunchoffset' \in Nat
    BY <1>1, SizeAssumption DEF TypeOK
  <2>2. QED
    BY <1>1, <1>2, <1>3, <2>1 DEF TypeOK, Grows, readerVars
<1>6. Writer'
  <2>1. fp' >= End' /\ (fp' > End' => bunch_number' > MaxBunch)
    BY <1>1, <1>4 DEF Writer
  <2>2. Len(buffer') = Len(objects') - Saved' /\ \A i \in 1 .. Len(buffer') : buffer'[i] = objects'[Saved' + i]
    BY <1>2, <1>4 DEF Gives
  <2>3. bunch_number' = N' /\ Len(file') = fp' /\ state' # "closed"
    BY <1>1, <1>4 DEF Writer
  <2>4. QED
    BY <1>2, <1>4, <2>1, <2>2, <2>3 DEF Writer
<1>7. QED
  BY <1>4, <1>5, <1>6

\* What is collected is what a flush by close writes.
LEMMA BufferGiven ==
  ASSUME OInv, UNCHANGED objects
  PROVE  buffer \in Seq(Objects) /\ Gives(buffer)
<1>1. buffer \in Seq(Objects) /\ objects \in Seq(Objects) /\ Len(objects) \in Nat
  BY LenProperties DEF OInv, TypeOK
<1>2. Len(buffer) = Len(objects) - Saved /\ \A i \in 1 .. Len(buffer) : buffer[i] = objects[Saved + i]
  BY DEF OInv, Writer
<1>3. QED
  BY <1>1, <1>2 DEF Gives

\* Closing keeps the invariant, with a bunch to flush or with none.
LEMMA CloseKeeps ==
  ASSUME OInv, Close
  PROVE  OInv'
<1>1. /\ state = "open" /\ state' = "closed" /\ compress' = compress /\ objects' = objects
      /\ UNCHANGED readerVars
  BY DEF Close
<1>2. CASE buffer # << >> /\ Flush(buffer)
  <2>1. buffer \in Seq(Objects) /\ Gives(buffer)
    BY <1>1, BufferGiven
  <2>2. state' \in {"open", "closed"} /\ UNCHANGED <<compress, readerVars>>
    BY <1>1
  <2>3. QED
    BY <1>1, <1>2, <2>1, <2>2, FlushKeeps
<1>3. CASE /\ buffer = << >>
           /\ UNCHANGED <<buffer, cbunchoffset, fp, last_bunch_fp, bunch_number, file, flushes>>
  <2> USE DEF OInv
  <2>1. Grows
    <3>1. N' = N /\ N \in Nat
      BY <1>3, EndFacts DEF N
    <3>2. Len(objects) \in Nat
      BY EndFacts
    <3>3. QED
      BY <1>1, <1>3, <3>1, <3>2 DEF Grows, TypeOK
  <2>2. /\ N' = N /\ End' = End /\ Saved' = Saved
        /\ (last_bunch_fp = (IF N = 0 THEN 0 ELSE TrailerAt(N)))'
        /\ Layout' /\ Bytes' /\ Reader'
    BY <1>1, <1>3, <2>1, QuietKeeps
  <2>3. TypeOK'
    BY <1>1, <1>3 DEF TypeOK, readerVars
  <2>4. Writer'
    BY <1>1, <1>3, <2>2 DEF Writer
  <2>5. QED
    BY <2>2, <2>3, <2>4
<1>4. QED
  BY <1>2, <1>3 DEF Close

\* What is left of the file of a killed writer is a first part of it.
LEMMA KilledKeeps ==
  ASSUME OInv, Killed
  PROVE  OInv'
<1> USE DEF OInv
<1>1. PICK n \in seen .. Len(file) :
        /\ file' = SubSeq(file, 1, n) /\ state' = "killed"
        /\ UNCHANGED <<compress, buffer, cbunchoffset, fp, last_bunch_fp, bunch_number, objects,
                       flushes, readerVars>>
  BY DEF Killed
<1>2. file \in Seq(Content \X Nat) /\ Len(file) \in Nat /\ seen \in 0 .. Len(file)
  BY LenProperties DEF TypeOK
<1>3. n \in 0 .. Len(file)
  BY <1>1, <1>2
<1>4. /\ file' \in Seq(Content \X Nat) /\ Len(file') = n
      /\ \A p \in 1 .. n : file'[p] = file[p] /\ p \in 1 .. Len(file)
  BY <1>1, <1>2, <1>3, PrefixFacts
<1>5. /\ opened' = opened /\ seen' = seen /\ index' = index /\ current_index' = current_index
      /\ got' = got /\ stream' = stream
      /\ compress' = compress /\ buffer' = buffer /\ cbunchoffset' = cbunchoffset /\ fp' = fp
      /\ last_bunch_fp' = last_bunch_fp /\ bunch_number' = bunch_number /\ objects' = objects
      /\ flushes' = flushes
  BY <1>1 DEF readerVars
<1>6. N' = N /\ N \in Nat /\ Len(objects) \in Nat
  BY <1>5, EndFacts DEF N
<1>7. Grows
  BY <1>5, <1>6 DEF Grows, TypeOK
<1>8. TypeOK'
  <2>1. seen' \in 0 .. Len(file')
    BY <1>1, <1>2, <1>4, <1>5
  <2>2. QED
    BY <1>1, <1>4, <1>5, <2>1 DEF TypeOK
<1>9. \A k \in 1 .. N : SameBunch(k) /\ \A i : DataByte(k, i)' = DataByte(k, i)
  BY <1>7, GrowsFacts
<1>10. Layout'
  <2>1. ASSUME NEW k \in 1 .. N
        PROVE  /\ Before(k)' < flushes'[k].count
               /\ flushes'[k].count <= Len(objects')
               /\ StartOf(k)' <= DataEnd(k)'
               /\ compress' => StartOf(k)' < DataEnd(k)'
               /\ ~ compress' => DataEnd(k)' - StartOf(k)' = Len(Raw(ObjectsOf(k)'))
    BY <1>5, <1>9 DEF Layout, SameBunch
  <2>2. \A j, k \in 1 .. N :
          j < k => flushes'[j].end < flushes'[k].end /\ flushes'[j].count < flushes'[k].count
    BY <1>5 DEF Layout
  <2>3. QED
    BY <1>6, <2>1, <2>2 DEF Layout
<1>11. Writer'
  <2>1. End' = End /\ Saved' = Saved /\ TrailerAt(N)' = TrailerAt(N)
    BY <1>5, <1>6 DEF End, Saved, TrailerAt
  <2>2. QED
    BY <1>1, <1>5, <1>6, <2>1 DEF Writer
<1>12. Bytes'
  <2>1. ASSUME NEW p \in 1 .. n, NEW k \in 1 .. N
        PROVE  PlaceGood(file', p, k)
    <3>1. Len(file) <= Len(file) /\ p \in 1 .. Len(file)
      BY <1>2, <1>4
    <3>2. PlaceGood(file, p, k)
      BY <1>2, <1>7, <3>1, BytesStay
    <3>3. QED
      BY <1>4, <3>2 DEF PlaceGood
  <2>2. ASSUME NEW p \in 1 .. n, "bunchoff" \in DOMAIN file'[p][1]
        PROVE  \E k \in 1 .. N : TrailerAt(k)' < p /\ p <= flushes'[k].end
    <3>1. PICK k \in 1 .. N : TrailerAt(k) < p /\ p <= flushes[k].end
      BY <1>4, <2>2 DEF Bytes
    <3>2. QED
      BY <1>9, <3>1 DEF SameBunch
  <2>3. QED
    BY <1>4, <1>6, <2>1, <2>2 DEF Bytes, PlaceGood
<1>13. Reader'
  <2>1. \A k \in 1 .. N' : ~ k > N
    BY <1>6
  <2>2. UNCHANGED readerVars
    BY <1>1
  <2>3. QED
    BY <1>7, <2>1, <2>2, ReaderStays
<1>14. QED
  BY <1>8, <1>10, <1>11, <1>12, <1>13

\* The steps of the reader leave the writer's parts.
LEMMA ReadingKeeps ==
  ASSUME OInv, UNCHANGED writerVars
  PROVE  /\ Grows /\ N' = N /\ N \in Nat /\ Layout' /\ Writer' /\ Bytes'
         /\ objects' = objects /\ flushes' = flushes /\ file' = file
<1> USE DEF OInv
<1>1. /\ state' = state /\ compress' = compress /\ buffer' = buffer /\ cbunchoffset' = cbunchoffset
      /\ fp' = fp /\ last_bunch_fp' = last_bunch_fp /\ bunch_number' = bunch_number
      /\ file' = file /\ objects' = objects /\ flushes' = flushes
  BY DEF writerVars
<1>2. N' = N /\ N \in Nat /\ Len(objects) \in Nat
  BY <1>1, EndFacts DEF N
<1>3. Grows
  BY <1>1, <1>2 DEF Grows, TypeOK
<1>4. /\ End' = End /\ Saved' = Saved
      /\ (last_bunch_fp = (IF N = 0 THEN 0 ELSE TrailerAt(N)))'
      /\ Layout' /\ Bytes'
  BY <1>1, <1>3, QuietKeeps
<1>5. Writer'
  BY <1>1, <1>2, <1>4 DEF Writer
<1>6. QED
  BY <1>1, <1>2, <1>3, <1>4, <1>5

\* Opening: the index of what the scan found, or an exception.
LEMMA OpenKeeps ==
  ASSUME OInv, OpenReader
  PROVE  OInv'
<1> USE DEF OInv
<1>1. PICK n \in (IF state \in {"open", "failed"} THEN 0 .. Len(file) ELSE {Len(file)}) :
        LET f == SubSeq(file, 1, n)
            scan == Bunches(f, n - TrailerSize)
        IN  /\ seen' = n
            /\ IF n >= HeaderSize /\ ~ scan.torn
               THEN opened' = "open" /\ index' = IndexOf(scan.found)
               ELSE opened' = "raised" /\ index' = index
  BY DEF OpenReader
<1>2. /\ opened = "no" /\ UNCHANGED writerVars
      /\ current_index' = current_index /\ got' = got /\ stream' = stream
  BY DEF OpenReader
<1>3. Len(file) \in Nat /\ file \in Seq(Content \X Nat)
  BY LenProperties DEF TypeOK
<1>4. n \in 0 .. Len(file) /\ n \in Nat
  BY <1>1, <1>3
<1>5. PICK f, scan : f = SubSeq(file, 1, n) /\ scan = Bunches(f, n - TrailerSize)
  OBVIOUS
<1>6. /\ seen' = n
      /\ IF n >= HeaderSize /\ ~ scan.torn
         THEN opened' = "open" /\ index' = IndexOf(scan.found)
         ELSE opened' = "raised" /\ index' = index
  BY <1>1, <1>5
<1>7. /\ Grows /\ N' = N /\ N \in Nat /\ Layout' /\ Writer' /\ Bytes'
      /\ objects' = objects /\ flushes' = flushes /\ file' = file
  BY <1>2, ReadingKeeps
<1>8. /\ index = << >> /\ got.ind = -1 /\ stream = << >> /\ current_index = 0
  BY <1>2 DEF Reader
<1>9. CASE n >= HeaderSize /\ ~ scan.torn
  <2>1. ReaderGood(index', n)
    BY <1>4, <1>5, <1>6, <1>9, OpenedFacts
  <2>2. opened' = "open" /\ index' \in Seq(Entry)
    BY <1>6, <1>9, <2>1 DEF ReaderGood
  <2>3. TypeOK'
    <3>1. seen' \in 0 .. Len(file')
      BY <1>4, <1>6, <1>7
    <3>2. QED
      BY <1>2, <1>7, <2>2, <3>1 DEF TypeOK, writerVars
  <2>4. Len(index') = CountAt(seen)'
    <3>1. CountAt(n) = CountIn(flushes, n)
      BY <1>4, CountAtFacts
    <3>2. CountAt(seen)' = CountIn(flushes, n)
      BY <1>6, <1>7 DEF CountAt, CountIn
    <3>3. QED
      BY <2>1, <3>1, <3>2 DEF ReaderGood
  <2>5. \A m \in 1 .. Len(index') :
          \E k \in 1 .. N : flushes[k].end <= n /\ IsEntry(index'[m], m, k)
    BY <2>1 DEF ReaderGood
  <2>6. \A m \in 1 .. Len(index') :
          \E k \in 1 .. N' : flushes'[k].end <= seen' /\ IsEntry(index[m], m, k)'
    <3>1. ASSUME NEW m \in 1 .. Len(index')
          PROVE  \E k \in 1 .. N' : flushes'[k].end <= seen' /\ IsEntry(index[m], m, k)'
      <4>1. PICK k \in 1 .. N : flushes[k].end <= n /\ IsEntry(index'[m], m, k)
        BY <2>5
      <4>2. SameBunch(k)
        BY <1>7, GrowsFacts
      <4>3. IsEntry(index[m], m, k)'
        BY <1>7, <4>1, <4>2 DEF IsEntry, SameBunch
      <4>4. QED
        BY <1>6, <1>7, <4>1, <4>3
    <3>2. QED
      BY <3>1
  <2>7. Len(stream') = 0 /\ (Len(stream) = (IF current_index < Len(index) THEN current_index ELSE Len(index)))'
    <3>1. Len(index') \in Nat
      BY <2>2, LenProperties
    <3>2. Len(stream') = 0 /\ current_index' = 0
      BY <1>2, <1>8
    <3>3. QED
      BY <3>1, <3>2
  <2>8. Reader'
    BY <1>2, <1>8, <2>2, <2>4, <2>6, <2>7 DEF Reader
  <2>9. QED
    BY <1>7, <2>3, <2>8
<1>10. CASE ~ (n >= HeaderSize /\ ~ scan.torn)
  <2>1. opened' = "raised" /\ index' = index
    BY <1>6, <1>10
  <2>2. TypeOK'
    <3>1. seen' \in 0 .. Len(file')
      BY <1>4, <1>6, <1>7
    <3>2. QED
      BY <1>2, <1>7, <2>1, <3>1 DEF TypeOK, writerVars
  <2>3. n # HeaderSize /\ \A k \in 1 .. N : n # flushes[k].end
    <3>1. CASE n >= HeaderSize
      BY <1>4, <1>5, <1>10, <3>1, OpenedFacts
    <3>2. CASE ~ n >= HeaderSize
      <4>1. HeaderSize \in Nat
        BY HeaderAssumption
      <4>2. \A k \in 1 .. N : HeaderSize <= flushes[k].end
        <5>1. ASSUME NEW k \in 1 .. N PROVE HeaderSize <= flushes[k].end
          <6>1. /\ HeaderSize <= StartOf(k) /\ StartOf(k) <= DataEnd(k)
                /\ DataEnd(k) < TrailerAt(k) /\ flushes[k].end = TrailerAt(k) + TrailerSize
                /\ StartOf(k) \in Nat /\ DataEnd(k) \in Nat /\ TrailerAt(k) \in Nat
                /\ TrailerSize \in Nat
            BY BunchNumbers, HeaderAssumption
          <6>2. QED
            BY <4>1, <6>1
        <5>2. QED
          BY <5>1
      <4>3. QED
        BY <1>4, <3>2, <4>1, <4>2
    <3>3. QED
      BY <3>1, <3>2
  <2>4. Reader'
    BY <1>2, <1>6, <1>7, <1>8, <2>1, <2>3 DEF Reader
  <2>5. QED
    BY <1>7, <2>2, <2>4
<1>11. QED
  BY <1>9, <1>10

\* What a reader returns for an index that it has.
LEMMA ReadGives ==
  ASSUME OInv, opened = "open", NEW ind \in Nat, ind < Len(index)
  PROVE  /\ ObjectAt(index[ind + 1]) = ObjectBytes(objects[ind + 1])
         /\ ObjectBytes(objects[ind + 1]) \in Seq(ObjectByte)
<1> USE DEF OInv
<1>1. index \in Seq(Entry) /\ Len(index) \in Nat /\ Len(file) \in Nat
  BY LenProperties DEF TypeOK
<1>2. PICK m \in 1 .. Len(index) : m = ind + 1
  BY <1>1
<1>3. PICK k \in 1 .. N : flushes[k].end <= seen /\ IsEntry(index[m], m, k)
  BY DEF Reader
<1>4. flushes[k].end <= Len(file)
  <2>1. seen \in 0 .. Len(file) /\ flushes[k].end \in Nat
    BY BunchNumbers DEF TypeOK
  <2>2. QED
    BY <1>1, <1>3, <2>1
<1>5. m \in Nat
  BY <1>1
<1>6. objects[m] \in Objects /\ ObjectAt(index[m]) = ObjectBytes(objects[m])
  BY <1>3, <1>4, <1>5, ObjectRead
<1>7. QED
  BY <1>2, <1>6, ObjectBytesFacts

\* A reader that only reads keeps what it has opened.
OldReader ==
  /\ (opened = "open" =>
        /\ Len(index) = CountAt(seen)
        /\ \A m \in 1 .. Len(index) :
             \E k \in 1 .. N : flushes[k].end <= seen /\ IsEntry(index[m], m, k))'
  /\ (opened = "raised" => seen # HeaderSize /\ \A k \in 1 .. N : seen # flushes[k].end)'

\* It does, as the writer's part is left alone.
LEMMA StaysOld ==
  ASSUME OInv, UNCHANGED <<writerVars, opened, seen, index>>
  PROVE  OldReader
<1> USE DEF OInv
<1>1. opened' = opened /\ seen' = seen /\ index' = index
  OBVIOUS
<1>2. UNCHANGED writerVars
  OBVIOUS
<1>3. /\ Grows /\ N' = N /\ flushes' = flushes /\ objects' = objects
      /\ CountAt(seen)' = CountAt(seen)
  <2>1. Grows /\ N' = N /\ flushes' = flushes /\ objects' = objects
    BY <1>2, ReadingKeeps
  <2>2. CountAt(seen)' = CountAt(seen)
    BY <1>1, <2>1 DEF CountAt
  <2>3. QED
    BY <2>1, <2>2
<1>4. ASSUME opened = "open", NEW m \in 1 .. Len(index)
      PROVE  \E k \in 1 .. N : flushes[k].end <= seen /\ IsEntry(index[m], m, k)'
  <2>1. PICK k \in 1 .. N : flushes[k].end <= seen /\ IsEntry(index[m], m, k)
    BY <1>4 DEF Reader
  <2>2. SameBunch(k)
    BY <1>3, GrowsFacts
  <2>3. IsEntry(index[m], m, k)'
    BY <1>1, <1>3, <2>1, <2>2 DEF IsEntry, SameBunch
  <2>4. QED
    BY <2>1, <2>3
<1>5. opened = "open" => Len(index) = CountAt(seen)
  BY DEF Reader
<1>6. opened = "raised" => seen # HeaderSize /\ \A k \in 1 .. N : seen # flushes[k].end
  BY DEF Reader
<1>7. QED
  BY <1>1, <1>3, <1>4, <1>5, <1>6 DEF OldReader

\* read_at returns the object of its index and moves nothing.
LEMMA ReadAtKeeps ==
  ASSUME OInv, NEW ind \in Nat, ReadAt(ind)
  PROVE  OInv'
<1> USE DEF OInv
<1>1. /\ opened = "open" /\ ind < Len(index)
      /\ got' = [ind |-> ind, bytes |-> ObjectAt(index[ind + 1])]
      /\ opened' = opened /\ seen' = seen /\ index' = index /\ current_index' = current_index
      /\ stream' = stream /\ UNCHANGED writerVars
  BY DEF ReadAt
<1>2. /\ ObjectAt(index[ind + 1]) = ObjectBytes(objects[ind + 1])
      /\ ObjectBytes(objects[ind + 1]) \in Seq(ObjectByte)
  BY <1>1, ReadGives
<1>3. /\ Grows /\ N' = N /\ N \in Nat /\ Layout' /\ Writer' /\ Bytes'
      /\ objects' = objects /\ flushes' = flushes /\ file' = file
  BY <1>1, ReadingKeeps
<1>4. TypeOK'
  <2>1. got' \in [ind : Int, bytes : Seq(ObjectByte)]
    BY <1>1, <1>2
  <2>2. QED
    BY <1>1, <2>1 DEF TypeOK, writerVars
<1>5. OldReader
  BY <1>1, StaysOld
<1>6. Reader'
  <2>1. got'.ind = ind /\ got'.bytes = ObjectBytes(objects'[ind + 1])
    BY <1>1, <1>2, <1>3
  <2>2. /\ Len(stream) = (IF current_index < Len(index) THEN current_index ELSE Len(index))
        /\ \A i \in 1 .. Len(stream) : stream[i] = ObjectBytes(objects[i])
    BY DEF Reader
  <2>3. got'.ind >= 0 => got'.ind < Len(index') /\ got'.bytes = ObjectBytes(objects'[got'.ind + 1])
    BY <1>1, <2>1
  <2>4. /\ Len(stream') = (IF current_index' < Len(index') THEN current_index' ELSE Len(index'))
        /\ \A i \in 1 .. Len(stream') : stream'[i] = ObjectBytes(objects'[i])
    BY <1>1, <1>3, <2>2
  <2>5. QED
    BY <1>1, <1>5, <2>3, <2>4 DEF Reader, OldReader
<1>7. QED
  BY <1>3, <1>4, <1>6

\* read returns the next object, and moves on also where it raises IndexError.
LEMMA ReadKeeps ==
  ASSUME OInv, Read
  PROVE  OInv'
<1> USE DEF OInv
<1>1. /\ opened = "open" /\ current_index' = current_index + 1
      /\ opened' = opened /\ seen' = seen /\ index' = index /\ UNCHANGED writerVars
  BY DEF Read
<1>2. /\ Grows /\ N' = N /\ N \in Nat /\ Layout' /\ Writer' /\ Bytes'
      /\ objects' = objects /\ flushes' = flushes /\ file' = file
  BY <1>1, ReadingKeeps
<1>3. OldReader
  BY <1>1, StaysOld
<1>4. current_index \in Nat /\ index \in Seq(Entry) /\ Len(index) \in Nat
  BY LenProperties DEF TypeOK
<1>5. /\ Len(stream) = (IF current_index < Len(index) THEN current_index ELSE Len(index))
      /\ \A i \in 1 .. Len(stream) : stream[i] = ObjectBytes(objects[i])
      /\ got.ind >= 0 => got.ind < Len(index) /\ got.bytes = ObjectBytes(objects[got.ind + 1])
  BY DEF Reader
<1>6. CASE /\ current_index < Len(index)
           /\ got' = [ind |-> current_index, bytes |-> ObjectAt(index[current_index + 1])]
           /\ stream' = Append(stream, ObjectAt(index[current_index + 1]))
  <2>1. PICK o \in Seq(ObjectByte) : /\ o = ObjectAt(index[current_index + 1])
                                     /\ o = ObjectBytes(objects[current_index + 1])
    BY <1>1, <1>4, <1>6, ReadGives
  <2>2. stream \in Seq(Seq(ObjectByte)) /\ Len(stream) = current_index
    BY <1>5, <1>6 DEF TypeOK
  <2>3. /\ stream' \in Seq(Seq(ObjectByte)) /\ Len(stream') = current_index + 1
        /\ stream'[current_index + 1] = o
        /\ \A i \in 1 .. current_index : stream'[i] = stream[i]
    <3>1. stream' = Append(stream, o)
      BY <1>6, <2>1
    <3>2. QED
      BY <2>2, <3>1, AppendProperties
  <2>4. TypeOK'
    <3>1. got' \in [ind : Int, bytes : Seq(ObjectByte)] /\ current_index' \in Nat
      BY <1>1, <1>4, <1>6, <2>1
    <3>2. QED
      BY <1>1, <2>3, <3>1 DEF TypeOK, writerVars
  <2>5. \A i \in 1 .. current_index + 1 : stream'[i] = ObjectBytes(objects'[i])
    <3>1. \A i \in 1 .. current_index + 1 : i \in 1 .. current_index \/ i = current_index + 1
      BY <1>4
    <3>2. QED
      BY <1>2, <1>5, <2>1, <2>2, <2>3, <3>1
  <2>6. Len(stream') = IF current_index' < Len(index') THEN current_index' ELSE Len(index')
    BY <1>1, <1>4, <1>6, <2>3
  <2>7. got'.ind = current_index /\ got'.bytes = ObjectBytes(objects'[current_index + 1])
    BY <1>2, <1>6, <2>1
  <2>8. Reader'
    BY <1>1, <1>3, <1>6, <2>3, <2>5, <2>6, <2>7 DEF Reader, OldReader
  <2>9. QED
    BY <1>2, <2>4, <2>8
<1>7. CASE current_index >= Len(index) /\ got' = got /\ stream' = stream
  <2>1. TypeOK'
    BY <1>1, <1>4, <1>7 DEF TypeOK, writerVars
  <2>2. Len(stream') = IF current_index' < Len(index') THEN current_index' ELSE Len(index')
    BY <1>1, <1>4, <1>5, <1>7
  <2>3. Reader'
    BY <1>1, <1>2, <1>3, <1>5, <1>7, <2>2 DEF Reader, OldReader
  <2>4. QED
    BY <1>2, <2>1, <2>3
<1>8. QED
  BY <1>6, <1>7 DEF Read

\* resetfp starts the stream over.
LEMMA ResetKeeps ==
  ASSUME OInv, ResetFp
  PROVE  OInv'
<1> USE DEF OInv
<1>1. /\ opened = "open" /\ current_index' = 0 /\ stream' = << >> /\ got' = got
      /\ opened' = opened /\ seen' = seen /\ index' = index /\ UNCHANGED writerVars
  BY DEF ResetFp
<1>2. /\ Grows /\ N' = N /\ N \in Nat /\ Layout' /\ Writer' /\ Bytes'
      /\ objects' = objects /\ flushes' = flushes /\ file' = file
  BY <1>1, ReadingKeeps
<1>3. OldReader
  BY <1>1, StaysOld
<1>4. Len(index) \in Nat
  BY LenProperties DEF TypeOK
<1>5. Len(stream') = 0 /\ stream' \in Seq(Seq(ObjectByte))
  BY <1>1
<1>6. TypeOK'
  BY <1>1, <1>5 DEF TypeOK, writerVars
<1>7. Len(stream') = IF current_index' < Len(index') THEN current_index' ELSE Len(index')
  BY <1>1, <1>4, <1>5
<1>8. got.ind >= 0 => got.ind < Len(index) /\ got.bytes = ObjectBytes(objects[got.ind + 1])
  BY DEF Reader
<1>9. Reader'
  BY <1>1, <1>2, <1>3, <1>5, <1>7, <1>8 DEF Reader, OldReader
<1>10. QED
  BY <1>2, <1>6, <1>9

\* The invariant is inductive: every step of the writer and of the reader keeps it.
LEMMA StepOInv == OInv /\ [Next]_vars => OInv'
<1> SUFFICES ASSUME OInv, [Next]_vars PROVE OInv'
  OBVIOUS
<1>1. ASSUME NEW o \in Objects, Write(o) PROVE OInv'
  BY <1>1, WriteKeeps
<1>2. ASSUME NEW o \in Objects, WriteFlushes(o) PROVE OInv'
  <2>1. Given(o) /\ Flush(Append(buffer, o))
    BY <1>2 DEF WriteFlushes
  <2>2. /\ Append(buffer, o) \in Seq(Objects) /\ Append(buffer, o) # << >>
        /\ Gives(Append(buffer, o))
    BY <2>1, GivenFacts
  <2>3. state = "open" /\ state' \in {"open", "closed"} /\ UNCHANGED <<compress, readerVars>>
    BY <2>1 DEF Given
  <2>4. PICK objs \in Seq(Objects) : objs = Append(buffer, o)
    BY <2>2
  <2>5. QED
    BY <2>1, <2>2, <2>3, <2>4, FlushKeeps
<1>3. ASSUME NEW o \in Objects, WriteRaises(o) PROVE OInv'
  <2>1. Given(o) /\ FlushRaises(Append(buffer, o)) /\ cbunchoffset' = cbunchoffset + Size[o]
    BY <1>3 DEF WriteRaises
  <2>2. /\ Append(buffer, o) \in Seq(Objects) /\ Append(buffer, o) # << >>
        /\ Gives(Append(buffer, o))
    BY <2>1, GivenFacts
  <2>3. state = "open" /\ state' \in {"open", "failed"} /\ UNCHANGED <<compress, readerVars>>
    BY <2>1 DEF Given
  <2>4. cbunchoffset' \in Nat
    BY <2>1, SizeAssumption DEF OInv, TypeOK
  <2>5. PICK objs \in Seq(Objects) : objs = Append(buffer, o)
    BY <2>2
  <2>6. QED
    BY <2>1, <2>2, <2>3, <2>4, <2>5, RaiseKeeps
<1>4. ASSUME Close PROVE OInv'
  BY <1>4, CloseKeeps
<1>5. ASSUME CloseRaises PROVE OInv'
  <2>1. /\ state = "open" /\ state' \in {"open", "failed"} /\ UNCHANGED <<compress, readerVars>>
        /\ buffer # << >> /\ FlushRaises(buffer) /\ UNCHANGED <<cbunchoffset, objects>>
    BY <1>5 DEF CloseRaises
  <2>2. buffer \in Seq(Objects) /\ Gives(buffer)
    BY <2>1, BufferGiven
  <2>3. cbunchoffset' \in Nat
    BY <2>1 DEF OInv, TypeOK
  <2>4. QED
    BY <2>1, <2>2, <2>3, RaiseKeeps
<1>6. ASSUME Killed PROVE OInv'
  BY <1>6, KilledKeeps
<1>7. ASSUME OpenReader PROVE OInv'
  BY <1>7, OpenKeeps
<1>8. ASSUME NEW ind \in 0 .. MaxObjects - 1, ReadAt(ind) PROVE OInv'
  <2>1. ind \in Nat
    BY BoundsAssumption
  <2>2. QED
    BY <1>8, <2>1, ReadAtKeeps
<1>9. ASSUME Read PROVE OInv'
  BY <1>9, ReadKeeps
<1>10. ASSUME ResetFp PROVE OInv'
  BY <1>10, ResetKeeps
<1>11. CASE UNCHANGED vars
  <2>1. UNCHANGED writerVars /\ UNCHANGED <<opened, seen, index, current_index, got, stream>>
    BY <1>11 DEF vars, readerVars
  <2>2. /\ Layout' /\ Writer' /\ Bytes' /\ objects' = objects
    BY <2>1, ReadingKeeps
  <2>3. TypeOK'
    BY <2>1 DEF OInv, TypeOK, writerVars
  <2>4. OldReader
    BY <2>1, StaysOld
  <2>5. /\ got.ind >= 0 => got.ind < Len(index) /\ got.bytes = ObjectBytes(objects[got.ind + 1])
        /\ opened # "open" => index = << >> /\ got.ind = -1 /\ stream = << >> /\ current_index = 0
        /\ Len(stream) = (IF current_index < Len(index) THEN current_index ELSE Len(index))
        /\ \A i \in 1 .. Len(stream) : stream[i] = ObjectBytes(objects[i])
    BY DEF OInv, Reader
  <2>6. /\ got'.ind >= 0 => got'.ind < Len(index') /\ got'.bytes = ObjectBytes(objects'[got'.ind + 1])
        /\ opened' # "open" => index' = << >> /\ got'.ind = -1 /\ stream' = << >> /\ current_index' = 0
        /\ Len(stream') = (IF current_index' < Len(index') THEN current_index' ELSE Len(index'))
        /\ \A i \in 1 .. Len(stream') : stream'[i] = ObjectBytes(objects'[i])
    BY <2>1, <2>2, <2>5
  <2>7. Reader'
    BY <2>4, <2>6 DEF Reader, OldReader
  <2>8. QED
    BY <2>2, <2>3, <2>7 DEF OInv
<1>12. QED
  BY <1>1, <1>2, <1>3, <1>4, <1>5, <1>6, <1>7, <1>8, <1>9, <1>10, <1>11 DEF Next

-----------------------------------------------------------------------------
(* Theorems *)

\* A step of a file of protocol 0 changes no variable of protocol 1.
LEMMA FileStep == [FileNext]_<<protocol, chunkVars, vars>> => [Next]_vars
<1> SUFFICES ASSUME [FileNext]_<<protocol, chunkVars, vars>> PROVE [Next]_vars
  OBVIOUS
<1>1. CASE ProtocolOne
  BY <1>1 DEF ProtocolOne
<1>2. CASE ProtocolZero
  <2>1. PICK f \in Files :
          \/ \E o \in Objects : WriteChunk(f, o)
          \/ Grow(f)
          \/ Open(f)
          \/ Reload(f)
          \/ ReadChunk(f)
          \/ \E ind \in 0 .. MaxCalls * MaxChunks : ReadChunkAt(f, ind)
          \/ ResetFpV0(f)
    BY <1>2 DEF ProtocolZero
  <2>2. (\E o \in Objects : WriteChunk(f, o)) => UNCHANGED vars
    BY DEF WriteChunk
  <2>3. Grow(f) => UNCHANGED vars
    BY DEF Grow
  <2>4. Open(f) \/ Reload(f) \/ ReadChunk(f) \/ ResetFpV0(f) => UNCHANGED vars
    BY DEF Open, Reload, ReadChunk, ResetFpV0, Call
  <2>5. (\E ind \in 0 .. MaxCalls * MaxChunks : ReadChunkAt(f, ind)) => UNCHANGED vars
    BY DEF ReadChunkAt, Call
  <2>6. QED
    BY <2>1, <2>2, <2>3, <2>4, <2>5
<1>3. CASE UNCHANGED <<protocol, chunkVars, vars>>
  BY <1>3
<1>4. QED
  BY <1>1, <1>2, <1>3 DEF FileNext

\* The files of both protocols behave as those of protocol 1: what is done with files of
\* protocol 0 leaves them alone.
THEOREM FilesImplementStreamed == FileSpec => Spec
<1>1. FileInit => Init
  BY DEF FileInit
<1>2. QED
  BY <1>1, FileStep, PTL DEF FileSpec, Spec

\* The inductive invariant: the types, the layout of the bunches, what the writer keeps of
\* them, every byte of the file, and what the reader has found.
THEOREM ObjectFileInvariant == FileSpec => []OInv
<1>1. Init => OInv
  BY InitOInv
<1>2. OInv /\ [Next]_vars => OInv'
  BY StepOInv
<1>3. QED
  BY <1>1, <1>2, FilesImplementStreamed, PTL DEF Spec

\* A reader that could be opened has exactly the objects of the bunches that were
\* complete, and returns for an index the object that write was given in that place.
THEOREM ReadsBackHolds == FileSpec => []ReadsBack
<1>1. OInv => ReadsBack
  BY DEF OInv, Reader, ReadsBack
<1>2. QED
  BY <1>1, ObjectFileInvariant, PTL

\* A file that ends with its header or with a bunch can be opened.
THEOREM OpensAtBunchEndHolds == FileSpec => []OpensAtBunchEnd
<1>1. ASSUME OInv PROVE OpensAtBunchEnd
  <2>1. DOMAIN flushes = 1 .. N
    BY <1>1 DEF OInv, TypeOK, N
  <2>2. opened = "raised" => seen # HeaderSize /\ \A k \in 1 .. N : seen # flushes[k].end
    BY <1>1 DEF OInv, Reader
  <2>3. QED
    BY <2>1, <2>2 DEF OpensAtBunchEnd
<1>2. QED
  BY <1>1, ObjectFileInvariant, PTL

\* A closed file has every object that write was given.
THEOREM ClosedIsCompleteHolds == FileSpec => []ClosedIsComplete
<1>1. ASSUME OInv, state = "closed", opened # "no", seen = Len(file)
      PROVE  opened = "open" /\ Len(index) = Len(objects)
  <2> USE DEF OInv
  <2>1. /\ buffer = << >> /\ Len(file) = fp /\ fp >= End
        /\ (fp > End => buffer # << >>) /\ Len(buffer) = Len(objects) - Saved
    BY <1>1 DEF Writer
  <2>2. End \in Nat /\ Saved \in Nat /\ N \in Nat
    BY <1>1, EndFacts
  <2>3. fp \in Nat /\ Len(objects) \in Nat /\ Len(buffer) = 0
    BY <1>1, <2>1, LenProperties DEF TypeOK
  <2>4. seen = End
    BY <1>1, <2>1, <2>2, <2>3
  <2>5. Saved = Len(objects)
    BY <2>1, <2>2, <2>3
  <2>6. opened # "raised"
    <3>1. opened = "raised" => seen # HeaderSize /\ \A k \in 1 .. N : seen # flushes[k].end
      BY <1>1 DEF Reader
    <3>2. N = 0 \/ N \in 1 .. N
      BY <2>2
    <3>3. QED
      BY <2>4, <3>1, <3>2 DEF End
  <2>7. opened = "open"
    BY <1>1, <2>6 DEF TypeOK
  <2>8. Len(index) = CountAt(seen)
    BY <1>1, <2>7 DEF Reader
  <2>9. CountAt(End) = Saved
    <3>1. PICK n \in Nat : n = End
      BY <2>2
    <3>2. TypeOK
      BY <1>1
    <3>3. CASE N = 0
      <4>1. \A j \in 1 .. N : ~ flushes[j].end <= n
        BY <3>3
      <4>2. CountAt(n) = 0
        BY <3>2, <4>1, CountAtFacts
      <4>3. QED
        BY <3>1, <3>3, <4>2 DEF Saved
    <3>4. CASE N # 0
      <4>1. PICK k \in 1 .. N : k = N
        BY <2>2, <3>4
      <4>2. n = flushes[k].end /\ Saved = flushes[k].count
        BY <3>1, <3>4, <4>1 DEF End, Saved
      <4>3. flushes[k].end \in Nat
        BY <3>1, <4>2
      <4>4. flushes[k].end <= n /\ \A j \in 1 .. N : flushes[j].end <= n => j <= k
        BY <2>2, <4>1, <4>2, <4>3
      <4>5. CountAt(n) = flushes[k].count
        BY <3>2, <4>4, CountAtFacts
      <4>6. QED
        BY <3>1, <4>2, <4>5
    <3>5. QED
      BY <3>3, <3>4
  <2>10. QED
    BY <2>4, <2>5, <2>7, <2>8, <2>9
<1>2. OInv => ClosedIsComplete
  BY <1>1 DEF ClosedIsComplete
<1>3. QED
  BY <1>2, ObjectFileInvariant, PTL

\* read returns the objects one after the other, whatever read_at is called between.
THEOREM StreamsInOrderHolds == FileSpec => []StreamsInOrder
<1>1. ASSUME OInv PROVE StreamsInOrder
  <2>1. stream \in Seq(Seq(ObjectByte)) /\ current_index \in Nat /\ index \in Seq(Entry)
    BY <1>1 DEF OInv, TypeOK
  <2>2. Len(index) \in Nat /\ DOMAIN stream = 1 .. Len(stream)
    BY <2>1, LenProperties
  <2>3. /\ Len(stream) = (IF current_index < Len(index) THEN current_index ELSE Len(index))
        /\ \A i \in 1 .. Len(stream) : stream[i] = ObjectBytes(objects[i])
    BY <1>1 DEF OInv, Reader
  <2>4. QED
    BY <2>1, <2>2, <2>3 DEF StreamsInOrder
<1>2. QED
  BY <1>1, ObjectFileInvariant, PTL

-----------------------------------------------------------------------------
(* Protocol 0: the invariant *)

\* What reading gives; "elsewhere" marks a stream that read_at has moved.
Result ==
  [kind : {"raised", "elsewhere"}]
  \union [kind : {"none", "raised", "garbage"}, pos : Nat]
  \union [kind : {"data"}, object : Objects, size : Nat, pos : Nat]

ChunkReader ==
  [open : {TRUE}, n_entries : Nat, pos : Nat, filesize : Nat, results : Seq(Result),
   first : Nat, last : [ind : Int, read : Seq(Result)]]

ChunkTypes ==
  /\ given \in [Files -> Seq(Objects)]
  /\ disk \in [Files -> Nat]
  /\ fpos \in Seq(Nat)
  /\ readers \in [Files -> {NoReader} \union ChunkReader]
  /\ calls \in Nat

\* IsPartOf and IsAllOf, of chunks g
PartOf(r, g, i) ==
  \/ r.kind = "data" /\ i <= Len(g) /\ r.object = g[i] /\ r.size <= Size[r.object]
  \/ r.kind = "raised"
AllOf(r, g, i) == r.kind = "data" /\ PartOf(r, g, i) /\ r.size = Size[g[i]]

\* The results res are the first c chunks, and then part of the next or a position at it.
FirstChunks(res, pos, g, c) ==
  /\ c <= Len(g)
  /\ \A i \in 1 .. c : AllOf(res[i], g, i)
  /\ c < Len(res) => PartOf(res[c + 1], g, c + 1) /\ ~ AllOf(res[c + 1], g, c + 1)
  /\ c = Len(res) => pos = Starts(g)[c + 1]

Straight(res) == res # << >> => res[1].kind # "elsewhere"

\* A reader of chunks g, of which d bytes are on disk, with the list fp.
ReadsRight(rd, g, d, fl) ==
  /\ Straight(rd.results) =>
       \E c \in 0 .. Len(rd.results) : FirstChunks(rd.results, rd.pos, g, c)
  /\ rd.first <= Len(fl) /\ rd.first <= Len(g)
  /\ \A i \in 1 .. rd.first : fl[i] = Starts(g)[i] /\ Starts(g)[i] + ChunkHeader <= d
  /\ rd.last.ind \in 0 .. rd.first - 1 =>
       rd.last.read[1].kind = "data" /\ PartOf(rd.last.read[1], g, rd.last.ind + 1)

ReadersRight ==
  \A f \in Files : readers[f].open => fpos # << >> /\ ReadsRight(readers[f], given[f], disk[f], fpos)

OnDisk == \A f \in Files : disk[f] <= Pos(f, Len(given[f]) + 1)

CInv == ChunkTypes /\ OnDisk /\ ReadersRight

-----------------------------------------------------------------------------
(* Protocol 0 *)

\* Where chunks begin: the header first, then one behind the other.
LEMMA StartsFacts ==
  ASSUME NEW c \in Seq(Objects), NEW n \in Nat, n = Len(c)
  PROVE  /\ Starts(c) \in [1 .. n + 1 -> Nat]
         /\ Starts(c)[1] = HeaderSize
         /\ \A i \in 1 .. n : Starts(c)[i + 1] = Starts(c)[i] + ChunkHeader + Size[c[i]]
<1> DEFINE G == [xi \in Nat \X Nat |->
                   IF xi[2] - 1 \in 1 .. n THEN xi[1] + ChunkHeader + Size[c[xi[2] - 1]] ELSE 0]
           F(f) == [i \in 1 .. Len(c) + 1 |->
                      IF i = 1 THEN HeaderSize ELSE f[i - 1] + ChunkHeader + Size[c[i - 1]]]
<1>1. \A i \in 1 .. n : c[i] \in Objects /\ Size[c[i]] \in Nat
  BY SizeAssumption
<1>2. HeaderSize \in Nat /\ ChunkHeader \in Nat /\ n + 1 \in Nat
  BY HeaderAssumption, ChunkAssumption
<1>3. G \in [Nat \X Nat -> Nat]
  <2>1. ASSUME NEW xi \in Nat \X Nat, xi[2] - 1 \in 1 .. n
        PROVE  xi[1] + ChunkHeader + Size[c[xi[2] - 1]] \in Nat
    <3>1. PICK a \in Nat, s \in Nat : a = xi[1] /\ s = Size[c[xi[2] - 1]]
      BY <1>1, <2>1
    <3>2. QED
      BY <1>2, <3>1
  <2>2. QED
    BY <2>1
<1>4. PICK f \in [1 .. n + 1 -> Nat] : Goes(f, n + 1, HeaderSize, G)
  <2> HIDE DEF G
  <2>1. QED
    BY <1>2, <1>3, StepByStep, Zenon
<1>5. ASSUME NEW i \in 1 .. n + 1, i # 1
      PROVE  G[<<f[i - 1], i>>] = f[i - 1] + ChunkHeader + Size[c[i - 1]]
  <2>1. i - 1 \in 1 .. n + 1 /\ i - 1 \in 1 .. n /\ i \in Nat
    BY <1>5
  <2>2. PICK a \in Nat : a = f[i - 1]
    BY <2>1
  <2>3. G[<<a, i>>] = a + ChunkHeader + Size[c[i - 1]]
    BY <2>1
  <2>4. QED
    BY <2>2, <2>3
<1> HIDE DEF G
<1>6. f = F(f)
  <2>1. \A i \in 1 .. n + 1 : f[i] = IF i = 1 THEN HeaderSize ELSE G[<<f[i - 1], i>>]
    BY <1>4 DEF Goes
  <2>2. \A i \in 1 .. n + 1 :
          f[i] = IF i = 1 THEN HeaderSize ELSE f[i - 1] + ChunkHeader + Size[c[i - 1]]
    BY <1>5, <2>1
  <2>3. f = [i \in 1 .. n + 1 |-> f[i]]
    OBVIOUS
  <2>4. QED
    BY <2>2, <2>3
<1>7. PICK h : h = CHOOSE g : g = F(g)
  OBVIOUS
<1>8. h = F(h)
  <2> HIDE DEF F
  <2>1. QED
    BY <1>6, <1>7
<1>9. Starts(c) = h
  BY <1>7 DEF Starts
<1>10. \A i \in 1 .. n + 1 :
         h[i] = IF i = 1 THEN HeaderSize ELSE h[i - 1] + ChunkHeader + Size[c[i - 1]]
  BY <1>8
<1>11. h = [i \in 1 .. n + 1 |-> h[i]]
  <2>1. DOMAIN h = 1 .. n + 1 /\ h = [i \in DOMAIN h |-> h[i]]
    BY <1>8
  <2>2. QED
    BY <2>1
<1>12. \A i \in 1 .. n + 1 : h[i] \in Nat
  <2> DEFINE Wrong == {i \in 1 .. n + 1 : h[i] \notin Nat}
  <2>1. SUFFICES ASSUME Wrong # {} PROVE FALSE
    OBVIOUS
  <2>2. PICK i \in Wrong : \A j \in Wrong : i <= j
    <3>1. Wrong \subseteq Nat
      OBVIOUS
    <3>2. QED
      BY <2>1, <3>1, LeastNumber, Zenon
  <2>3. i \in 1 .. n + 1 /\ i # 1
    BY <1>2, <1>10, <2>2
  <2>4. i - 1 \in 1 .. n /\ i - 1 \in 1 .. n + 1 /\ ~ i <= i - 1
    BY <2>3
  <2>5. h[i - 1] \in Nat
    BY <2>2, <2>4
  <2>6. h[i] = h[i - 1] + ChunkHeader + Size[c[i - 1]]
    BY <1>10, <2>3
  <2>7. PICK a \in Nat, s \in Nat : a = h[i - 1] /\ s = Size[c[i - 1]]
    BY <1>1, <2>4, <2>5
  <2>8. h[i] \in Nat
    BY <1>2, <2>6, <2>7
  <2>9. QED
    BY <2>2, <2>8
<1>13. h \in [1 .. n + 1 -> Nat] /\ h[1] = HeaderSize
  <2>1. h \in [1 .. n + 1 -> Nat]
    BY <1>11, <1>12
  <2>2. 1 \in 1 .. n + 1
    OBVIOUS
  <2>3. QED
    BY <1>10, <2>1, <2>2
<1>14. ASSUME NEW i \in 1 .. n
       PROVE  h[i + 1] = h[i] + ChunkHeader + Size[c[i]]
  <2>1. i + 1 \in 1 .. n + 1 /\ i + 1 # 1 /\ i + 1 - 1 = i
    OBVIOUS
  <2>2. QED
    BY <1>10, <2>1
<1>15. QED
  BY <1>9, <1>13, <1>14

\* A later chunk begins behind the end of an earlier one.
LEMMA StartsGrow ==
  ASSUME NEW c \in Seq(Objects), NEW i \in 1 .. Len(c), NEW j \in 1 .. Len(c) + 1, i < j
  PROVE  Starts(c)[i] + ChunkHeader + Size[c[i]] <= Starts(c)[j]
<1>1. PICK n \in Nat : n = Len(c)
  BY LenProperties
<1>2. PICK h \in [1 .. n + 1 -> Nat] :
        /\ h = Starts(c)
        /\ \A k \in 1 .. n : h[k + 1] = h[k] + ChunkHeader + Size[c[k]]
  BY <1>1, StartsFacts
<1>3. \A k \in 1 .. n : Size[c[k]] \in Nat
  BY <1>1, SizeAssumption
<1>4. ChunkHeader \in Nat
  BY ChunkAssumption
<1> DEFINE Wrong == {k \in 1 .. n + 1 : i < k /\ ~ h[i] + ChunkHeader + Size[c[i]] <= h[k]}
<1>5. Wrong = {}
  <2>1. SUFFICES ASSUME Wrong # {} PROVE FALSE
    OBVIOUS
  <2>2. PICK k \in Wrong : \A m \in Wrong : k <= m
    <3>1. Wrong \subseteq Nat
      OBVIOUS
    <3>2. QED
      BY <2>1, <3>1, LeastNumber, Zenon
  <2>3. k \in 1 .. n + 1 /\ i < k /\ ~ h[i] + ChunkHeader + Size[c[i]] <= h[k]
    BY <2>2
  <2>4. i \in 1 .. n /\ k - 1 \in 1 .. n /\ k - 1 + 1 = k /\ k - 1 \in 1 .. n + 1 /\ ~ k <= k - 1
    BY <1>1, <2>3
  <2>5. h[k] = h[k - 1] + ChunkHeader + Size[c[k - 1]]
    BY <1>2, <2>4
  <2>6. PICK a \in Nat, b \in Nat, s \in Nat, t \in Nat :
          a = h[i] /\ b = h[k - 1] /\ s = Size[c[i]] /\ t = Size[c[k - 1]]
    <3>1. i \in 1 .. n + 1
      BY <2>4
    <3>2. h[i] \in Nat /\ h[k - 1] \in Nat /\ Size[c[i]] \in Nat /\ Size[c[k - 1]] \in Nat
      BY <1>2, <1>3, <2>4, <3>1
    <3>3. QED
      BY <3>2
  <2>10. h[k] = b + ChunkHeader + t /\ ~ a + ChunkHeader + s <= h[k]
    BY <2>3, <2>5, <2>6
  <2>7. CASE k - 1 = i
    BY <1>4, <2>6, <2>7, <2>10
  <2>8. CASE k - 1 # i
    <3>1. i < k - 1
      BY <2>3, <2>4, <2>8
    <3>2. a + ChunkHeader + s <= b
      BY <2>2, <2>4, <2>6, <3>1
    <3>3. QED
      BY <1>4, <2>10, <3>2
  <2>9. QED
    BY <2>7, <2>8
<1>6. j \in 1 .. n + 1
  BY <1>1
<1>7. QED
  BY <1>2, <1>5, <1>6

\* A chunk that is appended leaves the others where they are.
LEMMA StartsStay ==
  ASSUME NEW c \in Seq(Objects), NEW o \in Objects, NEW i \in 1 .. Len(c) + 1
  PROVE  Starts(Append(c, o))[i] = Starts(c)[i]
<1>1. PICK n \in Nat : n = Len(c)
  BY LenProperties
<1>2. PICK d \in Seq(Objects) :
        d = Append(c, o) /\ Len(d) = n + 1 /\ \A k \in 1 .. n : d[k] = c[k]
  <2>1. /\ Append(c, o) \in Seq(Objects) /\ Len(Append(c, o)) = Len(c) + 1
        /\ \A k \in 1 .. Len(c) : Append(c, o)[k] = c[k]
    BY AppendProperties
  <2>2. QED
    BY <1>1, <2>1
<1>3. PICK h \in [1 .. n + 1 -> Nat] :
        /\ h = Starts(c) /\ h[1] = HeaderSize
        /\ \A k \in 1 .. n : h[k + 1] = h[k] + ChunkHeader + Size[c[k]]
  BY <1>1, StartsFacts
<1>4. PICK g \in [1 .. n + 2 -> Nat] :
        /\ g = Starts(d) /\ g[1] = HeaderSize
        /\ \A k \in 1 .. n + 1 : g[k + 1] = g[k] + ChunkHeader + Size[d[k]]
  <2>1. PICK m \in Nat : m = n + 1 /\ m + 1 = n + 2
    OBVIOUS
  <2>2. m = Len(d)
    BY <1>2, <2>1
  <2>3. /\ Starts(d) \in [1 .. m + 1 -> Nat] /\ Starts(d)[1] = HeaderSize
        /\ \A k \in 1 .. m : Starts(d)[k + 1] = Starts(d)[k] + ChunkHeader + Size[d[k]]
    BY <2>2, StartsFacts
  <2>4. QED
    BY <2>1, <2>3
<1> DEFINE Wrong == {k \in 1 .. n + 1 : g[k] # h[k]}
<1>5. Wrong = {}
  <2>1. SUFFICES ASSUME Wrong # {} PROVE FALSE
    OBVIOUS
  <2>2. PICK k \in Wrong : \A m \in Wrong : k <= m
    <3>1. Wrong \subseteq Nat
      OBVIOUS
    <3>2. QED
      BY <2>1, <3>1, LeastNumber, Zenon
  <2>3. k \in 1 .. n + 1 /\ g[k] # h[k] /\ k # 1
    BY <1>3, <1>4, <2>2
  <2>4. k - 1 \in 1 .. n /\ k - 1 + 1 = k /\ k - 1 \in 1 .. n + 1 /\ ~ k <= k - 1
    BY <2>3
  <2>5. g[k - 1] = h[k - 1]
    BY <2>2, <2>4
  <2>6. d[k - 1] = c[k - 1]
    BY <1>2, <2>4
  <2>7. h[k] = h[k - 1] + ChunkHeader + Size[c[k - 1]]
    BY <1>3, <2>4
  <2>8. g[k] = g[k - 1] + ChunkHeader + Size[d[k - 1]]
    BY <1>4, <2>4
  <2>9. QED
    BY <2>3, <2>5, <2>6, <2>7, <2>8
<1>6. i \in 1 .. n + 1
  BY <1>1
<1>7. QED
  BY <1>2, <1>3, <1>4, <1>5, <1>6

\* Chunks stay what they are when one is appended.
LEMMA PartStays ==
  ASSUME NEW g \in Seq(Objects), NEW h \in Seq(Objects), Len(g) <= Len(h),
         \A i \in 1 .. Len(g) : h[i] = g[i],
         NEW r, NEW i \in Nat \ {0}, PartOf(r, g, i)
  PROVE  PartOf(r, h, i) /\ (AllOf(r, g, i) <=> AllOf(r, h, i))
<1>1. Len(g) \in Nat /\ Len(h) \in Nat
  BY LenProperties
<1>2. CASE r.kind = "raised"
  BY <1>2 DEF PartOf, AllOf
<1>3. CASE r.kind = "data" /\ i <= Len(g) /\ r.object = g[i] /\ r.size <= Size[r.object]
  <2>1. i \in 1 .. Len(g) /\ i <= Len(h)
    BY <1>1, <1>3
  <2>2. h[i] = g[i]
    BY <2>1
  <2>3. QED
    BY <1>3, <2>1, <2>2 DEF PartOf, AllOf
<1>4. QED
  BY <1>2, <1>3 DEF PartOf

\* A reader stays right when chunks are appended, bytes reach the disk and the list grows.
LEMMA RightStays ==
  ASSUME NEW g \in Seq(Objects), NEW h \in Seq(Objects),
         h = g \/ \E o \in Objects : h = Append(g, o),
         NEW d \in Nat, NEW e \in Nat, d <= e,
         NEW fl \in Seq(Nat), NEW fq \in Seq(Nat), Len(fl) <= Len(fq),
         \A i \in 1 .. Len(fl) : fq[i] = fl[i],
         NEW rd \in ChunkReader, ReadsRight(rd, g, d, fl)
  PROVE  ReadsRight(rd, h, e, fq)
<1>1. /\ Len(g) \in Nat /\ Len(h) \in Nat /\ Len(fl) \in Nat /\ Len(fq) \in Nat
      /\ Len(g) <= Len(h) /\ \A i \in 1 .. Len(g) : h[i] = g[i]
  <2>1. CASE h = g
    BY <2>1, LenProperties
  <2>2. CASE \E o \in Objects : h = Append(g, o)
    <3>1. PICK o \in Objects : h = Append(g, o)
      BY <2>2
    <3>2. /\ Len(Append(g, o)) = Len(g) + 1
          /\ \A i \in 1 .. Len(g) : Append(g, o)[i] = g[i]
      BY AppendProperties
    <3>3. QED
      BY <3>1, <3>2, LenProperties
  <2>3. QED
    BY <2>1, <2>2
<1>2. \A i \in 1 .. Len(g) + 1 : Starts(h)[i] = Starts(g)[i]
  BY StartsStay
<1>3. /\ rd.results \in Seq(Result) /\ rd.first \in Nat /\ rd.last.ind \in Int
      /\ Len(rd.results) \in Nat
  BY LenProperties DEF ChunkReader
<1>4. ASSUME NEW c \in 0 .. Len(rd.results), FirstChunks(rd.results, rd.pos, g, c)
      PROVE  FirstChunks(rd.results, rd.pos, h, c)
  <2>1. c \in Nat /\ c <= Len(g) /\ c <= Len(h) /\ c + 1 \in Nat \ {0} /\ c + 1 \in 1 .. Len(g) + 1
    BY <1>1, <1>3, <1>4 DEF FirstChunks
  <2>2. ASSUME NEW i \in 1 .. c PROVE AllOf(rd.results[i], h, i)
    <3>1. AllOf(rd.results[i], g, i) /\ i \in Nat \ {0}
      BY <1>4, <2>1 DEF FirstChunks
    <3>2. PartOf(rd.results[i], g, i)
      BY <3>1 DEF AllOf
    <3>3. QED
      BY <1>1, <3>1, <3>2, PartStays
  <2>3. c < Len(rd.results) =>
          PartOf(rd.results[c + 1], h, c + 1) /\ ~ AllOf(rd.results[c + 1], h, c + 1)
    <3>1. PICK i \in Nat \ {0} : i = c + 1
      BY <2>1
    <3>2. c < Len(rd.results) => PartOf(rd.results[i], g, i) /\ ~ AllOf(rd.results[i], g, i)
      BY <1>4, <3>1 DEF FirstChunks
    <3>3. QED
      BY <1>1, <3>1, <3>2, PartStays
  <2>4. Starts(h)[c + 1] = Starts(g)[c + 1]
    BY <1>2, <2>1
  <2>5. QED
    BY <1>4, <2>1, <2>2, <2>3, <2>4 DEF FirstChunks
<1>5. rd.first <= Len(fl) /\ rd.first <= Len(g)
  BY DEF ReadsRight
<1>6. rd.first <= Len(fq) /\ rd.first <= Len(h)
  BY <1>1, <1>3, <1>5
<1>7. ASSUME NEW i \in 1 .. rd.first
      PROVE  fq[i] = Starts(h)[i] /\ Starts(h)[i] + ChunkHeader <= e
  <2>1. i \in 1 .. Len(fl) /\ i \in 1 .. Len(g) + 1
    <3>1. PICK a \in Nat, k \in Nat, n \in Nat : a = rd.first /\ k = Len(fl) /\ n = Len(g)
      BY <1>1, <1>3
    <3>2. a <= k /\ a <= n /\ i \in 1 .. a
      BY <1>5, <3>1
    <3>3. i \in 1 .. k /\ i \in 1 .. n + 1
      BY <3>2
    <3>4. QED
      BY <3>1, <3>3
  <2>2. fl[i] = Starts(g)[i] /\ Starts(g)[i] + ChunkHeader <= d
    BY DEF ReadsRight
  <2>3. fq[i] = fl[i] /\ Starts(h)[i] = Starts(g)[i] /\ fl[i] \in Nat /\ ChunkHeader \in Nat
    <3>1. fq[i] = fl[i]
      BY <2>1
    <3>2. fl[i] \in Nat
      BY <2>1, ElementOfSeq
    <3>3. Starts(h)[i] = Starts(g)[i]
      BY <1>2, <2>1
    <3>4. QED
      BY <3>1, <3>2, <3>3, ChunkAssumption
  <2>4. PICK s \in Nat, c \in Nat : s = Starts(g)[i] /\ c = ChunkHeader
    BY <2>2, <2>3
  <2>5. s + c <= e
    BY <2>2, <2>4
  <2>6. QED
    BY <2>2, <2>3, <2>4, <2>5
<1>8. ASSUME rd.last.ind \in 0 .. rd.first - 1
      PROVE  rd.last.read[1].kind = "data" /\ PartOf(rd.last.read[1], h, rd.last.ind + 1)
  <2>1. rd.last.read[1].kind = "data" /\ PartOf(rd.last.read[1], g, rd.last.ind + 1)
    BY <1>8 DEF ReadsRight
  <2>2. PICK i \in Nat \ {0} : i = rd.last.ind + 1
    BY <1>8
  <2>3. QED
    BY <1>1, <2>1, <2>2, PartStays
<1>9. Straight(rd.results) =>
        \E c \in 0 .. Len(rd.results) : FirstChunks(rd.results, rd.pos, h, c)
  BY <1>4 DEF ReadsRight
<1>10. QED
  BY <1>6, <1>7, <1>8, <1>9 DEF ReadsRight

\* The chunks whose headers are on disk are the first ones.
LEMMA HeadersFirst ==
  ASSUME CInv, NEW f \in Files
  PROVE  /\ Headers(f) \in Nat /\ Headers(f) <= Len(given[f])
         /\ \A i \in 1 .. Headers(f) : Pos(f, i) + ChunkHeader <= disk[f]
<1>1. PICK g \in Seq(Objects), n \in Nat : g = given[f] /\ n = Len(g)
  BY LenProperties DEF CInv, ChunkTypes
<1>2. Starts(g) \in [1 .. n + 1 -> Nat] /\ disk[f] \in Nat /\ ChunkHeader \in Nat
  BY <1>1, StartsFacts, ChunkAssumption DEF CInv, ChunkTypes
<1> DEFINE T == {i \in 1 .. n : Starts(g)[i] + ChunkHeader <= disk[f]}
           U == {i \in 0 .. n : \A j \in T : j <= i}
<1>3. Headers(f) = Cardinality(T)
  BY <1>1 DEF Headers, Pos
<1>4. PICK m \in U : \A k \in U : m <= k
  <2>1. U \subseteq Nat /\ n \in U
    BY <1>1
  <2>2. PICK V : V = U
    OBVIOUS
  <2>3. QED
    BY <2>1, <2>2, LeastNumber
<1>5. m \in 0 .. n /\ \A j \in T : j <= m
  BY <1>4
<1>6. m # 0 => m \in T
  <2>1. ASSUME m # 0, m \notin T PROVE FALSE
    <3>1. \A j \in T : j <= m - 1
      BY <1>5, <2>1
    <3>2. m - 1 \in U /\ ~ m <= m - 1
      BY <1>5, <2>1, <3>1
    <3>3. QED
      BY <1>4, <3>2
  <2>2. QED
    BY <2>1
<1>7. ASSUME NEW i \in 1 .. m PROVE i \in T
  <2>1. m \in T /\ m \in 1 .. n /\ i \in 1 .. n /\ i \in 1 .. n + 1 /\ m \in 1 .. n + 1
    BY <1>5, <1>6
  <2>2. Starts(g)[m] + ChunkHeader <= disk[f]
    BY <2>1
  <2>3. CASE i = m
    BY <2>1, <2>3
  <2>4. CASE i < m
    <3>1. Starts(g)[i] + ChunkHeader + Size[g[i]] <= Starts(g)[m]
      BY <1>1, <2>1, <2>4, StartsGrow
    <3>2. PICK a \in Nat, b \in Nat, s \in Nat, d \in Nat :
            a = Starts(g)[i] /\ b = Starts(g)[m] /\ s = Size[g[i]] /\ d = disk[f]
      <4>1. Starts(g)[i] \in Nat /\ Starts(g)[m] \in Nat /\ disk[f] \in Nat
        BY <1>2, <2>1
      <4>2. Size[g[i]] \in Nat
        BY <1>1, <2>1, SizeAssumption
      <4>3. QED
        BY <4>1, <4>2
    <3>3. a + ChunkHeader <= disk[f]
      <4>1. a + ChunkHeader + s <= b /\ b + ChunkHeader <= d
        BY <2>2, <3>1, <3>2
      <4>2. a + ChunkHeader <= d
        BY <1>2, <4>1
      <4>3. QED
        BY <3>2, <4>2
    <3>4. QED
      BY <2>1, <3>2, <3>3
  <2>5. QED
    BY <1>5, <2>3, <2>4
<1>8. T = 1 .. m
  <2>1. \A i \in T : i \in 1 .. m
    BY <1>5
  <2>2. QED
    BY <1>7, <2>1
<1>9. Headers(f) = m
  <2>1. Cardinality(1 .. m) = m
    BY <1>5, FS_Interval
  <2>2. QED
    BY <1>3, <1>8, <2>1
<1>10. QED
  BY <1>1, <1>5, <1>7, <1>9 DEF Pos

\* What a chunk's place gives.
AtChunk(r, g, k, d) ==
  \/ r.kind = "none" /\ r.pos = Starts(g)[k] /\ d <= Starts(g)[k]
  \/ r.kind = "raised" /\ d < Starts(g)[k] + ChunkHeader
  \/ /\ k <= Len(g) /\ PartOf(r, g, k) /\ r.kind = "data"
     /\ r.size = Size[g[k]] => r.pos = Starts(g)[k + 1]

\* Reading anywhere gives a result with a position.
LEMMA OutcomeTypes ==
  ASSUME CInv, NEW f \in Files, NEW p \in Nat, NEW r \in Outcomes(f, p)
  PROVE  r \in Result /\ r.pos \in Nat
<1>1. disk[f] \in Nat /\ ChunkHeader \in Nat /\ given[f] \in Seq(Objects)
  BY ChunkAssumption DEF CInv, ChunkTypes
<1>2. CASE p >= disk[f]
  <2>1. r = [kind |-> "none", pos |-> p]
    BY <1>2 DEF Outcomes
  <2>2. QED
    BY <2>1 DEF Result
<1>3. CASE ~ p >= disk[f] /\ p + ChunkHeader > disk[f]
  <2>1. r = [kind |-> "raised", pos |-> disk[f]]
    BY <1>3 DEF Outcomes
  <2>2. QED
    BY <1>1, <2>1 DEF Result
<1>4. CASE ~ p >= disk[f] /\ ~ p + ChunkHeader > disk[f]
  <2> DEFINE here == {i \in 1 .. Len(given[f]) : Pos(f, i) = p}
             rest == disk[f] - p - ChunkHeader
             data(i) == IF Size[given[f][i]] <= rest THEN Size[given[f][i]] ELSE rest
  <2>1. r \in (IF here = {}
               THEN {[kind |-> "garbage", pos |-> q] : q \in p + ChunkHeader .. disk[f]}
               ELSE {[kind |-> "data", object |-> given[f][i], size |-> data(i),
                      pos |-> p + ChunkHeader + data(i)] : i \in here})
    BY <1>4 DEF Outcomes
  <2>2. CASE here = {}
    <3>1. PICK q \in p + ChunkHeader .. disk[f] : r = [kind |-> "garbage", pos |-> q]
      BY <2>1, <2>2
    <3>2. q \in Nat
      BY <1>1
    <3>3. QED
      BY <3>1, <3>2 DEF Result
  <2>3. CASE here # {}
    <3>1. PICK i \in 1 .. Len(given[f]) :
            r = [kind |-> "data", object |-> given[f][i], size |-> data(i),
                 pos |-> p + ChunkHeader + data(i)]
      BY <2>1, <2>3
    <3>2. given[f][i] \in Objects /\ Size[given[f][i]] \in Nat /\ rest \in Nat
      BY <1>1, <1>4, SizeAssumption
    <3>3. data(i) \in Nat
      BY <3>2
    <3> HIDE DEF data, rest, here
    <3>4. PICK s \in Nat, q \in Nat : s = data(i) /\ q = p + ChunkHeader + s
      BY <1>1, <3>3
    <3>5. r = [kind |-> "data", object |-> given[f][i], size |-> s, pos |-> q]
      BY <3>1, <3>4
    <3>6. QED
      BY <3>2, <3>5 DEF Result
  <2>4. QED
    BY <2>2, <2>3
<1>5. QED
  BY <1>2, <1>3, <1>4

\* Reading at the place of chunk k, or behind the last one.
LEMMA OutcomeAtChunk ==
  ASSUME CInv, NEW f \in Files, NEW g \in Seq(Objects), g = given[f], NEW k \in 1 .. Len(g) + 1,
         NEW r \in Outcomes(f, Starts(g)[k])
  PROVE  AtChunk(r, g, k, disk[f])
<1>1. PICK p \in Nat, d \in Nat, n \in Nat : p = Starts(g)[k] /\ d = disk[f] /\ n = Len(g)
  <2>1. PICK n \in Nat : n = Len(g)
    BY LenProperties
  <2>2. Starts(g) \in [1 .. n + 1 -> Nat]
    BY <2>1, StartsFacts
  <2>3. Starts(g)[k] \in Nat /\ disk[f] \in Nat
    BY <2>1, <2>2 DEF CInv, ChunkTypes
  <2>4. QED
    BY <2>1, <2>3
<1>2. Starts(g) \in [1 .. n + 1 -> Nat] /\ ChunkHeader \in Nat \ {0} /\ k \in 1 .. n + 1
      /\ d <= Starts(g)[n + 1]
  BY <1>1, StartsFacts, ChunkAssumption DEF CInv, OnDisk, Pos
<1>3. CASE p >= d
  <2>1. r = [kind |-> "none", pos |-> p]
    BY <1>1, <1>3 DEF Outcomes
  <2>2. QED
    BY <1>1, <1>3, <2>1 DEF AtChunk
<1>4. CASE ~ p >= d /\ p + ChunkHeader > d
  <2>1. r = [kind |-> "raised", pos |-> d]
    BY <1>1, <1>4 DEF Outcomes
  <2>2. QED
    BY <1>1, <1>2, <1>4, <2>1 DEF AtChunk
<1>5. CASE ~ p >= d /\ ~ p + ChunkHeader > d
  <2>1. k \in 1 .. n
    <3>1. ASSUME k = n + 1 PROVE FALSE
      <4>1. d <= p
        BY <1>1, <1>2, <3>1
      <4>2. QED
        BY <1>1, <1>5, <4>1
    <3>2. QED
      BY <1>2, <3>1
  <2> DEFINE here == {i \in 1 .. Len(given[f]) : Pos(f, i) = p}
             rest == disk[f] - p - ChunkHeader
             data(i) == IF Size[given[f][i]] <= rest THEN Size[given[f][i]] ELSE rest
  <2>2. here = {k}
    <3>1. k \in here
      BY <1>1, <2>1 DEF Pos
    <3>2. ASSUME NEW i \in here PROVE i = k
      <4>1. i \in 1 .. n /\ Starts(g)[i] = p
        BY <1>1 DEF Pos
      <4>2. i \in 1 .. Len(g) + 1 /\ k \in 1 .. Len(g) + 1 /\ i \in 1 .. Len(g) /\ k \in 1 .. Len(g)
        BY <1>1, <2>1, <4>1
      <4>3. Size[g[i]] \in Nat /\ Size[g[k]] \in Nat
        BY <4>2, SizeAssumption
      <4>4. i < k => p + ChunkHeader + Size[g[i]] <= p
        BY <1>1, <4>1, <4>2, StartsGrow
      <4>5. k < i => p + ChunkHeader + Size[g[k]] <= p
        BY <1>1, <4>1, <4>2, StartsGrow
      <4>6. ~ i < k
        BY <1>1, <1>2, <4>3, <4>4
      <4>7. ~ k < i
        BY <1>1, <1>2, <4>3, <4>5
      <4>8. QED
        BY <2>1, <4>1, <4>6, <4>7
    <3>3. QED
      BY <3>1, <3>2
  <2>3. r \in {[kind |-> "data", object |-> given[f][i], size |-> data(i),
                pos |-> p + ChunkHeader + data(i)] : i \in here}
    BY <1>1, <1>5, <2>2 DEF Outcomes
  <2>4. r = [kind |-> "data", object |-> given[f][k], size |-> data(k),
             pos |-> p + ChunkHeader + data(k)]
    <3> HIDE DEF here, data
    <3>1. QED
      BY <2>2, <2>3
  <2>5. PICK s \in Nat : s = Size[g[k]]
    BY <1>1, <2>1, SizeAssumption
  <2>6. data(k) <= s
    <3>1. PICK rst \in Int : rst = rest
      BY <1>1, <1>2
    <3>2. data(k) = IF s <= rst THEN s ELSE rst
      BY <1>1, <2>5, <3>1
    <3>3. QED
      BY <3>2
  <2> HIDE DEF data, here, rest
  <2>7. r.kind = "data" /\ r.object = g[k] /\ r.size <= Size[r.object] /\ r.size = data(k)
        /\ r.pos = p + ChunkHeader + data(k)
    BY <2>4, <2>5, <2>6
  <2>8. Starts(g)[k + 1] = p + ChunkHeader + s
    BY <1>1, <2>1, <2>5, StartsFacts
  <2>9. k <= Len(g)
    BY <1>1, <2>1
  <2>10. r.size = Size[g[k]] => r.pos = Starts(g)[k + 1]
    BY <2>5, <2>7, <2>8
  <2>11. QED
    BY <2>7, <2>9, <2>10 DEF AtChunk, PartOf
<1>6. QED
  BY <1>3, <1>4, <1>5

\* In a process that has just started nothing is written and no reader is open.
LEMMA InitCInv == FileInit => CInv
<1> SUFFICES ASSUME FileInit PROVE CInv
  OBVIOUS
<1> USE DEF FileInit
<1>1. ChunkTypes
  BY DEF ChunkTypes
<1>2. OnDisk
  <2>1. ASSUME NEW f \in Files PROVE disk[f] <= Pos(f, Len(given[f]) + 1)
    <3>1. PICK c \in Seq(Objects) : c = << >> /\ Len(c) = 0
      <4>1. << >> \in Seq(Objects) /\ Len(<< >>) = 0
        OBVIOUS
      <4>2. QED
        BY <4>1
    <3>5. PICK n \in Nat : n = 0 /\ n = Len(c)
      BY <3>1
    <3>2. Starts(c)[n + 1] = HeaderSize
      <4>1. Starts(c)[1] = HeaderSize
        BY <3>5, StartsFacts
      <4>2. n + 1 = 1
        BY <3>5
      <4>3. QED
        BY <4>1, <4>2
    <3>3. disk[f] = 0 /\ given[f] = c
      BY <3>1
    <3>4. QED
      BY <3>2, <3>3, <3>5, HeaderAssumption DEF Pos
  <2>2. QED
    BY <2>1 DEF OnDisk
<1>3. ReadersRight
  BY DEF ReadersRight, NoReader
<1>4. QED
  BY <1>1, <1>2, <1>3 DEF CInv

\* The reader of a file stays right in the steps that leave it alone.
LEMMA ReaderLeft ==
  ASSUME CInv, ChunkTypes', NEW f \in Files, readers'[f] = readers[f],
         given'[f] = given[f] \/ \E o \in Objects : given'[f] = Append(given[f], o),
         disk[f] <= disk'[f],
         fpos' = fpos \/ \E s \in Seq(Nat) : fpos' = fpos \o s
  PROVE  readers'[f].open =>
           fpos' # << >> /\ ReadsRight(readers'[f], given'[f], disk'[f], fpos')
<1> SUFFICES ASSUME readers[f].open
             PROVE  fpos' # << >> /\ ReadsRight(readers[f], given'[f], disk'[f], fpos')
  OBVIOUS
<1>1. fpos # << >> /\ ReadsRight(readers[f], given[f], disk[f], fpos)
  BY DEF CInv, ReadersRight
<1>2. /\ given[f] \in Seq(Objects) /\ given'[f] \in Seq(Objects)
      /\ disk[f] \in Nat /\ disk'[f] \in Nat /\ fpos \in Seq(Nat) /\ fpos' \in Seq(Nat)
  BY DEF CInv, ChunkTypes
<1>3. readers[f] \in ChunkReader
  BY DEF CInv, ChunkTypes, NoReader
<1>4. /\ Len(fpos) \in Nat /\ Len(fpos') \in Nat /\ Len(fpos) <= Len(fpos')
      /\ \A i \in 1 .. Len(fpos) : fpos'[i] = fpos[i]
  <2>1. CASE fpos' = fpos
    BY <1>2, <2>1, LenProperties
  <2>2. CASE \E s \in Seq(Nat) : fpos' = fpos \o s
    <3>1. PICK s \in Seq(Nat) : fpos' = fpos \o s
      BY <2>2
    <3>2. /\ Len(fpos') = Len(fpos) + Len(s) /\ \A i \in 1 .. Len(fpos) : fpos'[i] = fpos[i]
      BY <1>2, <3>1, ConcatFacts
    <3>3. Len(fpos) \in Nat /\ Len(s) \in Nat
      BY <1>2, LenProperties
    <3>4. QED
      BY <3>2, <3>3
  <2>3. QED
    BY <2>1, <2>2
<1>5. fpos' # << >>
  <2>1. Len(fpos) # 0
    BY <1>1, <1>2, EmptySeq
  <2>2. Len(fpos') # 0
    BY <1>4, <2>1
  <2>3. QED
    BY <2>2
<1>6. ReadsRight(readers[f], given'[f], disk'[f], fpos')
  <2>1. PICK rd \in ChunkReader : rd = readers[f]
    BY <1>3
  <2>2. PICK g \in Seq(Objects), h \in Seq(Objects) : g = given[f] /\ h = given'[f]
    BY <1>2
  <2>3. PICK d \in Nat, e \in Nat : d = disk[f] /\ e = disk'[f]
    BY <1>2
  <2>4. ReadsRight(rd, g, d, fpos)
    BY <1>1, <2>1, <2>2, <2>3
  <2>5. h = g \/ \E o \in Objects : h = Append(g, o)
    BY <2>2
  <2>6. d <= e
    BY <2>3
  <2>7. ReadsRight(rd, h, e, fpos')
    BY <1>2, <1>4, <2>4, <2>5, <2>6, RightStays
  <2>8. QED
    BY <2>1, <2>2, <2>3, <2>7
<1>7. QED
  BY <1>5, <1>6

\* A chunk is appended; it is on disk later.
LEMMA WriteChunkKeeps ==
  ASSUME CInv, NEW f \in Files, NEW o \in Objects, WriteChunk(f, o)
  PROVE  CInv'
<1>1. /\ given' = [given EXCEPT ![f] = Append(@, o)]
      /\ disk' = disk /\ fpos' = fpos /\ readers' = readers /\ calls' = calls
  BY DEF WriteChunk
<1>2. given \in [Files -> Seq(Objects)] /\ disk \in [Files -> Nat]
  BY DEF CInv, ChunkTypes
<1>3. given'[f] = Append(given[f], o) /\ \A e \in Files : e # f => given'[e] = given[e]
  BY <1>1, <1>2
<1>4. ChunkTypes'
  <2>1. Append(given[f], o) \in Seq(Objects)
    BY <1>2, AppendProperties
  <2>2. given' \in [Files -> Seq(Objects)]
    BY <1>1, <1>2, <2>1
  <2>3. QED
    BY <1>1, <2>2 DEF CInv, ChunkTypes
<1>5. OnDisk'
  <2>1. ASSUME NEW e \in Files PROVE disk'[e] <= Pos(e, Len(given[e]) + 1)'
    <3>1. disk[e] <= Starts(given[e])[Len(given[e]) + 1]
      BY DEF CInv, OnDisk, Pos
    <3>2. CASE e # f
      BY <1>1, <1>3, <3>1, <3>2 DEF Pos
    <3>3. CASE e = f
      <4>1. PICK g \in Seq(Objects), n \in Nat : g = given[f] /\ n = Len(g)
        BY <1>2, LenProperties
      <4>2. PICK h \in Seq(Objects) : /\ h = Append(g, o) /\ Len(h) = n + 1 /\ h[n + 1] = o
                                      /\ h = given'[f]
        <5>1. Append(g, o) \in Seq(Objects) /\ Len(Append(g, o)) = Len(g) + 1
              /\ Append(g, o)[Len(g) + 1] = o
          BY AppendProperties
        <5>2. QED
          BY <1>3, <4>1, <5>1
      <4>3. PICK a \in Nat : a = Starts(g)[n + 1]
        BY <4>1, StartsFacts
      <4>4. Starts(h)[n + 1] = a
        <5>1. PICK k \in 1 .. Len(g) + 1 : k = n + 1
          BY <4>1
        <5>2. Starts(Append(g, o))[k] = Starts(g)[k]
          BY StartsStay
        <5>3. QED
          BY <4>2, <4>3, <5>1, <5>2
      <4>5. PICK m \in Nat : m = n + 1 /\ m = Len(h) /\ m \in 1 .. m
        BY <4>2
      <4>6. Starts(h)[m + 1] = Starts(h)[m] + ChunkHeader + Size[h[m]]
        BY <4>5, StartsFacts
      <4>7. Size[h[m]] \in Nat /\ ChunkHeader \in Nat /\ disk[f] \in Nat
        BY <1>2, <4>2, <4>5, SizeAssumption, ChunkAssumption
      <4>8. a <= Starts(h)[m + 1]
        BY <4>4, <4>5, <4>6, <4>7
      <4>9. Starts(h)[m + 1] \in Nat
        BY <4>3, <4>4, <4>5, <4>6, <4>7
      <4>10. disk[f] <= a
        BY <3>1, <3>3, <4>1, <4>3
      <4>11. disk[f] <= Starts(h)[m + 1]
        BY <4>7, <4>8, <4>9, <4>10
      <4>12. QED
        BY <1>1, <3>3, <4>2, <4>5, <4>11 DEF Pos
    <3>4. QED
      BY <3>2, <3>3
  <2>2. QED
    BY <2>1 DEF OnDisk
<1>6. ReadersRight'
  <2>1. ASSUME NEW e \in Files
        PROVE  readers'[e].open =>
                 fpos' # << >> /\ ReadsRight(readers'[e], given'[e], disk'[e], fpos')
    <3>1. readers'[e] = readers[e] /\ disk[e] <= disk'[e] /\ fpos' = fpos
      BY <1>1, <1>2
    <3>2. given'[e] = given[e] \/ \E x \in Objects : given'[e] = Append(given[e], x)
      BY <1>3
    <3>3. QED
      BY <1>4, <3>1, <3>2, ReaderLeft
  <2>2. QED
    BY <2>1 DEF ReadersRight
<1>7. QED
  BY <1>4, <1>5, <1>6 DEF CInv

\* More of the file is on disk.
LEMMA GrowKeeps ==
  ASSUME CInv, NEW f \in Files, Grow(f)
  PROVE  CInv'
<1>1. PICK n \in disk[f] + 1 .. Pos(f, Len(given[f]) + 1) : disk' = [disk EXCEPT ![f] = n]
  BY DEF Grow
<1>2. given' = given /\ fpos' = fpos /\ readers' = readers /\ calls' = calls
  BY DEF Grow
<1>3. given \in [Files -> Seq(Objects)] /\ disk \in [Files -> Nat]
  BY DEF CInv, ChunkTypes
<1>4. Pos(f, Len(given[f]) + 1) \in Nat
  <2>1. PICK g \in Seq(Objects), k \in Nat : g = given[f] /\ k = Len(g)
    BY <1>3, LenProperties
  <2>2. Starts(g)[k + 1] \in Nat
    BY <2>1, StartsFacts
  <2>3. QED
    BY <2>1, <2>2 DEF Pos
<1>5. n \in Nat /\ disk[f] <= n /\ n <= Pos(f, Len(given[f]) + 1)
  <2>1. PICK d \in Nat, p \in Nat : d = disk[f] /\ p = Pos(f, Len(given[f]) + 1)
    BY <1>3, <1>4
  <2>2. n \in d + 1 .. p
    BY <2>1
  <2>3. n \in Nat /\ d <= n /\ n <= p
    BY <2>2
  <2>4. QED
    BY <2>1, <2>3
<1>6. ChunkTypes'
  <2>1. disk' \in [Files -> Nat]
    BY <1>1, <1>3, <1>5
  <2>2. QED
    BY <1>2, <2>1 DEF CInv, ChunkTypes
<1>7. disk'[f] = n /\ \A e \in Files : e # f => disk'[e] = disk[e]
  BY <1>1, <1>3
<1>8. OnDisk'
  <2>1. ASSUME NEW e \in Files PROVE disk'[e] <= Pos(e, Len(given[e]) + 1)'
    <3>1. Pos(e, Len(given[e]) + 1)' = Pos(e, Len(given[e]) + 1)
      BY <1>2 DEF Pos
    <3>2. disk[e] <= Pos(e, Len(given[e]) + 1)
      BY DEF CInv, OnDisk
    <3>3. QED
      BY <1>5, <1>7, <3>1, <3>2
  <2>2. QED
    BY <2>1 DEF OnDisk
<1>9. ReadersRight'
  <2>1. ASSUME NEW e \in Files
        PROVE  readers'[e].open =>
                 fpos' # << >> /\ ReadsRight(readers'[e], given'[e], disk'[e], fpos')
    <3>1. disk[e] <= disk'[e]
      <4>1. disk[e] \in Nat
        BY <1>3
      <4>2. CASE e = f
        BY <1>5, <1>7, <4>2
      <4>3. CASE e # f
        BY <1>7, <4>1, <4>3
      <4>4. QED
        BY <4>2, <4>3
    <3>2. readers'[e] = readers[e] /\ given'[e] = given[e] /\ fpos' = fpos
      BY <1>2
    <3>3. QED
      BY <1>6, <3>1, <3>2, ReaderLeft
  <2>2. QED
    BY <2>1 DEF ReadersRight
<1>10. QED
  BY <1>6, <1>8, <1>9 DEF CInv

\* A step of the reader of file f that makes it rd.
LEMMA ReaderStep ==
  ASSUME CInv, NEW f \in Files, NEW rd \in ChunkReader,
         given' = given, disk' = disk, calls' \in Nat,
         readers' = [readers EXCEPT ![f] = rd],
         fpos' \in Seq(Nat), fpos' # << >>, fpos' = fpos \/ \E s \in Seq(Nat) : fpos' = fpos \o s,
         ReadsRight(rd, given[f], disk[f], fpos')
  PROVE  CInv'
<1>1. given \in [Files -> Seq(Objects)] /\ disk \in [Files -> Nat]
      /\ readers \in [Files -> {NoReader} \union ChunkReader]
  BY DEF CInv, ChunkTypes
<1>2. readers' \in [Files -> {NoReader} \union ChunkReader]
      /\ readers'[f] = rd /\ \A e \in Files : e # f => readers'[e] = readers[e]
  BY <1>1
<1>3. ChunkTypes'
  BY <1>1, <1>2 DEF ChunkTypes
<1>4. OnDisk'
  <2>1. ASSUME NEW e \in Files PROVE disk'[e] <= Pos(e, Len(given[e]) + 1)'
    <3>1. disk[e] <= Pos(e, Len(given[e]) + 1)
      BY DEF CInv, OnDisk
    <3>2. QED
      BY <3>1 DEF Pos
  <2>2. QED
    BY <2>1 DEF OnDisk
<1>5. ReadersRight'
  <2>1. ASSUME NEW e \in Files, e # f
        PROVE  readers'[e].open =>
                 fpos' # << >> /\ ReadsRight(readers'[e], given'[e], disk'[e], fpos')
    <3>1. readers'[e] = readers[e] /\ given'[e] = given[e] /\ disk[e] <= disk'[e]
      BY <1>1, <1>2, <2>1
    <3>2. QED
      BY <1>3, <3>1, ReaderLeft
  <2>2. ReadsRight(readers'[f], given'[f], disk'[f], fpos')
    BY <1>2
  <2>3. QED
    BY <2>1, <2>2 DEF ReadersRight
<1>6. QED
  BY <1>3, <1>4, <1>5 DEF CInv

\* What is known of an open reader.
LEMMA OpenOne ==
  ASSUME CInv, NEW f \in Files, readers[f].open
  PROVE  /\ readers[f] \in ChunkReader
         /\ given[f] \in Seq(Objects) /\ Len(given[f]) \in Nat /\ disk[f] \in Nat
         /\ fpos \in Seq(Nat) /\ fpos # << >> /\ Len(fpos) \in Nat
         /\ ReadsRight(readers[f], given[f], disk[f], fpos)
         /\ readers \in [Files -> {NoReader} \union ChunkReader]
         /\ calls \in Nat
BY LenProperties DEF CInv, ChunkTypes, ReadersRight, NoReader

\* The positions that a scan notes are where the first chunks begin.
LEMMA ScannedFacts ==
  ASSUME CInv, NEW f \in Files
  PROVE  /\ Scanned(f) \in Seq(Nat)
         /\ Headers(f) \in Nat /\ Len(Scanned(f)) \in Nat /\ Headers(f) <= Len(Scanned(f))
         /\ \A i \in 1 .. Headers(f) : Scanned(f)[i] = Starts(given[f])[i]
<1>1. PICK g \in Seq(Objects), n \in Nat : g = given[f] /\ n = Len(g)
  BY LenProperties DEF CInv, ChunkTypes
<1>2. PICK h \in Nat : h = Headers(f) /\ h <= n
  BY <1>1, HeadersFirst
<1>3. Starts(g) \in [1 .. n + 1 -> Nat]
  BY <1>1, StartsFacts
<1>4. PICK m \in Nat : m = h + (IF ScanRaises(f) THEN 1 ELSE 0) /\ h <= m /\ m <= n + 1
  BY <1>2
<1>5. Scanned(f) = [i \in 1 .. m |-> Starts(g)[i]]
  BY <1>1, <1>2, <1>4 DEF Scanned, Pos
<1>6. \A i \in 1 .. m : Starts(g)[i] \in Nat
  BY <1>3, <1>4
<1>7. Scanned(f) \in [1 .. m -> Nat]
  BY <1>5, <1>6
<1>8. Scanned(f) \in Seq(Nat) /\ Len(Scanned(f)) = m
  <2> HIDE <1>5
  <2>1. QED
    BY <1>4, <1>7, SeqDef, LenProperties
<1>9. \A i \in 1 .. h : i \in 1 .. m
  BY <1>4
<1>10. QED
  BY <1>1, <1>2, <1>4, <1>5, <1>8, <1>9

\* The state of an empty stream at the first chunk.
LEMMA StreamStarts ==
  ASSUME NEW g \in Seq(Objects), NEW res, res = << >>, NEW pos, pos = HeaderSize
  PROVE  \E c \in 0 .. Len(res) : FirstChunks(res, pos, g, c)
<1>1. PICK n \in Nat : n = Len(g)
  BY LenProperties
<1>2. Starts(g)[1] = HeaderSize
  BY <1>1, StartsFacts
<1>3. PICK c \in Nat : c = 0
  OBVIOUS
<1>4. Len(res) = 0 /\ c + 1 = 1 /\ c <= Len(g) /\ 1 .. c = {}
  BY <1>1, <1>3
<1>5. FirstChunks(res, pos, g, c)
  BY <1>2, <1>3, <1>4 DEF FirstChunks
<1>6. QED
  BY <1>3, <1>4, <1>5

\* resetfp goes back to the first chunk.
LEMMA ResetV0Keeps ==
  ASSUME CInv, NEW f \in Files, ResetFpV0(f)
  PROVE  CInv'
<1>1. /\ given' = given /\ disk' = disk /\ fpos' = fpos /\ calls' = calls + 1 /\ readers[f].open
      /\ readers' = [readers EXCEPT ![f].pos = HeaderSize, ![f].results = << >>]
  BY DEF ResetFpV0, Call
<1>2. PICK old \in ChunkReader : old = readers[f]
  BY <1>1, OpenOne
<1>3. PICK rd : rd = [old EXCEPT !.pos = HeaderSize, !.results = << >>]
  OBVIOUS
<1>4. readers' = [readers EXCEPT ![f] = rd]
  BY <1>1, <1>2, <1>3, OpenOne
<1>5. /\ rd \in ChunkReader /\ rd.results = << >> /\ rd.pos = HeaderSize
      /\ rd.first = old.first /\ rd.last = old.last
  <2>1. << >> \in Seq(Result) /\ HeaderSize \in Nat
    BY HeaderAssumption
  <2>2. PICK e \in Seq(Result), h \in Nat : e = << >> /\ h = HeaderSize
    BY <2>1
  <2>3. rd = [old EXCEPT !.pos = h, !.results = e]
    BY <1>3, <2>2
  <2>4. rd \in ChunkReader
    BY <2>3 DEF ChunkReader
  <2>5. rd.results = e /\ rd.pos = h /\ rd.first = old.first /\ rd.last = old.last
    BY <2>3 DEF ChunkReader
  <2>6. QED
    BY <2>2, <2>4, <2>5
<1>6. ReadsRight(old, given[f], disk[f], fpos) /\ given[f] \in Seq(Objects)
  BY <1>1, <1>2, OpenOne
<1>7. \E c \in 0 .. Len(rd.results) : FirstChunks(rd.results, rd.pos, given[f], c)
  BY <1>5, <1>6, StreamStarts
<1>8. ReadsRight(rd, given[f], disk[f], fpos')
  BY <1>1, <1>5, <1>6, <1>7 DEF ReadsRight
<1>9. fpos' \in Seq(Nat) /\ fpos' # << >> /\ calls' \in Nat
  BY <1>1, OpenOne
<1>10. QED
  BY <1>1, <1>4, <1>5, <1>8, <1>9, ReaderStep

\* The list of positions grows by what the scan found.
LEMMA ListGrows ==
  ASSUME CInv, NEW f \in Files, fpos' = fpos \o Scanned(f)
  PROVE  /\ fpos' \in Seq(Nat) /\ Len(fpos') \in Nat /\ Len(fpos) + Headers(f) <= Len(fpos')
         /\ \E s \in Seq(Nat) : fpos' = fpos \o s
         /\ fpos' # << >> => Last(fpos') \in Nat
         /\ \A i \in 1 .. Len(fpos) : fpos'[i] = fpos[i]
         /\ fpos = << >> => \A i \in 1 .. Headers(f) : fpos'[i] = Starts(given[f])[i]
<1>1. PICK s \in Seq(Nat) : /\ s = Scanned(f) /\ Headers(f) \in Nat /\ Headers(f) <= Len(s)
                            /\ \A i \in 1 .. Headers(f) : s[i] = Starts(given[f])[i]
  BY ScannedFacts
<1>2. fpos \in Seq(Nat) /\ Len(fpos) \in Nat /\ Len(s) \in Nat
  BY LenProperties DEF CInv, ChunkTypes
<1>3. /\ fpos' \in Seq(Nat) /\ Len(fpos') = Len(fpos) + Len(s)
      /\ \A i \in 1 .. Len(fpos) : fpos'[i] = fpos[i]
      /\ \A i \in 1 .. Len(s) : fpos'[Len(fpos) + i] = s[i]
  BY <1>1, <1>2, ConcatFacts
<1>4. fpos' # << >> => Last(fpos') \in Nat
  <2>1. ASSUME fpos' # << >> PROVE Last(fpos') \in Nat
    <3>1. Len(fpos') # 0 /\ Len(fpos') \in Nat
      BY <1>3, <2>1, EmptySeq, LenProperties
    <3>2. Len(fpos') \in 1 .. Len(fpos')
      BY <3>1
    <3>3. QED
      BY <1>3, <3>2 DEF Last
  <2>2. QED
    BY <2>1
<1>5. fpos = << >> => \A i \in 1 .. Headers(f) : fpos'[i] = Starts(given[f])[i]
  <2>1. ASSUME fpos = << >> PROVE fpos' = s
    BY <1>1, <1>2, <2>1
  <2>2. QED
    BY <1>1, <2>1
<1>6. Len(fpos) + Headers(f) <= Len(fpos') /\ Len(fpos') \in Nat
  BY <1>1, <1>2, <1>3
<1>7. \E t \in Seq(Nat) : fpos' = fpos \o t
  BY <1>1
<1>8. QED
  BY <1>3, <1>4, <1>5, <1>6, <1>7

\* Opening notes the positions; only with an empty list are the first ones those of this file.
LEMMA OpenV0Keeps ==
  ASSUME CInv, NEW f \in Files, Open(f)
  PROVE  CInv'
<1>1. /\ given' = given /\ disk' = disk /\ calls' = calls + 1 /\ ~ readers[f].open
      /\ fpos' = fpos \o Scanned(f)
      /\ readers' =
           IF ScanRaises(f) \/ fpos' = << >> THEN readers
           ELSE [readers EXCEPT ![f] =
                   [open |-> TRUE, n_entries |-> Headers(f), pos |-> HeaderSize,
                    filesize |-> FileSize(f, fpos', 0), results |-> << >>,
                    first |-> IF fpos = << >> THEN Headers(f) ELSE 0,
                    last |-> [ind |-> -1, read |-> << >>]]]
  BY DEF Open, Call
<1>2. /\ fpos' \in Seq(Nat) /\ Len(fpos') \in Nat /\ Len(fpos) + Headers(f) <= Len(fpos')
      /\ \E s \in Seq(Nat) : fpos' = fpos \o s
      /\ fpos' # << >> => Last(fpos') \in Nat
      /\ fpos = << >> => \A i \in 1 .. Headers(f) : fpos'[i] = Starts(given[f])[i]
  BY <1>1, ListGrows
<1>3. /\ given \in [Files -> Seq(Objects)] /\ disk \in [Files -> Nat] /\ calls' \in Nat
      /\ readers \in [Files -> {NoReader} \union ChunkReader]
  BY <1>1 DEF CInv, ChunkTypes
<1>4. /\ Headers(f) \in Nat /\ Headers(f) <= Len(given[f])
      /\ \A i \in 1 .. Headers(f) : Pos(f, i) + ChunkHeader <= disk[f]
  BY HeadersFirst
<1>5. CASE ScanRaises(f) \/ fpos' = << >>
  <2>1. readers' = readers
    BY <1>1, <1>5
  <2>2. ChunkTypes'
    BY <1>1, <1>2, <1>3, <2>1 DEF ChunkTypes
  <2>3. OnDisk'
    <3>1. ASSUME NEW e \in Files PROVE disk'[e] <= Pos(e, Len(given[e]) + 1)'
      <4>1. disk[e] <= Pos(e, Len(given[e]) + 1)
        BY DEF CInv, OnDisk
      <4>2. QED
        BY <1>1, <4>1 DEF Pos
    <3>2. QED
      BY <3>1 DEF OnDisk
  <2>4. ReadersRight'
    <3>1. ASSUME NEW e \in Files
          PROVE  readers'[e].open =>
                   fpos' # << >> /\ ReadsRight(readers'[e], given'[e], disk'[e], fpos')
      <4>1. readers'[e] = readers[e] /\ given'[e] = given[e] /\ disk[e] <= disk'[e]
        BY <1>1, <1>3, <2>1
      <4>2. QED
        BY <1>2, <2>2, <4>1, ReaderLeft
    <3>2. QED
      BY <3>1 DEF ReadersRight
  <2>5. QED
    BY <2>2, <2>3, <2>4 DEF CInv
<1>6. CASE ~ ScanRaises(f) /\ fpos' # << >>
  <2>1. PICK h \in Nat, g \in Seq(Objects) : h = Headers(f) /\ g = given[f]
    BY <1>3, <1>4
  <2>2. PICK size \in Nat : size = FileSize(f, fpos', 0)
    <3>1. PICK l \in Nat : l = Last(fpos')
      BY <1>2, <1>6
    <3>2. CASE h = 0
      BY <2>1, <3>1, <3>2 DEF FileSize
    <3>3. CASE h # 0
      <4>1. h \in 1 .. Len(g)
        BY <1>4, <2>1, <3>3, LenProperties
      <4>2. PICK s \in Nat : s = Size[g[h]]
        BY <4>1, SizeAssumption
      <4>3. FileSize(f, fpos', 0) = l + s
        BY <2>1, <3>1, <3>3, <4>2 DEF FileSize
      <4>4. QED
        BY <4>3
    <3>4. QED
      BY <3>2, <3>3
  <2>3. PICK first \in Nat : first = IF fpos = << >> THEN h ELSE 0
    BY <2>1
  <2>4. PICK e \in Seq(Result), es \in Nat : e = << >> /\ es = HeaderSize
    <3>1. << >> \in Seq(Result) /\ HeaderSize \in Nat
      BY HeaderAssumption
    <3>2. QED
      BY <3>1
  <2>5. PICK rd \in ChunkReader :
          /\ rd = [open |-> TRUE, n_entries |-> h, pos |-> es, filesize |-> size, results |-> e,
                   first |-> first, last |-> [ind |-> -1, read |-> e]]
          /\ rd.results = e /\ rd.pos = es /\ rd.first = first /\ rd.last.ind = -1
    <3>1. PICK l \in [ind : Int, read : Seq(Result)] : l = [ind |-> -1, read |-> e]
      <4>1. [ind |-> -1, read |-> e] \in [ind : Int, read : Seq(Result)]
        OBVIOUS
      <4>2. QED
        BY <4>1
    <3>2. PICK rd : rd = [open |-> TRUE, n_entries |-> h, pos |-> es, filesize |-> size,
                          results |-> e, first |-> first, last |-> l]
      OBVIOUS
    <3>3. rd \in ChunkReader
      BY <3>2 DEF ChunkReader
    <3>4. rd.results = e /\ rd.pos = es /\ rd.first = first /\ rd.last.ind = -1
      BY <3>1, <3>2
    <3>5. QED
      BY <3>1, <3>2, <3>3, <3>4
  <2>6. readers' = [readers EXCEPT ![f] = rd]
    BY <1>1, <1>6, <2>1, <2>2, <2>3, <2>4, <2>5
  <2>7. \E c \in 0 .. Len(rd.results) : FirstChunks(rd.results, rd.pos, g, c)
    BY <2>4, <2>5, StreamStarts
  <2>8. first <= Len(fpos') /\ first <= Len(g)
        /\ \A i \in 1 .. first : fpos'[i] = Starts(g)[i] /\ Starts(g)[i] + ChunkHeader <= disk[f]
    <3>1. CASE fpos = << >>
      <4>1. Len(fpos) = 0 /\ first = h
        BY <2>3, <3>1
      <4>2. first <= Len(fpos') /\ first <= Len(g)
        BY <1>2, <1>4, <2>1, <4>1
      <4>3. QED
        BY <1>2, <1>4, <2>1, <3>1, <4>1, <4>2 DEF Pos
    <3>2. CASE fpos # << >>
      <4>1. first = 0 /\ Len(g) \in Nat
        BY <2>3, <3>2, LenProperties
      <4>2. QED
        BY <1>2, <4>1
    <3>3. QED
      BY <3>1, <3>2
  <2>9. rd.last.ind \notin 0 .. rd.first - 1
    BY <2>5
  <2>10. ReadsRight(rd, g, disk[f], fpos')
    BY <2>5, <2>7, <2>8, <2>9 DEF ReadsRight
  <2>11. ReadsRight(rd, given[f], disk[f], fpos')
    BY <2>1, <2>10
  <2>12. QED
    BY <1>1, <1>2, <1>3, <1>6, <2>6, <2>11, ReaderStep
<1>7. QED
  BY <1>5, <1>6

\* reload scans again, and the list grows behind what is in it.
LEMMA ReloadKeeps ==
  ASSUME CInv, NEW f \in Files, Reload(f)
  PROVE  CInv'
<1>1. /\ given' = given /\ disk' = disk /\ calls' = calls + 1 /\ readers[f].open
      /\ fpos' = fpos \o Scanned(f)
      /\ readers' = [readers EXCEPT
           ![f].n_entries = @ + Headers(f),
           ![f].pos       = IF ScanRaises(f) THEN disk[f] ELSE HeaderSize,
           ![f].filesize  = IF ScanRaises(f) THEN @ ELSE FileSize(f, fpos', @),
           ![f].results   = IF ScanRaises(f) THEN << [kind |-> "raised"] >> ELSE << >>]
  BY DEF Reload, Call
<1>2. /\ fpos' \in Seq(Nat) /\ Len(fpos') \in Nat /\ Len(fpos) + Headers(f) <= Len(fpos')
      /\ \E s \in Seq(Nat) : fpos' = fpos \o s
      /\ fpos' # << >> => Last(fpos') \in Nat
      /\ \A i \in 1 .. Len(fpos) : fpos'[i] = fpos[i]
  BY <1>1, ListGrows
<1>3. PICK old \in ChunkReader, g \in Seq(Objects), d \in Nat :
        /\ old = readers[f] /\ g = given[f] /\ d = disk[f] /\ Len(g) \in Nat
        /\ ReadsRight(old, g, d, fpos) /\ fpos # << >> /\ fpos \in Seq(Nat) /\ Len(fpos) \in Nat
  BY <1>1, OpenOne
<1>4. PICK h \in Nat : h = Headers(f) /\ h <= Len(g)
  BY <1>3, HeadersFirst
<1>5. fpos' # << >> /\ Len(fpos) <= Len(fpos')
  <2>1. Len(fpos) # 0
    BY <1>3, EmptySeq
  <2>2. Len(fpos') # 0 /\ Len(fpos) <= Len(fpos')
    BY <1>2, <1>3, <1>4, <2>1
  <2>3. QED
    BY <2>2
<1>6. old.filesize \in Nat /\ old.n_entries \in Nat
  BY DEF ChunkReader
<1>7. PICK n \in Nat : n = old.n_entries + h
  BY <1>6
<1>8. PICK size \in Nat : size = IF ScanRaises(f) THEN old.filesize ELSE FileSize(f, fpos', old.filesize)
  <2>1. PICK l \in Nat : l = Last(fpos')
    BY <1>2, <1>5
  <2>2. CASE h = 0
    <3>1. FileSize(f, fpos', old.filesize) = l + old.filesize
      BY <1>4, <2>1, <2>2 DEF FileSize
    <3>2. QED
      BY <1>6, <3>1
  <2>3. CASE h # 0
    <3>1. h \in 1 .. Len(g)
      BY <1>3, <1>4, <2>3
    <3>2. PICK s \in Nat : s = Size[g[h]]
      BY <3>1, SizeAssumption
    <3>3. FileSize(f, fpos', old.filesize) = l + s
      BY <1>3, <1>4, <2>1, <2>3, <3>2 DEF FileSize
    <3>4. QED
      BY <1>6, <3>3
  <2>4. QED
    BY <2>2, <2>3
<1>9. PICK pos \in Nat : pos = IF ScanRaises(f) THEN d ELSE HeaderSize
  BY HeaderAssumption
<1>10. PICK res \in Seq(Result) : res = IF ScanRaises(f) THEN << [kind |-> "raised"] >> ELSE << >>
  <2>1. [kind |-> "raised"] \in Result
    BY DEF Result
  <2>2. << [kind |-> "raised"] >> \in Seq(Result) /\ << >> \in Seq(Result)
    BY <2>1
  <2>3. QED
    BY <2>2
<1>11. PICK rd : rd = [old EXCEPT !.n_entries = n, !.pos = pos, !.filesize = size, !.results = res]
  OBVIOUS
<1>12. /\ rd \in ChunkReader /\ rd.results = res /\ rd.pos = pos
       /\ rd.first = old.first /\ rd.last = old.last
  <2>1. rd \in ChunkReader
    BY <1>11 DEF ChunkReader
  <2>2. QED
    BY <1>11 DEF ChunkReader
<1>13. readers' = [readers EXCEPT ![f] = rd]
  <2>1. readers' = [readers EXCEPT ![f].n_entries = n, ![f].pos = pos, ![f].filesize = size,
                                   ![f].results = res]
    BY <1>1, <1>3, <1>4, <1>7, <1>8, <1>9, <1>10
  <2>2. QED
    BY <1>1, <1>3, <1>11, <2>1, OpenOne
<1>14. \E c \in 0 .. Len(res) : FirstChunks(res, pos, g, c)
  <2>1. CASE ~ ScanRaises(f)
    <3>1. res = << >> /\ pos = HeaderSize
      BY <1>9, <1>10, <2>1
    <3>2. QED
      BY <3>1, StreamStarts
  <2>2. CASE ScanRaises(f)
    <3>1. res = << [kind |-> "raised"] >>
      BY <1>10, <2>2
    <3>2. Len(res) = 1 /\ res[1].kind = "raised"
      BY <3>1
    <3>3. PICK c \in Nat : c = 0
      OBVIOUS
    <3>4. c + 1 = 1 /\ c <= Len(g) /\ 1 .. c = {} /\ c # Len(res) /\ c \in 0 .. Len(res)
      BY <1>3, <3>2, <3>3
    <3>5. PartOf(res[1], g, 1) /\ ~ AllOf(res[1], g, 1)
      BY <3>2 DEF PartOf, AllOf
    <3>6. FirstChunks(res, pos, g, c)
      BY <3>4, <3>5 DEF FirstChunks
    <3>7. QED
      BY <3>4, <3>6
  <2>3. QED
    BY <2>1, <2>2
<1>15. ReadsRight(rd, g, d, fpos')
  <2>1. /\ old.first <= Len(fpos) /\ old.first <= Len(g) /\ old.first \in Nat
        /\ \A i \in 1 .. old.first : fpos[i] = Starts(g)[i] /\ Starts(g)[i] + ChunkHeader <= d
        /\ old.last.ind \in 0 .. old.first - 1 =>
             old.last.read[1].kind = "data" /\ PartOf(old.last.read[1], g, old.last.ind + 1)
    BY <1>3 DEF ReadsRight, ChunkReader
  <2>2. old.first <= Len(fpos')
    BY <1>2, <1>3, <1>5, <2>1
  <2>3. \A i \in 1 .. old.first : i \in 1 .. Len(fpos)
    BY <1>3, <2>1
  <2>4. \A i \in 1 .. old.first : fpos'[i] = Starts(g)[i] /\ Starts(g)[i] + ChunkHeader <= d
    BY <1>2, <2>1, <2>3
  <2>5. QED
    BY <1>12, <1>14, <2>1, <2>2, <2>4 DEF ReadsRight
<1>16. ReadsRight(rd, given[f], disk[f], fpos')
  BY <1>3, <1>15
<1>17. calls' \in Nat
  BY <1>1, OpenOne
<1>18. QED
  BY <1>1, <1>2, <1>5, <1>12, <1>13, <1>16, <1>17, ReaderStep

\* read gives the next chunk or part of it, and moves to the one after it.
LEMMA ReadChunkKeeps ==
  ASSUME CInv, NEW f \in Files, ReadChunk(f)
  PROVE  CInv'
<1>1. /\ given' = given /\ disk' = disk /\ fpos' = fpos /\ calls' = calls + 1 /\ readers[f].open
  BY DEF ReadChunk, Call
<1>2. PICK r \in Outcomes(f, readers[f].pos) :
        readers' = [readers EXCEPT
          ![f].pos = r.pos,
          ![f].results = IF r.kind = "none" THEN @ ELSE Append(@, r)]
  BY DEF ReadChunk
<1>3. PICK old \in ChunkReader, g \in Seq(Objects), d \in Nat, n \in Nat :
        /\ old = readers[f] /\ g = given[f] /\ d = disk[f] /\ n = Len(g)
        /\ ReadsRight(old, g, d, fpos) /\ fpos # << >> /\ fpos \in Seq(Nat)
  BY <1>1, OpenOne
<1>4. PICK l \in Nat : /\ l = Len(old.results) /\ old.results \in Seq(Result) /\ old.pos \in Nat
                       /\ (l = 0 <=> old.results = << >>)
  <2>1. old.results \in Seq(Result) /\ old.pos \in Nat
    BY DEF ChunkReader
  <2>2. QED
    BY <2>1, LenProperties, EmptySeq
<1>5. r \in Result /\ r.pos \in Nat
  BY <1>3, <1>4, OutcomeTypes
<1>6. PICK res \in Seq(Result) : res = IF r.kind = "none" THEN old.results ELSE Append(old.results, r)
  BY <1>4, <1>5, AppendProperties
<1>7. PICK p, rd : p \in Nat /\ p = r.pos /\ rd = [old EXCEPT !.pos = p, !.results = res]
  BY <1>5
<1>8. /\ rd \in ChunkReader /\ rd.results = res /\ rd.pos = r.pos
      /\ rd.first = old.first /\ rd.last = old.last
  <2>1. rd \in ChunkReader
    BY <1>7 DEF ChunkReader
  <2>2. rd.results = res /\ rd.pos = p /\ rd.first = old.first /\ rd.last = old.last
    BY <1>7 DEF ChunkReader
  <2>3. QED
    BY <1>7, <2>1, <2>2
<1>9. readers' = [readers EXCEPT ![f] = rd]
  <2>1. readers' = [readers EXCEPT ![f].pos = r.pos, ![f].results = res]
    BY <1>1, <1>2, <1>3, <1>6, OpenOne
  <2>2. QED
    BY <1>1, <1>3, <1>7, <2>1, OpenOne
<1>10. ASSUME Straight(res)
       PROVE  \E c \in 0 .. Len(res) : FirstChunks(res, r.pos, g, c)
  <2>1. r.kind # "none" => /\ Len(res) = l + 1 /\ res[l + 1] = r
                           /\ \A i \in 1 .. l : res[i] = old.results[i]
    BY <1>4, <1>5, <1>6, AppendProperties
  <2>2. Straight(old.results)
    <3>1. CASE r.kind = "none"
      BY <1>6, <1>10, <3>1
    <3>2. CASE r.kind # "none" /\ old.results # << >>
      <4>1. 1 \in 1 .. l /\ Len(res) # 0
        BY <1>4, <2>1, <3>2
      <4>2. res # << >> /\ res[1] = old.results[1]
        BY <2>1, <3>2, <4>1, EmptySeq
      <4>3. QED
        BY <1>10, <4>2 DEF Straight
    <3>3. CASE old.results = << >>
      BY <3>3 DEF Straight
    <3>4. QED
      BY <3>1, <3>2, <3>3
  <2>3. PICK c \in 0 .. l : FirstChunks(old.results, old.pos, g, c)
    BY <1>3, <1>4, <2>2 DEF ReadsRight
  <2>4. /\ c <= n /\ \A i \in 1 .. c : AllOf(old.results[i], g, i)
        /\ c < l => PartOf(old.results[c + 1], g, c + 1) /\ ~ AllOf(old.results[c + 1], g, c + 1)
        /\ c = l => old.pos = Starts(g)[c + 1]
    BY <1>3, <1>4, <2>3 DEF FirstChunks
  <2>5. CASE c < l /\ r.kind = "none"
    <3>1. res = old.results /\ c # Len(res)
      BY <1>4, <1>6, <2>5
    <3>2. FirstChunks(res, r.pos, g, c)
      BY <1>3, <1>4, <2>4, <3>1 DEF FirstChunks
    <3>3. QED
      BY <1>4, <3>1, <3>2
  <2>6. CASE c < l /\ r.kind # "none"
    <3>1. /\ c + 1 \in 1 .. l /\ c # Len(res) /\ c \in 0 .. Len(res)
          /\ \A i \in 1 .. c : i \in 1 .. l
      BY <2>1, <2>6
    <3>2. res[c + 1] = old.results[c + 1] /\ \A i \in 1 .. c : res[i] = old.results[i]
      BY <2>1, <2>6, <3>1
    <3>3. FirstChunks(res, r.pos, g, c)
      BY <1>3, <2>4, <2>6, <3>1, <3>2 DEF FirstChunks
    <3>4. QED
      BY <3>1, <3>3
  <2>7. CASE c = l
    <3>1. PICK k \in 1 .. Len(g) + 1 : k = c + 1
      BY <1>3, <2>4
    <3>2. AtChunk(r, g, k, d)
      <4>1. old.pos = Starts(g)[k]
        BY <2>4, <2>7, <3>1
      <4>2. r \in Outcomes(f, Starts(g)[k])
        BY <1>3, <4>1
      <4>3. QED
        BY <1>3, <4>2, OutcomeAtChunk
    <3>3. CASE r.kind = "none"
      <4>1. res = old.results /\ Len(res) = c /\ r.pos = Starts(g)[c + 1]
        BY <1>4, <1>6, <2>7, <3>1, <3>2, <3>3 DEF AtChunk
      <4>2. FirstChunks(res, r.pos, g, c)
        BY <1>3, <2>4, <2>7, <4>1 DEF FirstChunks
      <4>3. QED
        BY <4>1, <4>2
    <3>4. CASE r.kind # "none"
      <4>1. /\ Len(res) = c + 1 /\ res[c + 1] = r
            /\ \A i \in 1 .. c : res[i] = old.results[i]
        BY <2>1, <2>7, <3>4
      <4>2. \A i \in 1 .. c : AllOf(res[i], g, i)
        BY <2>4, <4>1
      <4>3. PartOf(r, g, k)
        BY <3>2, <3>4 DEF AtChunk, PartOf
      <4>4. CASE ~ AllOf(r, g, k)
        <5>1. FirstChunks(res, r.pos, g, c)
          BY <1>3, <2>4, <3>1, <4>1, <4>2, <4>3, <4>4 DEF FirstChunks
        <5>2. c \in 0 .. Len(res)
          BY <4>1
        <5>3. QED
          BY <5>1, <5>2
      <4>5. CASE AllOf(r, g, k)
        <5>1. r.kind = "data" /\ r.size = Size[g[k]]
          BY <4>5 DEF AllOf
        <5>2. k <= Len(g) /\ r.pos = Starts(g)[k + 1]
          BY <3>2, <5>1 DEF AtChunk
        <5>3. \A i \in 1 .. k : AllOf(res[i], g, i)
          <6>1. \A i \in 1 .. k : i \in 1 .. c \/ i = k
            BY <3>1
          <6>2. QED
            BY <3>1, <4>1, <4>2, <4>5, <6>1
        <5>4. Len(res) = k /\ k \in 0 .. Len(res)
          BY <3>1, <4>1
        <5>5. FirstChunks(res, r.pos, g, k)
          BY <5>2, <5>3, <5>4 DEF FirstChunks
        <5>6. QED
          BY <5>4, <5>5
      <4>6. QED
        BY <4>4, <4>5
    <3>5. QED
      BY <3>3, <3>4
  <2>8. QED
    BY <2>5, <2>6, <2>7
<1>11. ReadsRight(rd, g, d, fpos)
  BY <1>3, <1>8, <1>10 DEF ReadsRight
<1>12. ReadsRight(rd, given[f], disk[f], fpos')
  BY <1>1, <1>3, <1>11
<1>13. calls' \in Nat
  BY <1>1, OpenOne
<1>14. QED
  BY <1>1, <1>3, <1>8, <1>9, <1>12, <1>13, ReaderStep

\* read_at goes where the list says, which is a chunk's place for the first reader's indices.
LEMMA ReadChunkAtKeeps ==
  ASSUME CInv, NEW f \in Files, NEW ind \in Nat, ReadChunkAt(f, ind)
  PROVE  CInv'
<1>1. /\ given' = given /\ disk' = disk /\ fpos' = fpos /\ calls' = calls + 1 /\ readers[f].open
      /\ ind < Len(fpos)
  BY DEF ReadChunkAt, Call
<1>2. PICK r \in Outcomes(f, fpos[ind + 1]) :
        readers' = [readers EXCEPT
          ![f].pos = r.pos,
          ![f].results = << [kind |-> "elsewhere"] >>,
          ![f].last = [ind |-> ind, read |-> <<r>>]]
  BY DEF ReadChunkAt
<1>3. PICK old \in ChunkReader, g \in Seq(Objects), d \in Nat, n \in Nat :
        /\ old = readers[f] /\ g = given[f] /\ d = disk[f] /\ n = Len(g)
        /\ ReadsRight(old, g, d, fpos) /\ fpos # << >> /\ fpos \in Seq(Nat) /\ Len(fpos) \in Nat
  BY <1>1, OpenOne
<1>4. r \in Result /\ r.pos \in Nat
  <2>1. ind + 1 \in 1 .. Len(fpos)
    BY <1>1, <1>3
  <2>2. fpos[ind + 1] \in Nat
    BY <1>3, <2>1
  <2>3. QED
    BY <2>2, OutcomeTypes
<1>5. PICK res \in Seq(Result) : /\ res = << [kind |-> "elsewhere"] >>
                                 /\ ~ Straight(res)
  <2>1. [kind |-> "elsewhere"] \in Result
    BY DEF Result
  <2>2. PICK e \in Result : e = [kind |-> "elsewhere"]
    BY <2>1
  <2>3. <<e>> \in Seq(Result) /\ <<e>> # << >> /\ <<e>>[1] = e
    OBVIOUS
  <2>4. QED
    BY <2>2, <2>3 DEF Straight
<1>6. PICK last \in [ind : Int, read : Seq(Result)] :
        last = [ind |-> ind, read |-> <<r>>] /\ last.ind = ind /\ last.read[1] = r
  <2>1. <<r>> \in Seq(Result) /\ <<r>>[1] = r
    BY <1>4
  <2>2. PICK one \in Seq(Result) : one = <<r>> /\ one[1] = r
    BY <2>1
  <2>3. [ind |-> ind, read |-> one] \in [ind : Int, read : Seq(Result)]
    OBVIOUS
  <2>4. QED
    BY <2>2, <2>3
<1>7. PICK p, rd : p \in Nat /\ p = r.pos /\ rd = [old EXCEPT !.pos = p, !.results = res, !.last = last]
  BY <1>4
<1>8. /\ rd \in ChunkReader /\ rd.results = res /\ rd.first = old.first /\ rd.last = last
  <2>1. rd \in ChunkReader
    BY <1>7 DEF ChunkReader
  <2>2. QED
    BY <1>7 DEF ChunkReader
<1>9. readers' = [readers EXCEPT ![f] = rd]
  <2>1. readers' = [readers EXCEPT ![f].pos = r.pos, ![f].results = res, ![f].last = last]
    BY <1>2, <1>5, <1>6
  <2>2. QED
    BY <1>1, <1>3, <1>7, <2>1, OpenOne
<1>10. /\ old.first <= Len(fpos) /\ old.first <= n /\ old.first \in Nat
       /\ \A i \in 1 .. old.first : fpos[i] = Starts(g)[i] /\ Starts(g)[i] + ChunkHeader <= d
  BY <1>3 DEF ReadsRight, ChunkReader
<1>11. ASSUME ind \in 0 .. old.first - 1
       PROVE  r.kind = "data" /\ PartOf(r, g, ind + 1)
  <2>1. PICK m \in Nat : m = old.first /\ m <= n
    BY <1>10
  <2>2. PICK k \in 1 .. n : k = ind + 1 /\ k \in 1 .. m
    BY <1>11, <2>1
  <2>3. fpos[k] = Starts(g)[k] /\ Starts(g)[k] + ChunkHeader <= d
    BY <1>10, <2>1, <2>2
  <2>4. k \in 1 .. Len(g) + 1 /\ Starts(g) \in [1 .. n + 1 -> Nat] /\ k \in 1 .. n + 1
    <3>1. Starts(g) \in [1 .. n + 1 -> Nat]
      BY <1>3, StartsFacts
    <3>2. QED
      BY <1>3, <2>2, <3>1
  <2>5. AtChunk(r, g, k, d)
    <3>1. r \in Outcomes(f, Starts(g)[k])
      BY <2>2, <2>3
    <3>2. QED
      BY <1>3, <2>4, <3>1, OutcomeAtChunk
  <2>6. PICK s \in Nat : s = Starts(g)[k]
    BY <2>4
  <2>7. ~ d <= Starts(g)[k] /\ ~ d < Starts(g)[k] + ChunkHeader
    BY <2>3, <2>6, ChunkAssumption
  <2>8. QED
    BY <2>2, <2>5, <2>7 DEF AtChunk
<1>12. ReadsRight(rd, g, d, fpos)
  BY <1>3, <1>5, <1>6, <1>8, <1>10, <1>11 DEF ReadsRight
<1>13. ReadsRight(rd, given[f], disk[f], fpos')
  BY <1>1, <1>3, <1>12
<1>14. calls' \in Nat
  BY <1>1, OpenOne
<1>15. QED
  BY <1>1, <1>3, <1>8, <1>9, <1>13, <1>14, ReaderStep

\* The invariant of protocol 0 is inductive.
LEMMA StepCInv == CInv /\ [FileNext]_<<protocol, chunkVars, vars>> => CInv'
<1> SUFFICES ASSUME CInv, [FileNext]_<<protocol, chunkVars, vars>> PROVE CInv'
  OBVIOUS
<1>1. ASSUME UNCHANGED chunkVars PROVE CInv'
  BY <1>1 DEF chunkVars, CInv, ChunkTypes, OnDisk, ReadersRight, Pos
<1>2. CASE ProtocolOne
  BY <1>1, <1>2 DEF ProtocolOne
<1>3. CASE ProtocolZero
  <2>1. PICK f \in Files :
          \/ \E o \in Objects : WriteChunk(f, o)
          \/ Grow(f)
          \/ Open(f)
          \/ Reload(f)
          \/ ReadChunk(f)
          \/ \E ind \in 0 .. MaxCalls * MaxChunks : ReadChunkAt(f, ind)
          \/ ResetFpV0(f)
    BY <1>3 DEF ProtocolZero
  <2>2. ASSUME NEW ind \in 0 .. MaxCalls * MaxChunks, ReadChunkAt(f, ind) PROVE CInv'
    <3>1. ind \in Nat
      OBVIOUS
    <3>2. QED
      BY <2>2, <3>1, ReadChunkAtKeeps
  <2>3. QED
    BY <2>1, <2>2, WriteChunkKeeps, GrowKeeps, OpenV0Keeps, ReloadKeeps, ReadChunkKeeps,
       ResetV0Keeps
<1>4. CASE UNCHANGED <<protocol, chunkVars, vars>>
  BY <1>1, <1>4
<1>5. QED
  BY <1>2, <1>3, <1>4 DEF FileNext

\* The inductive invariant of protocol 0: of every reader, the chunks it has given, the
\* position it is at, and whose positions lead the list that all readers share.
THEOREM ChunkInvariant == FileSpec => []CInv
BY InitCInv, StepCInv, PTL DEF FileSpec

\* Reading on from the beginning gives one object after the other, up to one that is cut,
\* and read_at of the reader opened first gives the object at the index.
THEOREM ChunksReadBackHolds == FileSpec => []ChunksReadBack
<1>1. ASSUME CInv, NEW f \in Files, readers[f].open
      PROVE  /\ LET res == readers[f].results
                IN  (res # << >> => res[1].kind # "elsewhere") =>
                      \A i \in DOMAIN res :
                        (\A j \in 1 .. i - 1 : IsAllOf(res[j], f, j)) => IsPartOf(res[i], f, i)
             /\ readers[f].first <= Len(fpos)
             /\ LET last == readers[f].last
                IN  last.ind \in 0 .. readers[f].first - 1 =>
                      /\ last.read[1].kind = "data"
                      /\ IsPartOf(last.read[1], f, last.ind + 1)
  <2>1. PICK rd \in ChunkReader, g \in Seq(Objects) :
          rd = readers[f] /\ g = given[f] /\ ReadsRight(rd, g, disk[f], fpos)
    BY <1>1, OpenOne
  <2>2. \A r, i : /\ PartOf(r, g, i) => IsPartOf(r, f, i)
                  /\ IsAllOf(r, f, i) => AllOf(r, g, i)
    BY <2>1 DEF IsAllOf, AllOf, IsPartOf, PartOf
  <2>3. PICK res \in Seq(Result), n \in Nat : res = rd.results /\ n = Len(res) /\ DOMAIN res = 1 .. n
    <3>1. rd.results \in Seq(Result)
      BY DEF ChunkReader
    <3>2. QED
      BY <3>1, LenProperties
  <2>4. ASSUME Straight(res), NEW i \in 1 .. n, \A j \in 1 .. i - 1 : AllOf(res[j], g, j)
        PROVE  PartOf(res[i], g, i)
    <3>1. PICK c \in 0 .. n : FirstChunks(res, rd.pos, g, c)
      BY <2>1, <2>3, <2>4 DEF ReadsRight
    <3>2. /\ \A j \in 1 .. c : AllOf(res[j], g, j)
          /\ c < n => PartOf(res[c + 1], g, c + 1) /\ ~ AllOf(res[c + 1], g, c + 1)
      BY <2>3, <3>1 DEF FirstChunks
    <3>3. CASE i <= c
      BY <3>2, <3>3 DEF AllOf
    <3>4. CASE i = c + 1
      BY <3>2, <3>4
    <3>5. CASE i > c + 1
      <4>1. c + 1 \in 1 .. i - 1 /\ c < n
        BY <3>5
      <4>2. QED
        BY <2>4, <3>2, <4>1
    <3>6. QED
      BY <3>3, <3>4, <3>5
  <2>5. rd.first <= Len(fpos)
        /\ (rd.last.ind \in 0 .. rd.first - 1 =>
              rd.last.read[1].kind = "data" /\ PartOf(rd.last.read[1], g, rd.last.ind + 1))
    BY <2>1 DEF ReadsRight
  <2>6. QED
    BY <2>1, <2>2, <2>3, <2>4, <2>5 DEF Straight
<1>2. CInv => ChunksReadBack
  BY <1>1 DEF ChunksReadBack
<1>3. QED
  BY <1>2, ChunkInvariant, PTL
===============================================================================
