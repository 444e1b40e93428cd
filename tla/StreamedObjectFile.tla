------------------------- MODULE StreamedObjectFile -------------------------
(***************************************************************************)
(* The indexed container file of ssdaq/core/io.py, protocol 1: the writer  *)
(* RawObjectWriterV1 collects objects to bunches and ends each bunch with  *)
(* an index and a trailer; the reader RawObjectReaderV1 finds the bunches  *)
(* from the end of the file, by the offsets in the trailers.  A reader may *)
(* open the file while it is written, or after the writer was killed.      *)
(*                                                                         *)
(* A file is a sequence of bytes; a byte is a pair <<value, i>>: byte i of *)
(* the encoding of the value.                                              *)
(***************************************************************************)
EXTENDS Integers, Sequences, SequencesExt, Functions

CONSTANTS
  Objects,          \* serialized objects
  Size,             \* their lengths in bytes
  BunchSize,        \* a bunch of more bytes than this is flushed
  HeaderSize,       \* of the file header with its extension
  TrailerSize,      \* of a bunch trailer: 34
  IndexSize,        \* of an object's two fields in the index: 8
  MaxBunch,         \* the largest bunch number a trailer can hold: 2^16 - 1
  CompressedSizes,  \* the lengths compression may give
  MaxObjects,       \* bound on the objects written
  MaxReads          \* bound on the calls of read

ASSUME SizeAssumption == Size \in [Objects -> Nat]
ASSUME FormatAssumption ==
  /\ BunchSize \in Nat
  /\ IndexSize \in Nat \ {0}
  /\ MaxBunch \in Nat
  /\ CompressedSizes \subseteq Nat \ {0}
\* Holds for the writers of the package: 24 bytes and an extension of 5 bytes and
\* the version's text.  A file with a shorter header and no object in it could not
\* be opened for reading: the seek to its trailer goes beyond its beginning.
ASSUME HeaderAssumption ==
  /\ TrailerSize \in Nat \ {0}
  /\ HeaderSize \in Nat
  /\ HeaderSize >= TrailerSize
ASSUME BoundsAssumption == {MaxObjects, MaxReads} \subseteq Nat

VARIABLES
  \* the writer
  state,          \* "open", "closed", "killed", or "failed": close raised
  compress,       \* fixed by the configuration
  buffer,         \* objects of the bunch being collected (_buffer, _cbunchindex)
  cbunchoffset,   \* their bytes
  fp,             \* bytes written
  last_bunch_fp,  \* where the last trailer begins; 0 before the first
  bunch_number,
  file,
  objects,        \* history: what write was given; data_counter is its length
  flushes,        \* history: where each bunch ends, objects up to there
  \* the reader
  opened,         \* "no", "open", "raised"
  seen,           \* the file's length when the reader opened it
  index,          \* where each object is
  current_index,
  got,            \* the object read last and where it is in the file
  stream          \* history: what read returned since the last resetfp

writerVars == <<state, compress, buffer, cbunchoffset, fp, last_bunch_fp,
                bunch_number, file, objects, flushes>>
readerVars == <<opened, seen, index, current_index, got, stream>>
vars == <<writerVars, readerVars>>

Cells(value, n) == [i \in 1 .. n |-> <<value, i>>]

ObjectBytes(o) == Cells([object |-> o], Size[o])
Raw(objs) == FlattenSeq([i \in DOMAIN objs |-> ObjectBytes(objs[i])])
Header == Cells([header |-> TRUE], HeaderSize)

\* The value the n bytes of f after the first p encode, if they do encode one
Value(f, p, n) ==
  IF p >= 0 /\ p + n <= Len(f) /\ n > 0 /\ SubSeq(f, p + 1, p + n) = Cells(f[p + 1][1], n)
  THEN f[p + 1][1]
  ELSE [garbage |-> TRUE]

-----------------------------------------------------------------------------
(* The writer *)

StoredForms(objs) ==
  IF compress THEN {Cells([compressed |-> Raw(objs)], k) : k \in CompressedSizes}
              ELSE {Raw(objs)}

IndexBytes(objs) ==
  Cells([sizes |-> [i \in DOMAIN objs |-> Size[objs[i]]]], Len(objs) * IndexSize)

\* Mutant: the offset counts from the end of the last trailer.
TrailerFromEnd(at, n) ==
  [bunchoff |-> at - (last_bunch_fp + TrailerSize), dataoff |-> at - fp, fileoff |-> at,
   ndata |-> n, bunch_n |-> bunch_number]

\* Mutant: the bunch number wraps.
TrailerWraps(at, n) ==
  [bunchoff |-> at - last_bunch_fp, dataoff |-> at - fp, fileoff |-> at,
   ndata |-> n, bunch_n |-> bunch_number % MaxBunch]

\* The trailer of a bunch of n objects that begins at fp, the trailer at at
Trailer(at, n) ==
  [bunchoff |-> at - last_bunch_fp, dataoff |-> at - fp, fileoff |-> at,
   ndata |-> n, bunch_n |-> bunch_number]

Flush(objs) ==
  \E stored \in StoredForms(objs) :
    LET body == stored \o IndexBytes(objs)
        at   == fp + Len(body)
    IN  /\ bunch_number <= MaxBunch
        /\ file' = file \o body \o Cells(Trailer(at, Len(objs)), TrailerSize)
        /\ fp' = at + TrailerSize
        /\ last_bunch_fp' = at
        /\ bunch_number' = bunch_number + 1
        /\ buffer' = << >>
        /\ cbunchoffset' = 0
        /\ flushes' = Append(flushes, [end |-> at + TrailerSize, count |-> Len(objects')])

\* The number does not fit the trailer: packing it raises when data and index are
\* already written.
FlushRaises(objs) ==
  \E stored \in StoredForms(objs) :
    LET body == stored \o IndexBytes(objs)
    IN  /\ bunch_number > MaxBunch
        /\ file' = file \o body
        /\ fp' = fp + Len(body)
        /\ buffer' = objs
        /\ UNCHANGED <<last_bunch_fp, bunch_number, flushes>>

Given(o) ==
  /\ state = "open"
  /\ Len(objects) < MaxObjects
  /\ objects' = Append(objects, o)
  /\ UNCHANGED <<state, compress, readerVars>>

Write(o) ==
  /\ Given(o)
  /\ cbunchoffset + Size[o] <= BunchSize
  /\ buffer' = Append(buffer, o)
  /\ cbunchoffset' = cbunchoffset + Size[o]
  /\ UNCHANGED <<fp, last_bunch_fp, bunch_number, file, flushes>>

WriteFlushes(o) ==
  /\ Given(o)
  /\ cbunchoffset + Size[o] > BunchSize
  /\ Flush(Append(buffer, o))

WriteRaises(o) ==
  /\ Given(o)
  /\ cbunchoffset + Size[o] > BunchSize
  /\ FlushRaises(Append(buffer, o))
  /\ cbunchoffset' = cbunchoffset + Size[o]

\* Mutant: close without flush.
CloseUnflushed ==
  /\ state = "open"
  /\ state' = "closed"
  /\ UNCHANGED <<compress, buffer, cbunchoffset, fp, last_bunch_fp, bunch_number, file,
                 objects, flushes, readerVars>>

Close ==
  /\ state = "open"
  /\ state' = "closed"
  /\ UNCHANGED <<compress, objects, readerVars>>
  /\ \/ /\ buffer # << >>
        /\ Flush(buffer)
     \/ /\ buffer = << >>
        /\ UNCHANGED <<buffer, cbunchoffset, fp, last_bunch_fp, bunch_number, file, flushes>>

\* flush raises and the file is not closed.
CloseRaises ==
  /\ state = "open"
  /\ buffer # << >>
  /\ FlushRaises(buffer)
  /\ state' = "failed"
  /\ UNCHANGED <<compress, cbunchoffset, objects, readerVars>>

\* The process is killed: the operating system has got some first part of the file,
\* at least what a reader has seen.
Killed ==
  /\ state \in {"open", "failed"}
  /\ state' = "killed"
  /\ \E n \in seen .. Len(file) : file' = SubSeq(file, 1, n)
  /\ UNCHANGED <<compress, buffer, cbunchoffset, fp, last_bunch_fp, bunch_number, objects,
                 flushes, readerVars>>

-----------------------------------------------------------------------------
(* The reader *)

\* The objects of a bunch whose trailer t follows its index
BunchEntry(t, sizes) ==
  [bunch_n |-> t.bunch_n, start |-> t.fileoff - t.dataoff,
   bunchsize |-> t.dataoff - t.ndata * IndexSize, sizes |-> sizes]

\* Where the objects of a bunch begin in it (np.cumsum)
Offsets(sizes) ==
  LET at[i \in DOMAIN sizes] == IF i = 1 THEN 0 ELSE at[i - 1] + sizes[i - 1]
  IN  at

\* Where each object of a bunch is in the file
Located(bunch) ==
  [i \in DOMAIN bunch.sizes |->
     [start |-> bunch.start, bunchsize |-> bunch.bunchsize,
      offset |-> Offsets(bunch.sizes)[i], size |-> bunch.sizes[i]]]

\* The dictionary with an entry under a number, unless it has one
WithEntry(d, n, e) == [m \in DOMAIN d \cup {n} |-> IF m \in DOMAIN d THEN d[m] ELSE e]

\* _rawindex: the bunches by number, from the trailer at position p back to the header;
\* "torn" if what is there is no trailer.  A bunch found later replaces one with its
\* number.
Bunches(f, p) ==
  LET back[q \in 0 .. Len(f)] ==
        IF q <= HeaderSize THEN [torn |-> FALSE, found |-> << >>]
        ELSE LET t == Value(f, q, TrailerSize)
             IN  IF "bunchoff" \notin DOMAIN t \/ q - t.bunchoff \notin 0 .. Len(f)
                 THEN [torn |-> TRUE, found |-> << >>]
                 ELSE LET i == Value(f, q - t.ndata * IndexSize, t.ndata * IndexSize)
                          rest == back[q - t.bunchoff]
                      IN  [torn  |-> rest.torn,
                           found |-> WithEntry(rest.found, t.bunch_n, BunchEntry(t, i.sizes))]
  IN  back[p]

\* _index: the objects in the order of the bunches' numbers
IndexOf(found) ==
  LET numbers == DOMAIN found
      sorted == CHOOSE s \in [1 .. Cardinality(numbers) -> numbers] :
                  \A i, j \in DOMAIN s : i < j => s[i] < s[j]
  IN  FlattenSeq([k \in DOMAIN sorted |-> Located(found[sorted[k]])])

\* What read_at returns: from the decompressed bunch, or straight from the file
ObjectAt(entry) ==
  IF compress
  THEN LET c == Value(file, entry.start, entry.bunchsize)
       IN  SubSeq(c.compressed, entry.offset + 1, entry.offset + entry.size)
  ELSE SubSeq(file, entry.start + entry.offset + 1, entry.start + entry.offset + entry.size)

\* The reader sees the file as long as it is now on disk: all of it once it is
\* closed.  Bytes that are no trailer can decode to anything, the scan then raises,
\* loops or finds what is not there: nothing is said of such a reader.
OpenReader ==
  /\ opened = "no"
  /\ \E n \in (IF state \in {"open", "failed"} THEN 0 .. Len(file) ELSE {Len(file)}) :
       LET f == SubSeq(file, 1, n)
           scan == Bunches(f, n - TrailerSize)
       IN  /\ seen' = n
           /\ IF n >= HeaderSize /\ ~ scan.torn
              THEN opened' = "open" /\ index' = IndexOf(scan.found)
              ELSE opened' = "raised" /\ index' = index
  /\ UNCHANGED <<writerVars, current_index, got, stream>>

\* Mutant: the position of read moves too.
ReadAtMoves(ind) ==
  /\ opened = "open"
  /\ ind < Len(index)
  /\ got' = [ind |-> ind, bytes |-> ObjectAt(index[ind + 1])]
  /\ current_index' = ind + 1
  /\ UNCHANGED <<writerVars, opened, seen, index, stream>>

ReadAt(ind) ==
  /\ opened = "open"
  /\ ind < Len(index)
  /\ got' = [ind |-> ind, bytes |-> ObjectAt(index[ind + 1])]
  /\ UNCHANGED <<writerVars, opened, seen, index, current_index, stream>>

Read ==
  /\ opened = "open"
  /\ current_index < MaxReads
  /\ current_index' = current_index + 1
  /\ \/ /\ current_index < Len(index)
        /\ got' = [ind |-> current_index, bytes |-> ObjectAt(index[current_index + 1])]
        /\ stream' = Append(stream, ObjectAt(index[current_index + 1]))
     \/ /\ current_index >= Len(index)   \* IndexError, and the position has moved on
        /\ UNCHANGED <<got, stream>>
  /\ UNCHANGED <<writerVars, opened, seen, index>>

ResetFp ==
  /\ opened = "open"
  /\ current_index' = 0
  /\ stream' = << >>
  /\ UNCHANGED <<writerVars, opened, seen, index, got>>

-----------------------------------------------------------------------------

Init ==
  /\ state = "open"
  /\ compress \in BOOLEAN
  /\ buffer = << >>
  /\ cbunchoffset = 0
  /\ fp = HeaderSize
  /\ last_bunch_fp = 0
  /\ bunch_number = 0
  /\ file = Header
  /\ objects = << >>
  /\ flushes = << >>
  /\ opened = "no"
  /\ seen = 0
  /\ index = << >>
  /\ current_index = 0
  /\ got = [ind |-> -1, bytes |-> << >>]
  /\ stream = << >>

Next ==
  \/ \E o \in Objects : Write(o) \/ WriteFlushes(o) \/ WriteRaises(o)
  \/ Close
  \/ CloseRaises
  \/ Killed
  \/ OpenReader
  \/ \E ind \in 0 .. MaxObjects - 1 : ReadAt(ind)
  \/ Read
  \/ ResetFp

Spec == Init /\ [][Next]_vars
-----------------------------------------------------------------------------
(* Properties *)

\* Objects in the bunches that end within the first n bytes
CountAt(n) ==
  LET whole == {k \in DOMAIN flushes : flushes[k].end <= n}
  IN  IF whole = {} THEN 0 ELSE flushes[CHOOSE k \in whole : \A j \in whole : j <= k].count

\* A reader that could be opened, at whatever moment and however the writer ended,
\* has exactly the objects of the bunches that were complete then, and the object it
\* returns for an index is the one that write was given in that place.
ReadsBack ==
  opened = "open" =>
    /\ Len(index) = CountAt(seen)
    /\ got.ind >= 0 => got.bytes = ObjectBytes(objects[got.ind + 1])

\* A file that ends with its header or with a bunch can be opened, also while it is
\* written, and after its writer was killed.
OpensAtBunchEnd ==
  seen \in {HeaderSize} \cup {flushes[k].end : k \in DOMAIN flushes} => opened # "raised"

\* A closed file has every object that write was given.
ClosedIsComplete ==
  state = "closed" /\ opened # "no" /\ seen = Len(file) =>
    opened = "open" /\ Len(index) = Len(objects)

\* read returns the objects one after the other, whatever read_at is called between.
StreamsInOrder ==
  /\ Len(stream) <= current_index
  /\ \A i \in DOMAIN stream : stream[i] = ObjectBytes(objects[i])
=============================================================================
