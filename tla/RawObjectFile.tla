---------------------------- MODULE RawObjectFile ----------------------------
(***************************************************************************)
(* Object files of both protocols of ssdaq/core/io.py: RawObjectReaderBase *)
(* takes the reader that the version in the file asks for, and so does the *)
(* writer for the protocol it is given.  Protocol 1 is StreamedObjectFile. *)
(* In protocol 0 a file is a header and chunks, each with a chunk header;  *)
(* a reader notes the positions of the chunks when it opens the file.  The *)
(* list it notes them in is a default argument of _scan_file: all readers  *)
(* of a process share it.                                                  *)
(***************************************************************************)
EXTENDS StreamedObjectFile

CONSTANTS
  Files,        \* files of protocol 0 that one process reads
  ChunkHeader,  \* the size of a chunk header: 8
  MaxChunks,    \* bound on the chunks written
  MaxCalls      \* bound on the calls of the readers

ASSUME ChunkAssumption == ChunkHeader \in Nat \ {0} /\ {MaxChunks, MaxCalls} \subseteq Nat

VARIABLES
  protocol,  \* RawObjectWriterBase.protocol, version in the file
  given,     \* by file: what write was given
  disk,      \* by file: the number of bytes on disk
  fpos,      \* the list of positions
  readers,   \* by file: the reader, if there is one
  calls      \* history: the calls of readers

chunkVars == <<given, disk, fpos, readers, calls>>

\* Where the chunks of a file begin, and where the next one will
Starts(chunks) ==
  LET at[i \in 1 .. Len(chunks) + 1] ==
        IF i = 1 THEN HeaderSize ELSE at[i - 1] + ChunkHeader + Size[chunks[i - 1]]
  IN  at

\* Where chunk i of file f begins
Pos(f, i) == Starts(given[f])[i]

Chunks == SumFunctionOnSet([f \in Files |-> Len(given[f])], Files)

-----------------------------------------------------------------------------
(* RawObjectWriterV0 *)

WriteChunk(f, o) ==
  /\ Chunks < MaxChunks
  /\ given' = [given EXCEPT ![f] = Append(@, o)]
  /\ UNCHANGED <<protocol, disk, fpos, readers, calls, vars>>

\* The file object passes on some of what it has buffered.
Grow(f) ==
  /\ \E n \in disk[f] + 1 .. Pos(f, Len(given[f]) + 1) : disk' = [disk EXCEPT ![f] = n]
  /\ UNCHANGED <<protocol, given, fpos, readers, calls, vars>>

-----------------------------------------------------------------------------
(* RawObjectReaderV0 *)

NoReader == [open |-> FALSE]

Call ==
  /\ calls < MaxCalls
  /\ calls' = calls + 1
  /\ UNCHANGED <<protocol, given, disk, vars>>

\* The scan finds the chunks whose headers are on disk, and raises at part of one, when it
\* has noted its position.
Headers(f) == Cardinality({i \in 1 .. Len(given[f]) : Pos(f, i) + ChunkHeader <= disk[f]})
ScanRaises(f) == Pos(f, Headers(f) + 1) < disk[f]
Scanned(f) == [i \in 1 .. Headers(f) + (IF ScanRaises(f) THEN 1 ELSE 0) |-> Pos(f, i)]

\* filesize: from the last position in the list and the last size that was read
FileSize(f, positions, offset) ==
  Last(positions) + IF Headers(f) = 0 THEN offset ELSE Size[given[f][Headers(f)]]

\* An empty list of positions raises as well.  What was found stays in the list.
Open(f) ==
  /\ Call
  /\ ~ readers[f].open
  /\ disk[f] >= HeaderSize
  /\ fpos' = fpos \o Scanned(f)
  /\ readers' =
       IF ScanRaises(f) \/ fpos' = << >> THEN readers
       ELSE [readers EXCEPT ![f] =
               [open |-> TRUE, n_entries |-> Headers(f), pos |-> HeaderSize,
                filesize |-> FileSize(f, fpos', 0), results |-> << >>,
                first |-> IF fpos = << >> THEN Headers(f) ELSE 0,
                last |-> [ind |-> -1, read |-> << >>]]]

\* Mutant: the list is emptied first.
ReloadClears(f) ==
  /\ Call
  /\ readers[f].open
  /\ fpos' = Scanned(f)
  /\ readers' = [readers EXCEPT ![f].n_entries = Headers(f), ![f].results = << >>,
                                ![f].pos = HeaderSize]

\* The entries are counted on from n_entries, though the scan starts over.
Reload(f) ==
  /\ Call
  /\ readers[f].open
  /\ fpos' = fpos \o Scanned(f)
  /\ readers' = [readers EXCEPT
       ![f].n_entries = @ + Headers(f),
       ![f].pos       = IF ScanRaises(f) THEN disk[f] ELSE HeaderSize,
       ![f].filesize  = IF ScanRaises(f) THEN @ ELSE FileSize(f, fpos', @),
       ![f].results   = IF ScanRaises(f) THEN << [kind |-> "raised"] >> ELSE << >>]

\* Reading a chunk at position p: nothing at the end of the file, an exception at part
\* of a header, the part of the data that is on disk, or anything, where no chunk begins.
Outcomes(f, p) ==
  LET here == {i \in 1 .. Len(given[f]) : Pos(f, i) = p}
      data(i) == LET n == Size[given[f][i]]
                     rest == disk[f] - p - ChunkHeader
                 IN  IF n <= rest THEN n ELSE rest
  IN  IF p >= disk[f] THEN {[kind |-> "none", pos |-> p]}
      ELSE IF p + ChunkHeader > disk[f] THEN {[kind |-> "raised", pos |-> disk[f]]}
      ELSE IF here = {}
      THEN {[kind |-> "garbage", pos |-> q] : q \in p + ChunkHeader .. disk[f]}
      ELSE {[kind |-> "data", object |-> given[f][i], size |-> data(i),
             pos |-> p + ChunkHeader + data(i)] : i \in here}

ReadChunk(f) ==
  /\ Call
  /\ readers[f].open
  /\ \E r \in Outcomes(f, readers[f].pos) :
       readers' = [readers EXCEPT
         ![f].pos = r.pos,
         ![f].results = IF r.kind = "none" THEN @ ELSE Append(@, r)]
  /\ UNCHANGED fpos

\* read_at moves the position of read too.  Beyond the list it raises.
ReadChunkAt(f, ind) ==
  /\ Call
  /\ readers[f].open
  /\ ind < Len(fpos)
  /\ \E r \in Outcomes(f, fpos[ind + 1]) :
       readers' = [readers EXCEPT
         ![f].pos = r.pos,
         ![f].results = << [kind |-> "elsewhere"] >>,
         ![f].last = [ind |-> ind, read |-> <<r>>]]
  /\ UNCHANGED fpos

ResetFpV0(f) ==
  /\ Call
  /\ readers[f].open
  /\ readers[f].results # << >>
  /\ readers' = [readers EXCEPT ![f].pos = HeaderSize, ![f].results = << >>]
  /\ UNCHANGED fpos

-----------------------------------------------------------------------------

FileInit ==
  /\ Init
  /\ protocol \in {0, 1}
  /\ protocol = 0 => ~ compress
  /\ given = [f \in Files |-> << >>]
  /\ disk = [f \in Files |-> 0]
  /\ fpos = << >>
  /\ readers = [f \in Files |-> NoReader]
  /\ calls = 0

ProtocolOne ==
  /\ protocol = 1
  /\ Next
  /\ UNCHANGED <<protocol, chunkVars>>

ProtocolZero ==
  /\ protocol = 0
  /\ \E f \in Files :
       \/ \E o \in Objects : WriteChunk(f, o)
       \/ Grow(f)
       \/ Open(f)
       \/ Reload(f)
       \/ ReadChunk(f)
       \/ \E ind \in 0 .. MaxCalls * MaxChunks : ReadChunkAt(f, ind)
       \/ ResetFpV0(f)

FileNext == ProtocolOne \/ ProtocolZero

FileSpec == FileInit /\ [][FileNext]_<<protocol, chunkVars, vars>>
-----------------------------------------------------------------------------
(* Properties *)

\* r is what can be read of object i of file f: all of it, or what was on disk.
IsPartOf(r, f, i) ==
  \/ r.kind = "data" /\ i <= Len(given[f]) /\ r.object = given[f][i] /\ r.size <= Size[r.object]
  \/ r.kind = "raised"
IsAllOf(r, f, i) == r.kind = "data" /\ IsPartOf(r, f, i) /\ r.size = Size[given[f][i]]

\* Protocol 0, while the file grows and other files are opened and reloaded in the same
\* process: reading on from the beginning gives one object after the other, up to one
\* that is cut; and read_at of the reader that was opened first gives the object at
\* the index, for the indices there were then.  (For other readers and later indices
\* the shared list has positions of other files, and reload doubles the entries.)
ChunksReadBack ==
  \A f \in Files :
    readers[f].open =>
      /\ LET res == readers[f].results
         IN  (res # << >> => res[1].kind # "elsewhere") =>
               \A i \in DOMAIN res :
                 (\A j \in 1 .. i - 1 : IsAllOf(res[j], f, j)) => IsPartOf(res[i], f, i)
      /\ readers[f].first <= Len(fpos)
      /\ LET last == readers[f].last
         IN  last.ind \in 0 .. readers[f].first - 1 =>
               /\ last.read[1].kind = "data"
               /\ IsPartOf(last.read[1], f, last.ind + 1)
=============================================================================
