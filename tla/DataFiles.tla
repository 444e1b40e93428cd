------------------------------ MODULE DataFiles ------------------------------
(***************************************************************************)
(* What becomes of an object from its publisher to the reader of a file:   *)
(* the unpack functions of ssdaq/subscribers.py, the writers and readers   *)
(* of ssdaq/data/_ioimpl.py, and the formats of ssdaq/data/_dataimpl.      *)
(*                                                                         *)
(* A file has objects of one kind.  Of the logs, time stamps and triggers  *)
(* that are published, a subscriber makes objects and its writer writes    *)
(* them, one entry each, behind a header with the number of the kind;      *)
(* frames are written and read by a program of the user's, each to a file  *)
(* here; of slow signals a subscriber makes readouts, and its writer the   *)
(* rows of an HDF5 table, which are flushed by number.  Logs come to their *)
(* publisher in the pieces that one TCP connection delivers, time stamps   *)
(* are numbered by type.  The threads and tasks of the subscribers are in  *)
(* Subscriber and AsyncWriter, the blocks of a file in StreamedObjectFile. *)
(***************************************************************************)
EXTENDS TriggerFormat, Frame, SlowSignalFormat, LogStream

CONSTANTS
  Packets,    \* the trigger packets published
  Logs,       \* the logs that programs write, records with the LogFields
  Stamps,     \* the time stamps, [type, time]; their event counters come here
  Objects,    \* the objects put in frames, [cls, val]
  Readouts,   \* the readouts of slow signals
  Map,        \* one of the two ss_mappings: the pixel at each place
  Precision,  \* a float32 keeps the numbers that are a multiple of it
  Buffer,     \* buffer of SSDataWriter: rows between two flushes
  MaxObjects, \* bound: packets, readouts and pieces published, frames written
  MaxStamps,  \* bound: time stamps published
  MaxSteps    \* bound: operations on the frame in hand, rows held

ASSUME DataAssumption ==
  /\ Buffer \in Nat \ {0}
  /\ Precision \in Nat \ {0}
  /\ \A p \in Packets : IsPacket(p) /\ CanPack(p)
  /\ \A o \in Objects : o.cls \in Classes
  /\ \A r \in Readouts : IsReadout(r)
  /\ Len(Map) = N_TM_PIX /\ Range(Map) = 0 .. N_TM_PIX - 1

VARIABLES
  kind,    \* the kind of the file
  wire,    \* the fields of logs on their way to the LogReceiver
  async,   \* whether the writer is one of the asyncio writers
  sent,    \* history: the objects published, the dictionaries of the frames written
  file,    \* the entries of the file, or the rows of the table
  alive,   \* whether the subscriber's thread or task still runs
  frame,   \* the frame in hand
  dict,    \* history: what was put in it, or in the one it was read from
  steps,   \* operations on it, bounded; the rows read
  flushed, \* rows flushed to the table
  reading, \* whether the file was closed and a reader opened it
  data,    \* SSDataReader's row: every row read is put there
  held     \* the rows of the table that the reader's user holds

dataVars == <<kind, wire, async, sent, file, alive, frame, dict, steps, flushed, reading, data, held>>

streamed == <<alive, wire>>
framed == <<frame, dict, steps>>
tabled == <<flushed, reading, data, held>>

Streams == {"log", "timestamp", "trigger"}
Kinds == Streams \union {"frame", "slowsignal"}

\* Kinds with an asyncio writer.  The constructor of ASlowSignalWriter raises: its
\* subscriber has no attribute context.
AsyncKinds == {"timestamp", "trigger"}

DataInit ==
  /\ kind \in Kinds
  /\ async \in (IF kind \in AsyncKinds THEN BOOLEAN ELSE {FALSE})
  /\ wire = <<>> /\ sent = <<>> /\ file = <<>> /\ alive = TRUE
  /\ frame = EmptyFrame /\ dict = EmptyDict /\ steps = 0
  /\ flushed = 0 /\ reading = FALSE /\ data = <<>> /\ held = {}

-----------------------------------------------------------------------------
(* Encoding and decoding, by kind *)

Encode(k, o) ==
  [as |-> k, bytes |-> CASE k = "trigger" -> Pack(o)
                         [] k = "log"     -> LogPiece(o)
                         [] OTHER         -> o]

\* The parser of another kind's bytes: what it makes of them is no object of the file.
Decode(k, raw) ==
  IF raw.as # k THEN Raised
  ELSE CASE k = "trigger" -> Unpack(raw.bytes)
         [] k = "log"     -> IF Parseable(raw.bytes) THEN Got(Parse(raw.bytes)) ELSE Raised
         [] OTHER         -> Got(raw.bytes)

\* CHECFileHeader's number of a kind, and DataReader's choice by that number
HeaderOf(k) == CASE k = "log" -> 1 [] k = "timestamp" -> 2 [] k = "trigger" -> 3 [] k = "frame" -> 4

Unpacker(n) == <<"log", "timestamp", "trigger", "frame">>[n]

\* DataReader.read_at
ReadEntry(i) == Decode(Unpacker(HeaderOf(kind)), file[i])

-----------------------------------------------------------------------------
(* The streams: a published object goes through the subscriber to the file. *)

\* What the subscriber's unpack makes of the bytes
Unpacked(raw) == Decode(kind, raw)

\* A trigger message of the time stamps: its counter is the number of those of its type.
NextStamps ==
  {[type |-> s.type, time |-> s.time,
    event_counter |-> Cardinality({i \in DOMAIN sent : sent[i].type = s.type})] : s \in Stamps}

Publishable ==
  CASE kind = "trigger"   -> Packets
    [] kind = "log"       -> Pieces(wire)
    [] kind = "timestamp" -> NextStamps
    [] OTHER              -> {}

\* What the publisher has in hand: of logs bytes already
Published(o) == IF kind = "log" THEN [as |-> kind, bytes |-> o] ELSE Encode(kind, o)

\* A program writes a log to the connection; bound: while another log may be on it.
EmitLog(log) ==
  /\ kind = "log" /\ alive /\ Len(wire) <= Len(LogFields)
  /\ wire' = wire \o MakePickle(log)
  /\ UNCHANGED <<kind, async, sent, file, alive, framed, tabled>>

Publish(o) ==
  /\ alive /\ Len(sent) < (IF kind = "timestamp" THEN MaxStamps ELSE MaxObjects)
  /\ sent' = Append(sent, o)
  /\ wire' = IF kind = "log" THEN SubSeq(wire, Len(o.fields) + 1, Len(wire)) ELSE wire
  /\ UNCHANGED <<kind, async, framed, tabled>>

\* The subscriber makes an object of the bytes, the writer bytes of the object; with
\* ATriggerWriter both leave the bytes as they are.
SendWritten(o) ==
  /\ Publish(o)
  /\ LET raw == Published(o)
         got == Unpacked(raw)
     IN  \/ kind = "trigger" /\ async /\ file' = Append(file, raw)
         \/ /\ kind # "trigger" \/ ~ async
            /\ got.kind = "object"
            /\ file' = Append(file, Encode(kind, got.object))
  /\ UNCHANGED alive

\* unpack raises and ends the thread or the task that receives.
SendRejected(o) ==
  /\ Publish(o)
  /\ kind # "trigger" \/ ~ async
  /\ Unpacked(Published(o)).kind = "raised"
  /\ alive' = FALSE
  /\ UNCHANGED file

-----------------------------------------------------------------------------
(* Frames *)

PutObject(k, o) ==
  /\ kind = "frame" /\ steps < MaxSteps
  /\ frame' = Add(frame, k, o)
  /\ dict' = Add([objects |-> dict], k, o).objects
  /\ steps' = steps + 1
  /\ UNCHANGED <<kind, async, sent, file, streamed, tabled>>

\* get, [], and items up to an object that cannot be deserialized
GetObjects(ks) ==
  /\ kind = "frame"
  /\ ks \subseteq Untouched(frame)
  /\ frame' = DeserializeAt(frame, ks)
  /\ UNCHANGED <<kind, async, sent, file, dict, steps, streamed, tabled>>

WriteFrame ==
  /\ kind = "frame" /\ Len(file) < MaxObjects
  /\ Serializable(frame)
  /\ frame' = Items(frame)
  /\ file' = Append(file, [as |-> kind, bytes |-> Serialize(frame)])
  /\ sent' = Append(sent, dict)
  /\ UNCHANGED <<kind, async, dict, steps, streamed, tabled>>

ReadFrame(i) ==
  /\ kind = "frame" /\ steps < MaxSteps
  /\ CanDeserialize(file[i].bytes)
  /\ frame' = Deserialize(file[i].bytes)
  /\ dict' = sent[i]
  /\ steps' = steps + 1
  /\ UNCHANGED <<kind, async, sent, file, streamed, tabled>>

-----------------------------------------------------------------------------
(* Slow signals: SSDataWriter and SSDataReader *)

Single(r) ==
  [r EXCEPT !.data = [tm \in DOMAIN @ |-> [pix \in DOMAIN @[tm] |-> @[tm][pix] - (@[tm][pix] % Precision)]]]
Mapped(r) == [r EXCEPT !.data = MapPixels(@, Map)]

\* A readout is published, SSReadout.from_bytes makes one of the bytes, which is written.
WriteReadout(r) ==
  /\ kind = "slowsignal" /\ ~ reading /\ Len(file) < MaxObjects
  /\ sent' = Append(sent, r)
  /\ file' = Append(file, Single(UnpackReadout(PackReadout(r))))
  /\ flushed' = IF Len(file) + 1 - flushed >= Buffer THEN Len(file) + 1 ELSE flushed
  /\ UNCHANGED <<kind, async, reading, data, held, streamed, framed>>

\* close_file flushes.
CloseFile ==
  /\ kind = "slowsignal" /\ ~ reading
  /\ reading' = TRUE
  /\ flushed' = Len(file)
  /\ UNCHANGED <<kind, async, sent, file, data, held, streamed, framed>>

\* The writer's process ends without close_file: of the rows in the buffers of the
\* library any may be in the file.
Crash ==
  /\ kind = "slowsignal" /\ ~ reading
  /\ reading' = TRUE
  /\ \E n \in flushed .. Len(file) :
       /\ file' = SubSeq(file, 1, n)
       /\ flushed' = n
  /\ UNCHANGED <<kind, async, sent, data, held, streamed, framed>>

\* A row that somebody holds: a copy of his own, or the reader's array
Shared == <<>>
ValueOf(h) == IF h.own = Shared THEN data.data ELSE h.own

\* Mutant: the array is not copied.
ItemShared(i) == [at |-> i, by |-> "item", own |-> Shared]

Item(i) == [at |-> i, by |-> "item", own |-> Mapped(file[i]).data]

\* load_all_data: of each row, the pixels of a module before they are mapped
Loaded(tm) ==
  [at |-> tm, by |-> "load_all_data",
   own |-> [i \in DOMAIN file |-> [place \in DOMAIN Map |-> file[i].data[tm][Map[place] + 1]]]]

ReadRow(i) ==
  /\ kind = "slowsignal" /\ reading /\ steps < MaxSteps
  /\ data' = Mapped(file[i])
  /\ steps' = steps + 1

\* reader[i]; a negative index raises AttributeError.
GetItem(i) ==
  /\ ReadRow(i)
  /\ held' = held \union {Item(i)}
  /\ UNCHANGED <<kind, async, sent, file, flushed, reading, frame, dict, streamed>>

\* A step of an iterator over rows: it yields the array itself.
NextRow(i) ==
  /\ ReadRow(i)
  /\ held' = held \union {[at |-> i, by |-> "iterator", own |-> Shared]}
  /\ UNCHANGED <<kind, async, sent, file, flushed, reading, frame, dict, streamed>>

LoadAllData(tm) ==
  /\ file # <<>>
  /\ ReadRow(Len(file))
  /\ held' = held \union {Loaded(tm)}
  /\ UNCHANGED <<kind, async, sent, file, flushed, reading, frame, dict, streamed>>

-----------------------------------------------------------------------------
DataNext ==
  \/ \E log \in Logs : EmitLog(log)
  \/ \E o \in Publishable : SendWritten(o)
  \/ \E o \in Publishable : SendRejected(o)
  \/ \E k \in Keys, o \in Objects : PutObject(k, o)
  \/ \E ks \in SUBSET Keys \ {{}} : GetObjects(ks)
  \/ WriteFrame
  \/ \E i \in DOMAIN file : ReadFrame(i)
  \/ \E r \in Readouts : WriteReadout(r)
  \/ CloseFile
  \/ Crash
  \/ \E i \in DOMAIN file : GetItem(i)
  \/ \E i \in DOMAIN file : NextRow(i)
  \/ \E tm \in 1 .. N_TM : LoadAllData(tm)

-----------------------------------------------------------------------------
(* Properties *)

\* The fields in the first i pieces of a stream of logs
FieldsUpTo(stream, i) ==
  LET number == [j \in 1 .. i |-> Len(stream[j].fields)]
      sum[j \in 1 .. i + 1] == IF j = 1 THEN 0 ELSE sum[j - 1] + number[j - 1]
  IN  sum[i + 1]

\* The last log in a piece that ends where a log does
EndsLog(i) ==
  /\ ~ sent[i].torn
  /\ FieldsUpTo(sent, i) % Len(LogFields) = 0
  /\ Len(sent[i].fields) >= Len(LogFields)
LastLog(i) ==
  LET fields == sent[i].fields
  IN  [f \in Range(LogFields) |->
         LET at == CHOOSE j \in DOMAIN LogFields : LogFields[j] = f
         IN  fields[Len(fields) - Len(LogFields) + at].value]

\* What the reader of entry i must get, if there is anything to say of it
Expected(i) ==
  CASE kind = "trigger"   -> IF Readable(sent[i]) THEN {sent[i]} ELSE {}
    [] kind = "log"       -> IF EndsLog(i) THEN {LastLog(i)} ELSE {}
    [] kind = "timestamp" -> {sent[i]}

\* The entries of a file of logs, time stamps or triggers are the objects published, in
\* order, until the first that the subscriber cannot unpack; and DataReader, which chooses
\* its unpack function by the header, gives each back: triggers equal in their patterns,
\* phase and union, unless unpack takes no packet of the kind (Readable, V3 above all),
\* and of a piece of the logs' connection that ends with a log, however many it has and
\* wherever it begins, this log.
PacketsReadBack ==
  kind \in Streams =>
    /\ Len(file) >= Len(sent) - (IF alive THEN 0 ELSE 1)
    /\ \A i \in DOMAIN file :
         /\ kind = "trigger" => (Readable(sent[i]) \/ async)
         /\ \A o \in Expected(i) : ReadEntry(i) = Got(o)

\* A frame is a dictionary, whatever was deserialized of it and however often it was
\* written and read: get gives the last object put at a key, if its class can be restored,
\* also after an object of the frame that was read is replaced.
FrameReadsBack ==
  kind = "frame" =>
    /\ FrameKeys(frame) = DOMAIN dict
    /\ \A k \in DOMAIN dict :
         dict[k].cls \in Restorable => GetFrom(frame, k) = <<dict[k]>>

\* A table has the readouts written, in order, numbers and pixels, all of them when closed
\* and all but fewer than Buffer when the writer's process ended; what reader[i] gave stays
\* the mapped row i while other rows are read, and load_all_data gives a module's pixels
\* of every row, mapped as those of reader[i].
RowsReadBack ==
  kind = "slowsignal" =>
    /\ \A i \in DOMAIN file : file[i] = Single(sent[i])
    /\ flushed > Len(sent) - Buffer
    /\ \A h \in held : h.by = "item" => ValueOf(h) = Mapped(Single(sent[h.at])).data
    /\ \A h \in held : h.by = "load_all_data" =>
         h.own = [i \in DOMAIN file |-> Mapped(Single(sent[i])).data[h.at]]
=============================================================================
