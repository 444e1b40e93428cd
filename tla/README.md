# A formal model of SSDAQ

SSDAQ is the slow-signal data acquisition of a Cherenkov camera: receivers take
packets from the camera's modules and publish data on zmq sockets, subscribers
read those sockets and write files. This directory holds TLA+ models of the parts
with state, interleavings and failures, the TLC runs that check them, and theorems
about them that the TLA+ proof system checks.

- [1. The system](#1-the-system)
- [2. Modules and code](#2-modules-and-code)
- [3. Runs](#3-runs)
- [4. Fairness](#4-fairness)
- [5. Proofs](#5-proofs)
- [6. Disagreements found](#6-disagreements-found)
- [7. What is not modelled](#7-what-is-not-modelled)
- [8. Seen without a run](#8-seen-without-a-run)
- [9. Plan](#9-plan)

## 1. The system

    target modules --UDP--> SlowSignalDataProtocol --tasks--> queue
                                   |                            |
                                   v                            v
                           ReceiverMonSender         ReadoutAssembler.ct_assembler
                                                                |
                                                     publishers (zmq PUB, raw dump)
                                                                |
      BasicSubscriber (listener thread) / AsyncSubscriber (task), one queue each
                                                                |
             WriterSubscriber (writer thread) / AsyncWriterSubscriber (task)
                                                                |
             BaseFileWriter (rotation, names) -- .sof or HDF5 file writers

    triggers (UDP), time stamps, telescope data (zmq), logs (TCP)
                   |
           relay receivers --zmq PUB--> subscribers, writers, dumps, viewers
                   |
      ReceiverMonSender --zmq--> MonitorReceiver --zmq--> dash (the operator's screen)

    control-ssdaq (start, stop, restart) --pidfiles, signals--> a Daemon per receiver

| component | state | operations | what makes it hard | what makes it correct |
|---|---|---|---|---|
| SlowSignalDataProtocol | the unbounded queue | datagram_received, its put tasks | UDP loses, doubles and reorders; bad lengths and addresses | what is queued is well formed, in order of arrival |
| ReadoutAssembler | deque of partial readouts, readout count | the coroutine ct_assembler: drain, match, expire, assemble, publish | late packets, packets of several readouts, times of different modules, a bounded deque | one readout per trigger, complete up to late packets, in time order, numbered without gaps, none evicted |
| ReceiverServer | commands, coroutines, REP socket | introspection, run, command loop, publish | what is started and what only looks started | a command is answered |
| ReceiverMonSender | counters, flag | register, send each second | it reports reception, not assembling | reports what happens |
| relay receivers, log stream | the transport's buffer | callback, publish | TCP has no record boundaries | a published record is a logged one |
| concrete subscribers, writers and readers | the kind of a file | unpack, write, read by the number in the header | what is sent, written and read passes through three encodings | what is read is what was published |
| BasicSubscriber | running flag, close sockets, queue with its count of unfinished tasks | listener loop, get_data, close | flags shared by three threads without a lock; the sentinel None | no loss, no doubling, the sentinel is last |
| WriterSubscriber | running, stopping, the file | writer loop, close (soft, hard), interrupted close | close joins a thread that waits on a queue | a soft close loses nothing; a close returns |
| AsyncSubscriber, AsyncWriterSubscriber | tasks, flags, queue | receive, run, close | cancellation between an await and its result | as above |
| BaseFileWriter | counters, open file | write with rotation, close | names repeat within a minute; size tested every 100 items | every item is in some file |
| streamed object files | buffer, index of the open bunch, offsets | write, flush, close; scan, read | index read backwards from offsets; files without an end | reading gives what was written |
| HDF5 files | the table, the rows since the last flush, the reader's one array | write, flush, close; index, iterate, load | an array that is handed out and written again; a process that ends between flushes | a row read stays that row; fewer rows are lost than the buffer has |
| trigger packet formats, frame | none | pack, unpack | suppressed zeros, lazy decoding | unpack inverts pack |
| Daemon, ssdaq_control | pid file | start, stop, restart | stale pid files, reused process ids, two starts at once | one daemon per pid file; stop kills that one |
| dash | when each receiver was last heard of | take a report, time out, redraw | silence is the only sign of an end | shows what runs |
| timestampdump, slowsignaldump, viewers | counts, the last time stamp | a round of their loop | lost messages, times that jump or are missing | the rates cover the stream, gaps are counted |

The list of hazards, each at its line with the properties that cover it, is
`hazards` in PROJECT.json; the list of components with what is left out of each is
`components`.

## 2. Modules and code

### ReadoutAssembler (`ssdaq/receivers/readout_assembler.py`)

| in the model | in the code |
|---|---|
| `DatagramReceived(d)` | `datagram_received`: module number from the last octet, range and length checks, registration, `create_task(put)` |
| `puts`, `PutTask` | the put tasks, run by the event loop in the order of creation |
| `queue` | the protocol's `asyncio.Queue` |
| `pc` | where `ct_assembler` is suspended or continues: `drain`, `first`, `loop`, `assemble`, `publish`, and `dead` once an exception ended it |
| `DrainGet`, `DrainTimeout` | the two nested loops that empty the queue with `wait_for(..., timeout=0)`; both outcomes of it are allowed, since Python 3.6 and 3.7 differ |
| `FirstPacket`, `MatchNewest`, `NewPartial`, `LatePacket` | the branches on the distance between the packet's time and that of the newest partial readout |
| `EmptyPacket` | a datagram without payload passes the length test and raises when its time is read |
| `Assemble`, `AssembleFails`, `AssembleNothing`, `Publish` | the assembling loop, `assemble_readouts`, `publish` |
| `partial_ro_buff`, `DequeAppend` | `deque(maxlen=buffer_length)` with its silent eviction |
| `readouts`, `readout_count`, `published` | the assembled list, the number of the next readout, what was handed to the publishers |

A packet is the module number and the times ("tacks") of the readouts in its payload;
the sixty-four counts of a row, their conversion to millivolts and the CPU time are
left out: the row a readout takes is identified by its tack. Publishing to several
publishers is one step, as nothing in the receiver looks at a half-published readout.
Times are integers: the code turns the difference of two unsigned integers of the
packets into a float to compare it, which is exact up to 2^53 ns of difference.
`taken` is a history variable that the actions only append to.

### Subscriber (`ssdaq/core/basesubscribers.py`, `ssdaq/bin/writers.py`)

Three threads, each with a program counter: the listener (`lpc`,
`BasicSubscriber.run`), the writer (`wpc`, `WriterSubscriber.run` and `get_data`) and
the main thread (`mpc`, `WriterSubscriber.close` and `BasicSubscriber.close`). One
step is one operation another thread can observe: a put or get of the queue,
`task_done`, `empty()`, a read or a write of `_running` (the subscriber's and the
writer's are different variables: `sub_running` and `running`), a send on the close
socket. `Queue` is its list of items and its count of unfinished tasks. Messages are
numbered in the order in which they reach the SUB socket; `Malformed` are those
`unpack` raises on, which ends the listener thread, and `Rejected` those it returns
None for (`Unpack`), as `TriggerPacket.unpack` does for a wrong marker. `Unwritable`
are those on which the file writer may raise: the call of `write` is not in a `try`, so
that the exception ends the writer thread (`WriterRaises`, `wpc = "raised"`) with that
message neither written nor in the buffer. Closing the file flushes what `write` has
collected and may raise too, once such a message was given to it (`MainCloseRaises`).
Which messages these are, and why, is the business of the file: a bunch number out of
its 16 bits is in StreamedObjectFile; a full disk, or a file that cannot be opened, is
in no other module. `Close` calls close softly (the
writers' `yes` prompt) or hard (the API), and `Interrupt` is Ctrl-C in a soft close:
the close is left where it is and a hard one starts on that state. A second Ctrl-C,
which ends the main thread, is left out. `received`, `written` and `before` are
history variables; `written` has the messages for which `write` returned. That they are
in a file then is the subject of FileWriter and StreamedObjectFile.

The PAIR socket of the close message blocks without a peer, and its peer goes away
when `run` returns or raises: `MainSends` waits then, for ever.

### FileWriter (`ssdaq/core/io.py`, `BaseFileWriter`)

| in the model | in the code |
|---|---|
| `Start` | the constructor: counters set, the first file opened |
| `WriteSame(x)`, `WriteNew(x)` | `write` without and with a rotation: `data_cond` once something was written, else the size limit every `CheckEvery` data (100 in the code) |
| `Suffix(n)` | the changing part of the name: the minute for `date`, the file number for `order`, nothing otherwise; prefix, folder and extension do not change |
| `disk` | files by name: what a reader would find; opening truncates |
| `buffer` | what the open file was given and the disk has not: the bunch being collected and the file object's own buffer. How much of it reaches the disk at a write is open |
| `Close`, `Crash` | `close`; the process is killed, and `buffer` with it |
| `Tick` | the clock reaches the next minute |
| `segments` | history variable: every file that was opened, by which session, with what it was given |

Sessions follow one another in one folder, as restarts of a writer application do.
Sizes are counted in data, and `NewFileData` are the data for which `data_cond` holds
(`SSFileWriter`: the readout number is 1).

### StreamedObjectFile (`ssdaq/core/io.py`, protocol 1)

| in the model | in the code |
|---|---|
| `file` | the bytes, as pairs of a value and a byte number: what is read at a place is the value only if all of its bytes are there (`Value`) |
| `Write`, `WriteFlushes`, `WriteRaises` | `RawObjectWriterV1.write` without a flush, with one, and with one that raises because the bunch number does not fit its field |
| `Flush`, `Trailer` | the data (compressed to some length or not), the index, the trailer with its three offsets |
| `Close`, `CloseRaises` | `close`, which flushes first |
| `Killed` | the process dies; some first part of the file is on disk |
| `OpenReader`, `Bunches`, `WithEntry`, `IndexOf` | the reader's `_scan_file`: from the last trailer back to the header, with a dictionary of the bunches by their numbers, in which one found later replaces one of its number (`WithEntry`); then the index in the order of the numbers, an object at the sum of the sizes before it (`Offsets`) |
| `ReadAt`, `Read`, `ResetFp` | the reader's methods |
| `objects`, `flushes`, `stream` | history: what `write` was given, where bunches end, what `read` returned |

The reader looks at the file as long as it is when it seeks to its end, and what is
before that does not change, so a scan is one step. Where the last bytes are no
trailer they may decode to anything; the model says of such a reader that it `raised`
and nothing else. The checksums are written and never compared, and the cache of
decompressed bunches holds parts of the file that do not change: both are left out.
`HeaderSize >= TrailerSize` is assumed: 24 bytes and the extension of `CHECFileHeader`
(5 bytes and the version's text) against 34.

### EventBuilder (`ssdaq/receivers/readout_assembler.py`, abstract)

What the assembler promises to the readers of its stream: no deque with a length, no
queue, no coroutine, but a set of open events (`events`), the stream and whether the
builder works (`alive`). `Join`, `Open`, `Complete` and `Fail` are all that may happen
to them. `ReadoutAssembler` has `Promised == INSTANCE EventBuilder WITH ...`: the open
events are the members of the deque, the stream is what was published with what is
assembled and about to be, the builder works until the coroutine is `dead`.
`BuildsEvents` is `Promised!Spec`.

### AsyncWriter (`ssdaq/core/basesubscribers.py`, `ssdaq/bin/writers.py`)

| in the model | in the code |
|---|---|
| `ready`, `Callback` | the event loop's queue of callbacks, executed in order; one step is one callback, from where a coroutine was suspended to where it is suspended next |
| `Receive`, `ReceiveCancelled`, `PutItem` | `AsyncSubscriber.receive` and the put tasks it makes; a message the cancelled `recv` was resolved with is lost |
| `Run` | `AsyncWriterSubscriber.run`: the cancellation of `get` is caught and only makes it look at the flags again |
| `CallClose`, `CloseSubscriber`, `CloseWriter`, `CloseFile` | the soft close of the prompt and the hard one of Ctrl-C, from one await to the next, the two side by side when Ctrl-C comes after "yes" |
| `Stop`, `Return` | `loop.stop()` and the return of `run_forever` or `run_until_complete` |

Ctrl-C comes while the loop waits for events. `received` is what receive has passed
off, a None for a message that `unpack` raises on; `due` is what `received` was when
the soft close was called, `failed` what `write` raised on. `written` is what run is
done with: the messages in it are in the file, a None was skipped.

### RawObjectFile (`ssdaq/core/io.py`, both protocols)

Extends `StreamedObjectFile` with protocol 0 and the choice between the two. A file is
the chunks given to `write` and how many of its bytes are on disk (`Grow`); a reader
is `Open`, `Reload`, `ReadChunk`, `ReadChunkAt` and `ResetFpV0`. `fpos` is one variable
and not one of each reader: it is the default argument of `_scan_file`, one list for
the process. A scan adds to it where chunks begin (`Starts`), also where a header is cut
(`Scanned`), and raises behind that. `Outcomes` says what a read gives at any position: a
chunk, the part of it on disk, nothing at the end of the file, an exception in a header,
anything elsewhere.

### Data formats and files

`TriggerFormat` has the packets of `trigger_format.py` with their patterns as sets of
superpixels, `Pack` and `Unpack` of the four types over bits, and the tables of the
superpixels as they are in the code; `IsPacket` says what the constructors make,
`Readable` which packets `unpack` takes. `Triggered` is the sequence
of the superpixels that triggered, `Power` the powers of two of a byte. `Frame` has the two dictionaries of a frame, objects and what is still serialized, with
classes told apart by what deserialization makes of them. `SlowSignalFormat` has a
readout's bytes and the two real pixel orders. `LogStream` has logs on a TCP connection
that is cut anywhere, and what the parser makes of a piece. `DataFiles` composes them:

| in the model | in the code |
|---|---|
| `kind`, `HeaderOf`, `Unpacker` | which writer and reader a file has: the number in the header, `DataReader`'s choice by it |
| `EmitLog`, `SendWritten`, `SendRejected` | a log written to the connection; an object published, unpacked by the subscriber and written, or unpack raises and the subscriber is at its end |
| `async` | the asyncio writer, which for triggers leaves the bytes as they are |
| `PutObject`, `GetObjects`, `WriteFrame`, `ReadFrame` | `Frame.add`, `get` and `items`, `FrameWriter.write`, the reader |
| `WriteReadout`, `CloseFile`, `Crash` | `SSDataWriter`, its flush every `Buffer` rows, and the end of the process without `close` |
| `GetItem`, `NextRow`, `LoadAllData`, `data`, `held` | `SSDataReader`: every row read goes to the one array `data`; `held` are the rows its user still has, copies or that array |

`Displays` adds to a file being written the programs that look at the same stream
(`terminaldumpers.py`, `slowsignalviewer.py`), with a subscriber of their own that may
lose messages (`Lose`): `DumpTakes`, `ViewerTakes`, `ViewerUpdates` and
`SlowSignalDumpTakes` are rounds of their loops, `stats` what they keep for each type of
time stamp, with `rates` as a history of what they showed.

### Daemon and Operation (`ssdaq/utils/daemon.py`, `ssdaq/bin/ssdaq_control.py`, `ssdaq/core/receiver_server.py`, `ssdaq/receivers/mon_sender.py`, `ssdaq/bin/dash.py`)

| in the model | in the code |
|---|---|
| `owner`, `stage`, `pidfile` | processes by pid, what the pidfiles say |
| `Fork`, `WritePid`, `RunReceiver`, `RunWriter` | the double fork, the pidfile, `run`; that of a writer raises, as the writers have no attribute `loop` |
| `Refuse`, `AlreadyRuns` | `start` trusts any process with the pid in the file |
| `StopReads`, `StopKills`, `StopForbidden`, `StopSucceeds`, `StopNothing`, `StopWriter` | `stop`: the pid that was read is sent SIGTERM until there is no such process; `dw stop` sends SIGHUP once |
| `Issue`, `Skip`, `Done`, `CommandEnds` | the commands, the names they are given (`foundcmp`), restart as stop and start |
| `Die`, `Crash`, `ForeignStarts`, `ForeignEnds` | processes end; their pids are used again |
| `ReceiverRuns`, `Relay`, `RelayEnds` | the coroutines named `ct_` run, relay, and end with an exception while the loop runs on |
| `SendMon`, `Report`, `RelayReport` | `sendmon` each second, `register_data_packet`, the MonitorReceiver |
| `ScreenGets`, `ScreenTimesOut`, `ScreenRedraws`, `Render` | rounds of the screen's loop: a report, a second without, a changed terminal |
| `Tick` | half a second passes |

Commands are given one after the other and each daemon has written its pidfile before
the next command: `daq start` sleeps a second after each daemon. A report reaches the
screen, and a process comes up, within a tick.

## 3. Runs

`tlc -config X.cfg M`, each in seconds to half a minute on two workers, `operation`
in about two minutes.

| run | bounds | shows |
|---|---|---|
| assembler_events | 2 modules, 7 datagrams of 4 triggers, any 5 arrivals in any order with repetition; window 3, buffer time 8, deque of 4 | With triggers the window tells apart: every readout holds packets of one trigger and no trigger is in two (`EventBuilding`), a packet that was not late is in its readout (`OnTimeIsKept`), readouts go out in time order (`StreamInTimeOrder`). |
| assembler_irregular | 2 modules, 8 datagrams that overlap, hold no, one or two readouts, have a wrong length or come from no module; any 4 arrivals; window 2, buffer time 3 | Whatever arrives: types, the order and span of the deque (`BufferInv`), its bound (`BufferBounded`), nothing leaves before it is expired (`OnlyExpiredLeave`; the deque of this run is too long to be full, and `NoEviction` of section 5 is about every length), consecutive numbers, and that packets are taken and expired readouts published unless the coroutine ended. The assembler implements the safety of `EventBuilder` (`BuildsEvents`); that a publishing loop is not left early is `ExpiredIsPublished`. |
| assembler_late | as assembler_events | violated: one late packet ends the coroutine. |
| subscriber_close | 3 messages, the last malformed or not sent; `write` may raise on any; all interleavings | No doubling before a hard close, and no loss but the message on which `write` raised (`Pipeline`), `task_done` exactly once per item (`TasksAccounted`), order, the sentinel is last, a soft close that returns keeps everything that had arrived or, if `write` raised, everything before the message it raised on (`SoftCloseKeepsAll`), the file is quiet once closed, and the sentinel ends a soft close. |
| subscriber_hard_close | 2 messages, none malformed | violated: a hard close may never return. |
| subscriber_rejected | 2 messages, one rejected | violated: None is in the queue, and data after it. |
| filewriter_rotation | readouts 1 and 2, of which 1 starts a run; all enumerators; no size limit or one of 1, tested every 2 data; 4 data a session, 2 sessions, 2 minutes | A file that was not opened again holds what it was given, or the first part of it after a crash (`KeptUnlessReopened`); a session with numbered files never opens a name twice (`NumbersAreFresh`); a file never holds two runs (`RunsApart`). |
| filewriter_totals | as before with `date` only, 1 session, 3 minutes | violated: `close` reports more files and data than there are. |
| object_file | objects of 1 and 2 bytes, at most 4; bunches of more than 1 byte; numbers up to 1; compression to 1 or 3 bytes or none; 4 calls of `read` since a reset | A reader that could be opened has exactly the objects of the bunches that were complete, each at its index (`ReadsBack`); a file that ends with a bunch can be opened (`OpensAtBunchEnd`); a closed file has every object (`ClosedIsComplete`); `read` goes through them in order whatever `read_at` does (`StreamsInOrder`). Two files of protocol 0 in one process, 3 chunks, 4 calls of the readers: reading on gives one object after the other, and `read_at` of the reader opened first the object at the index (`ChunksReadBack`). |
| async_writer | 5 messages, the second malformed, the last not writable; one soft and one hard close at any moment | What receive has taken is in order in the file, the buffer or a put (`NothingLost`); a soft close writes what had been received when it was called (`SoftCloseKeepsAll`); the loop never stops in the middle of a close, and with the file closed unless writing raised (`StopsClosed`); nothing is written to a closed file; every close ends. |
| data_objects | 3 superpixels, bytes of 3 bits; packets of each version, one kind a file; 3 packets, readouts or pieces, 4 time stamps, 4 operations on a frame of 3 keys; tables flushed every 2 rows | Logs, time stamps and triggers are read back as published (`PacketsReadBack`), a frame stays a dictionary (`FrameReadsBack`), rows of slow signals keep numbers and pixels, all but fewer than `Buffer` after a crash (`RowsReadBack`); frequencies cover the stream (`RatesCoverStream`); gaps in the counters are counted once (`GapsAreCounted`). The tables of pixels and superpixels are permutations, the latter inverse of each other (assumptions of `MCDataFiles`, on the real tables). |
| operation | 2 receivers and a writer, 2 pids, 2 commands, 2 accidents (a daemon ends, a foreign process gets a pid, the terminal is resized); a tick is half a second | A component has one daemon at most, and its pidfile names it (`OneDaemonEach`); a stop that returned has stopped the receiver (`StoppedIsDead`); in the end the screen shows online what runs beside a running MonitorReceiver, and no data where relaying has ended (`ScreenSettles`). Deadlock is checked. |

Why the bounds are enough. Whatever the assembler does to a packet depends on the
newest and the oldest partial readout. Four triggers at distances from the window to
the buffer time and beyond give deques of one, two and three partial readouts, late
packets for each, and one or two expiries after one packet; five arrivals fill a
readout of both modules, expire it and still leave a late packet. Two modules
suffice because modules interact only by being the first of a readout or not, and
the lowest or not. Two readouts a packet reach the inner loop of `assemble_readouts`
with equal and unequal lengths. In the subscriber an item races the sentinel, the
drain of a hard close and the writer; three messages put one in the file, one in the
writer's hand and one in the queue at the same time, with the socket empty or not.

A rotation of the file writer depends on the data, on the counter modulo
`CheckEvery`, and on whether the new name is in use: four data give two rotations of
each cause in a session, and the second session meets the names of the first with the
clock moved or not, after a close or a crash.

Offsets of a bunch depend on it, on the one before and on the header. Three bunches,
of one object or two, have a first, one after a first, and one whose number does not
fit; a reader opens the file at every length of it. Two files of protocol 0 are what
the shared list needs to mix positions, three chunks put a cut one behind a whole one in
either file, and four calls are two openings, a reload and a reading.

Five messages to the asyncio writer put one in the file, one in the buffer, one in a
put that has not run, one in the hand of receive and one in the socket when a close
begins; the malformed one makes a None, the unwritable one an exception in run.

Three superpixels tell the first, a middle and the last apart, three bits a byte with
filling from one without; readout lengths of one and two bytes and one of no whole
number are among the packets. Formats have no state, so more packets a file would only
repeat. Two logs on the wire give every cut inside a log, between two, and across both.
Four time stamps of two types hold a gap, a jump of the time and one without a time.

Two pids are enough for a stale pidfile to name another component's daemon or a foreign
process. Two commands and two accidents are, among others: start, crash, the pid used
again, stop; and start, a fork that is stopped, a silence, its end on the screen. The
screen forgets after three ticks, a report comes every two.

Every property of a passing run has a mutant: a definition of the module changed as a plausible bug
would, for which the same run finds the property violated. Mutants stand before the
definition they change, with a comment that says what is changed.

## 4. Fairness

`ReadoutAssembler!FairSpec` has weak fairness of the put tasks and of the coroutine:
the asyncio loop runs every ready task in turn. It has none for the network.
`Subscriber!FairSpec` has weak fairness of each thread: the system schedules a thread
that can run. Messages, the call of close and the interrupt are nobody's duty. Weak
fairness is enough: an action of a thread, once enabled, stays enabled until the
thread moves, except a get of the main thread or of the writer when the other takes
the item, where waiting is what the code does.

`AsyncWriter!FairSpec` has weak fairness of the event loop: it executes what is ready.
Messages and closes are nobody's duty. `Operation!FairSpec` has it of each daemon's own
steps (a forked process writes its pidfile and runs, a process that got its signal
ends), of each loop's report, of the MonitorReceiver, of the screen and of the clock;
none of commands, of data, or of anything that goes wrong. Time waits for what takes
less than a tick in the code (a report on its way, a process that comes up or goes
down), so weak fairness is enough here too.

## 5. Proofs

`ReadoutAssemblerProofs` proves, for every number of modules, window, buffer time,
length of the deque and set of datagrams:

| theorem | says |
|---|---|
| `Invariance` | `Spec => []IInv`, with `IInv` the conjunction of `TypeOK`, `BufferInv` and `ConsecutiveNumbers` |
| `TypeCorrect`, `BufferInvariant`, `Numbering` | its parts |
| `Bounded` | the deque never holds more than `BufferTime \div ReadoutTw + 2` partial readouts |
| `NoEviction` | if `BufferLen` is at least that, no partial readout leaves the deque before it has expired |

The argument. Between two partial readouts `k` places apart there are at least `k`
windows (`Spread`): `NewPartial` appends only what is a window ahead of the newest one
and nothing changes a tack. All but the newest lie within the buffer time of the oldest
(`SpanBounded`), because the expiry test runs after every append and removes from the
front until it holds: at `loop` the whole deque spans at most the buffer time, so one
append more spans it up to the newest. The two together bound the length: `Len - 2`
windows fit in the buffer time. Types are needed for the arithmetic, and that the deque
is empty in `drain` and `first` and not in the other states (`NeverIndexesEmpty`) for
the first append and for indexing. `ConsecutiveNumbers` is inductive with
`PendingWhilePublishing`: assembling starts with nothing left to publish.

Assumptions: those on the constants in `ReadoutAssembler` (positive module number,
window and deque length, natural buffer time, datagrams of their type), which every
run evaluates, and `LongEnough` (`BufferLen >= BufferTime \div ReadoutTw + 2`) for
`NoEviction`.

`ReadoutAssemblerProofs` also proves, with `LongEnough`, that the assembler implements
`EventBuilder`:

| theorem | says |
|---|---|
| `AssemblerBuildsEvents` | `Spec => BuildsEvents` |

The argument is one lemma for each kind of step (`OpenRefines`, `JoinRefines`,
`CompleteRefines`, `FailRefines`, `Unseen`, `PublishUnseen`) over `IInv`. As the tacks in
the deque differ (`Spread`), an append, a pop and a change of the newest element are the
addition, the removal and the replacement of one member (`MembersAppend`,
`MembersPop`, `MembersReplace`); without `LongEnough` an append may evict, which is no
step of `EventBuilder`. Publishing moves a readout from one half of the stream to the
other and is not seen.

`DaemonProofs` proves, for every configuration of receivers and writers, all lists of
names, every set of pids and any number of commands and accidents:

| theorem | says |
|---|---|
| `DaemonInvariance` | `Spec => []DInv`, the inductive invariant of the daemons, their pidfiles and the command under way |
| `OneDaemon` | `Spec => []OneDaemonEach` |
| `StopStops` | `Spec => []StoppedIsDead` |

`OneDaemonEach` is not inductive: a fork could give a component a second daemon, if one
had forked and not written its pidfile, or if the pidfile did not name the one there is.
`DInv` adds that a daemon with a pidfile is named by it also while it is dying
(`InPidfile`), and that no command will come to the component of a daemon without
(`ForkedIsBehind`): a start goes once through different components, a stop begins when
every daemon has its pidfile. For `StoppedIsDead`, stop kills the process in the pidfile
of the receiver it is at (`KillsNamed`), so when that process is gone the daemon is.
Assumed are `DaemonAssumption` and `OperationAssumption` (a configuration has no
component twice, receivers and writers have different names), which `operation`
evaluates, and, as everywhere in the model, that commands do not run side by side.

And `ReadoutAssemblerProofs` proves what a reader of the stream relies on, when every
packet has one readout, as trigger data have, and being closer than `readout_tw` tells
which packets belong together (`Separated`: that relation is transitive on the tacks of
the datagrams):

| theorem | says |
|---|---|
| `InTimeOrder` | `Spec => []StreamInTimeOrder` |
| `EventsAreBuilt` | `Spec => []EventBuilding` |
| `OnTimePacketsAreKept` | `Spec => []OnTimeIsKept`, with `LongEnough` |

The first two hold for any length of the deque: an eviction loses packets and mixes
none. Beside `IInv` they need `EventInv`: rows hold packets that were received
(`Received`), of the trigger the readout was opened for (`PartsOfEvents`), what went out
is of that kind too and a window apart (`OutIsGood`, `OutIsApart`), and everything that
went out is a window older than everything in the deque (`OutComesFirst`). This last
part makes a late packet unable to open a readout for a trigger that is already
published. For the third, every packet on time is in a readout that went out or in the
deque (`KeepInv`); the deque is opened by packets only, so "late" can be said of
packets. `assembler_events` is an instance with `Separated` and `LongEnough`; the packets
of `assembler_irregular` may have two readouts, and these three are not about them.

`SubscriberProofs` proves, for any number of messages, whichever of them are malformed,
rejected or not writable, and all interleavings of the three threads:

| theorem | says |
|---|---|
| `TypeCorrect` | `Spec => []TypeOK` |
| `TasksAreAccounted` | `Spec => []TasksAccounted` |
| `FileInOrder` | `Spec => []WrittenInOrder` |
| `NothingIsLost` | `Spec => []Pipeline` |
| `NoWriteAfterClose` | `Spec => ClosedIsQuiet` |
| `SentinelIsLast` | `Spec => []NothingAfterNone`, if `Rejected = {}` |
| `SoftCloseKeeps` | `Spec => []SoftCloseKeepsAll`, if `Rejected = {}` |

`SInv` says where a message can be: in the file, in the writer's hand, in the buffer or
in the socket, in one of them only, and a message nearer the file is the older one
(`Ordered`). The messages of the first three are those received (`Conserved`, until a
hard close). Two sequences in order with the same members are equal, which gives
`Pipeline` without following the sequences themselves. The message on which `write`
raised counts as one in the writer's hand (`Held`): nothing moves it from there.
`Control` ties the program
counters of the threads to each other and to the flags. For a soft close, `SentinelInv`
adds that the listener puts one None, after all else (`EndsOnSentinel`), that it leaves
its loop only with everything put (`AllPut`), and that what was in the socket when close
was called is received before (`Arrived`). If the writer thread ended on the sentinel, the
buffer and its hand are empty, so that the file has what was received. If it ended on a
write that raised, all that was published is in the file, in its hand, in the buffer or
in the socket, and only the file has older messages than the one in its hand: the file
is everything before that one. `Rejected = {}` is what the listener's own
documentation takes for granted: `subscriber_rejected` shows that one rejected message
breaks `NothingAfterNone`. `subscriber_close` is an instance of all seven.

`FileWriterProofs` proves, for every choice of the enumerators, size limit and
`CheckEvery`, any set of data and any number of rotations, minutes, sessions and crashes:

| theorem | says |
|---|---|
| `FilesAreKept` | `Spec => []KeptUnlessReopened` |
| `NumbersStayFresh` | `Spec => []NumbersAreFresh` |
| `RunsStayApart` | `Spec => []RunsApart` |

In `FInv` the open file is the one of the last segment (`LastIsOpen`), sessions follow
one another, and in each of them numbered names only grow (`Counted`). With it
`KeptUnlessReopened` and `RunsApart` are inductive: a write changes the last segment
only, and a segment before it of the same name counts as reopened.

`AsyncWriterProofs` proves, for any number of messages, malformed and unwritable ones
included, with a soft and a hard close at any moment:

| theorem | says |
|---|---|
| `NothingIsLost` | `Spec => []NothingLost` |
| `SoftCloseKeeps` | `Spec => []SoftCloseKeepsAll` |
| `StopsWhenClosed` | `Spec => []StopsClosed` |
| `ClosedIsQuiet` | `Spec => QuietWhenClosed` |

`AInv` has four parts beside the types. `Control`: each task has one step in the ready
queue at most (`ReadyOnce`) and has one exactly when it is not waiting (`Scheduled`,
`Woken`), and a close waits for a task only as long as that task runs or is woken
(`Ending`, `Failing`). `Data`: the way from receive to the file (done, raised on, in the
buffer, in a put that has not run) is `received`, cut into pieces that are only moved
along, because puts run in the order in which they were made (`ArrivedInOrder`). `Flags`:
what each close has set by the point it has reached. `DueKept` is the reason why a soft
close keeps what was there: the puts that are due come before the close's own step in
the ready queue, so that by the time it looks, they have run; it then waits for run to
get to the end of them.

`ObjectFileProofs` proves, for objects of any sizes, any header that is not shorter than
a trailer, any bunch size and largest bunch number, whatever compression gives, and, for
protocol 0, any files of any chunks, cut anywhere:

| theorem | says |
|---|---|
| `FilesImplementStreamed` | `FileSpec => Spec`: files of protocol 0 leave those of protocol 1 alone |
| `ObjectFileInvariant` | `FileSpec => []OInv` |
| `ReadsBackHolds` | `FileSpec => []ReadsBack` |
| `OpensAtBunchEndHolds` | `FileSpec => []OpensAtBunchEnd` |
| `ClosedIsCompleteHolds` | `FileSpec => []ClosedIsComplete` |
| `StreamsInOrderHolds` | `FileSpec => []StreamsInOrder` |
| `ChunkInvariant` | `FileSpec => []CInv` |
| `ChunksReadBackHolds` | `FileSpec => []ChunksReadBack` |

`ReadsBack` is about any length the file may be cut to, so `OInv` has to know every byte
and not only what the writer meant. `Layout` says that bunches follow one another and
none is empty, `Writer` what the writer keeps of them (the last trailer's place and
number, the objects of the open bunch), `Bytes` which byte of data, index or trailer is
in each place, and that a byte of a trailer is in no other place. This last part is what
the scan rests on: where the last bytes decode to a trailer, the file ends with a bunch;
its `bunchoff` leads to the trailer before, as the first one's leads to the header, and
so the scan finds every bunch up to there once and ends. `Reader` says that the index it
builds has one entry for each object of those bunches, with the place and size the
object has. A bunch whose number does not fit its field leaves data in the file without
a trailer (`Writer`: only then is the file position behind the end of the last bunch),
and such a file raises when it is opened. For protocol 0, `CInv` says of each reader how
many chunks it has given whole, that it is at the next one or has met the one that is
cut, and that the beginning of the shared list has the positions of the reader that
opened its file first (`ReadsRight`); of the others nothing is claimed but that reading
on from the beginning is in order. `SizeAssumption`, `FormatAssumption`,
`HeaderAssumption` and `ChunkAssumption` are assumed, which `object_file` evaluates.

`DataFilesProofs` proves, for any number of superpixels that fills whole bytes, any pixel map,
any set of packets, logs, time stamps, objects and readouts that have the types of the
code, any number of them published, lost or cut, and crashes at any moment:

| theorem | says |
|---|---|
| `RowsAreReadBack` | `Spec => []RowsReadBack` |
| `FramesAreReadBack` | `Spec => []FrameReadsBack` |
| `PacketsAreReadBack` | `Spec => []PacketsReadBack` |
| `RatesAreCovering` | `Spec => []RatesCoverStream` |
| `GapsCounted` | `Spec => []GapsAreCounted` |

Rows. A readout is unpacked from its bytes as it was packed (`UnpackPack`, an argument on
places in a matrix). `TableInv`: the table has a first part of the readouts published, the
writer has fewer than `Buffer` of them not flushed, and what a user holds of a row taken
by its index, or of a module that was loaded, is a copy that has the mapped row, whatever is
read into the reader's one array since (`HolderRight`). Nothing is claimed of what an
iterator gave, which is that array.

Frames. `FrameInv`: what a frame has, as an object or still serialized, is what the
dictionary has under the same keys (`Mirrors`), and so for each frame in the file.

Packets. `RoundTrip`: `unpack` takes what `pack` makes of a packet and gives the packet
back if and only if it is `Readable`; one lemma for V1, where the bits of each sample are a
row, and one for V2 and V3, where each superpixel of the union has a piece of the bits.
`PublishedInv` then says that the file has an entry for each object published
up to the first that is not accepted. For logs it needs more, because a piece may begin
and end anywhere: the fields of a log always come in the same order, so those received
and those on their way go round in that order (`GoOn`), and together are a multiple of
the number of fields (`LogRight`). A piece of the connection that parses has every field,
and the last value of each; when the piece ends where a log does, these are the
values of that log, and what is read back is the piece's last log.

Displays. `DisplayInv` relates what a program keeps for a type of time stamps to what its
subscriber received of it: the counts of the frequencies and the count since
(`StampRight`), the counter of the last one received (`LastCounter`), and the gaps between
neighbours among those received (`GapsOf`). A message more changes each of these sets by
that message only, whatever was lost before it.

Assumed are `DataAssumption`, `TriggerAssumption`, `FrameAssumption`,
`SlowSignalAssumption`, `LogAssumption` and `DisplayAssumption`, which `data_objects`
evaluates. That the real tables of pixels and superpixels are the permutations these ask
for is evaluated by TLC on the tables (`MapsArePermutations`, `MapsAreInverse`).

`NumberLemmas` has what these two use in place of induction: a set of numbers that is not
empty has a least one (`LeastNumber`), from the well-foundedness of the numbers, so a
statement about all numbers is proved by its least counterexample. From it follow that a
function defined by recursion on its last argument exists (`StepByStep`), which is needed
because the prover knows of a recursive function only that it is chosen; that a
running sum is one (`RunningSum`), with its values fixed by what is summed (`SumsAgree`);
and that quotient and remainder are the row and the column of a place in a matrix
(`Division`, `Division2`).

Only model-checked: liveness (`QueueIsServed`, `ExpiredIsPublished`, `NoneEndsSoftClose`,
`CloseEnds`, `ScreenSettles`), as this prover does not reach fairness and `ENABLED`; and
what the runs of section 6 find violated. All invariants and action properties of the
other runs are stated by a theorem above.

## 6. Disagreements found

- `assembler_late`: the branch for late packets reads `pro.timestamp`, an attribute
  that partial readouts do not have. The code and its warning intend to go on without
  the packet; instead the coroutine ends, and the receiver goes on queueing packets and
  reporting data.
- `subscriber_hard_close`: the prompt of the writers promises that Ctrl-C closes the
  file immediately. `close` joins the writer thread, which waits for an item; a hard
  close can consume the sentinel, or stop the listener before it puts one.
- `subscriber_rejected`: the documentation says that a reader gets None when the
  listener has ended. `TriggerPacket.unpack` returns None for a wrong marker and the
  listener queues it like data.
- `filewriter_totals`: `close` reports how many files and events were written. Names
  with the date differ by the minute only, so a second rotation within a minute
  truncates a file that is counted.

## 7. What is not modelled

Socket and file I/O beyond order and presence, the conversion of counts, rates of the
monitor, drawing, generated protocol buffers, simulators and packaging. The
commands of the assembler are methods without a caller in the running program:
`handle_commands` is never scheduled, so the model has no command actions, and
`roa_ctrl`, which sends such commands, waits for ever.

Also left out, by part:

- the writers with threads: a second Ctrl-C, and `non_block`. Of a file that raises only
  the effect on the threads is modelled (`Unwritable`); FileWriter has no write, opening
  or closing that raises.
- the asyncio writers: a second Ctrl-C; `passoff_callback` and `non_block`, which nothing
  in the repository passes.
- object files: the compressor's argument for protocol 0 (`RawObjectWriterBase` passes it
  to a constructor that has none, which raises), the cache of decompressed bunches, the
  checksums, an empty header of protocol 0, and a scan that never ends because the bytes
  in place of the trailer say that the bunch has no length.
- formats: the byte order of the machine; the cache of imported classes by name, and
  classes of one name in two modules; the negative index of `SSDataReader`, the property
  `ssreadout` and the constructor of `ASlowSignalWriter`, which raise.
- daemons: commands that run side by side, and the moment between a fork and the
  pidfile for the next command; the list of writers and the options that change names.
- displays: `triggerdump` and the viewer of trigger patterns, which raise at the first
  packet; the viewer of slow signals, which shows the last readout.
- the query of the telescope data base, of which only the failure counts.

## 8. Seen without a run

Places where the code does something else than it seems to intend, met while modelling
and not stated as a property that fails:

- The prompt of the writers with threads says that a soft close waits for the buffered
  data to be written (`writers.py:39`). `write` is called outside of a `try`
  (`basesubscribers.py:224`): when it raises, the writer thread ends, the listener goes on
  filling the buffer, and a soft close returns with all of that unwritten.
  `SoftCloseKeepsAll` says what is in the file then, and `Pipeline` what is not.
- An asyncio writer's soft close may leave in the buffer what receive took after the call
  (`basesubscribers.py:412`): run, woken in between, finds the buffer empty and
  `stopping` set. `SoftCloseKeepsAll` is about what was received before.
- Protocol 0 (`io.py:583`): `reload` counts every entry twice; the second reader of a
  process reads the first one's positions; `filesize` leaves a chunk header out; reading
  at the end of the file gives None.
- `phase_index` (`trigger_format.py:225`) is 1 for the phases 1 and 2. A packet of type
  V3 can be read only if every superpixel triggered (`:565`).
- `dw start -d` ends after the first writer, as `daemonize` ends the process that calls
  it; writer daemons raise at once; `dw stop` returns at the first component without
  a pidfile and leaves the others'. The daemons of receivers do not remove their
  pidfiles at exit, so that a start may be refused for a process that has the pid now,
  and a stop kills that process, if it is the user's own.
- `dash` takes a redraw of the terminal for news of a receiver.
- `timestampdump` prints as "smaller" the number of time stamps that are in order
  (`terminaldumpers.py:106`), counts a trigger too many in its first frequency, and does
  not see a gap behind the counter zero.
- The viewer of slow signals draws data in reverse order against times that are not
  reversed (`slowsignalviewer.py:231`, `:257`); that of time stamps reverses both.

## 9. Plan

The modules are written: the assembler and its abstract specification, both kinds
of subscribers and writers, file writer, object files of both protocols, formats and
their files, displays, daemons and commands, the monitor. Their safety properties are
proved. What is left is `Subscriber` composed with `FileWriter`, written apart so far:
every item of the subscriber in some file, and both kinds of writers shown to implement
one abstract writer.
