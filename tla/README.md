# ohmysockets in TLA+

The program is a TCP client and a TCP server written in C.  The client reads
16-bit numbers from a file, puts 700 of them into a packet with a number, a
time stamp and an MD5 of the data, and writes 200 such packets to the server.
The server's main thread reads packets from any number of connections, checks
the MD5 and pushes each packet on a ring of 16; a worker thread pulls them and
prints them.  This directory holds models of it, the TLC configurations that
check them, and proofs for TLAPS.

## Inventory

| component | state | operations | talks to |
|---|---|---|---|
| circular buffer, `server/circular_buffer.c` | `data`, `push_index`, `pull_index`, `is_dirty`, a mutex | `cb_create`, `cb_push`, `cb_pull`, `cb_current_length` | called by both server threads |
| server threads, `server/main.c` 28-53 and 153-186 | the mutex, the condition, each thread's place and packet, the heap | decode, check, push, signal, report; wait, pull, report, free | share the ring, the mutex, the condition and the packets |
| select loop, `server/main.c` 93-151 and 194-218 | `active_fd_set`, `read_fd_set`, `maxfd`, the buffer, the connections | select, accept, `read_not_less_than`, close | hands each packet to the previous component, in the same thread |
| network codec, `common/network` | none (a packet and a byte buffer) | `network_encode_packet`, `network_decode_packet` | called by the client and the main thread |
| helpers, `common/helper` | a position in the csv file, `errno` | the csv reader, `helper_flip_bytes`, the clock, `helper_parse_port` | called by the client, the codec and both mains |
| client, `client/main.c` | the packet, its encoding, the loop counters | connect, number, fill, hash, encode, write, report | sends a byte stream to the select loop |
| mbedtls 2.16.6, `common/lib` | a hashing context on the stack | `mbedtls_md5_ret` is all the program calls | client and main thread |

What is hard in it, and what makes each part correct:

* *The ring* has equal indices when it is empty and when it is full, drops the
  oldest packet when it overflows, and frees what the slot it writes still
  holds.  It is correct if it is a first-in first-out queue that drops the
  oldest packet, with no pointer left behind in a slot.
* *The threads* pass ownership of heap memory through the ring.  Correct means
  no packet is freed twice, leaked, or read after it was freed; no push is
  slept through; packets are processed in the order of arrival; the receiving
  thread always gets back to its connections.
* *The select loop* cuts byte streams into packets of 1426 bytes, with one
  buffer and one thread for all connections, while numbers of sockets are
  reused and reads time out after 50 ms.  Correct means what is handed over is
  a packet the peer sent, whole, once and in order; only peers that stall in
  the middle of a packet are dropped; `select` watches exactly the open
  connections; every complete packet is read in the end.
* *The whole server* runs from bytes of several peers to the lines that the
  worker prints.  Correct means that it takes each peer's packets in order, once
  and as they were sent, keeps the newest when it is too slow, and catches up.
* *The codec* must give back what was encoded, on hosts of either byte order,
  and stay inside its buffer, which it does not.
* *The csv reader* must return the numbers of the file, round and round, and
  stay inside its own array of six characters.
* *The client* reuses one packet for all, while the codec garbles what lies
  behind its buffer.  Correct means that every packet on the wire is the right
  run of the file, with its number and MD5, all the same, and that the exit
  code tells whether all were written.
* *MD5* is fed 1400 bytes, 56 modulo 64, where its padding starts to take one
  block more.

The hazards, each at its line, are listed in `PROJECT.json`.

## Modules

| module | models | proved about in |
|---|---|---|
| `CircularBuffer` | `circular_buffer.c`: the fields, and one operator per function, as a relation between state, arguments and result | `RingLemmas` |
| `DropOldestQueue` | the abstract queue the ring promises | `BufferProofs` |
| `BufferCalls` | any sequence of calls on the ring | `BufferProofs` |
| `ServerThreads` | the two threads, around the ring of `CircularBuffer` | `ThreadProofs` |
| `SelectLoop` | the receiving loop, the kernel's file table and the peers | `SelectProofs` |
| `Server` | the whole server: `SelectLoop` and `ServerThreads` joined in the main thread | `ServerProofs` |
| `PacketLog` | what the server promises its peers: the specification that `Server` implements | `ServerProofs` |
| `FlipBytes` | the loop of `helper_flip_bytes` | `FlipProofs` |
| `NetworkCodec` | `network.c`: both functions as maps on the bytes of memory | `CodecProofs` |
| `CsvReader` | the two csv functions of `helper.c`, one character per step | `ClientProofs` |
| `Md5` | `mbedtls_md5_ret` and what it calls, down to the blocks | `ClientProofs` |
| `Client` | `main` of the client, with `CsvReader`'s steps in it; `MCClient` gives it files | `ClientProofs` |

`CircularBuffer` has no next-state relation of its own.  Its operators are used
twice: `BufferCalls` turns each into an action that records the call and its
results, so that TLC and TLAPS can compare them with `DropOldestQueue`;
`ServerThreads` puts them into the steps of the threads.

**CircularBuffer.** An operation is one step, because `cb->mutex` is held from
its first line to its last.  The failures of that mutex are kept: a lock that
fails returns early and does nothing (`LockFails`); an unlock that fails reports
an error after the work is done and leaves the mutex `"stuck"`, after which
every other operation blocks (`Locked`).  `Uninitialised` is what `malloc` may
leave in the slots, `{NULL}` where memory is fresh from the kernel, with
`Garbage` otherwise.  `Count`, `Slot` and `Contents` are not in the code: they
say what the fields stand for.

**ServerThreads.** `MainStart` is `main` up to its loop: the calls that set up
the listening socket fail as one and end the program, and the creation of the
worker, whose result nobody looks at, may fail by itself. From there on a step
is a pthread call, a ring call, a printf or the two frees, so the threads
interleave at every place where they can affect each other. Packets are numbered
in the order in which the main thread reads them; `heap` says what has become of
each one's memory, and holds the verdict of the MD5 while it is allocated.
`pthread_cond_wait` is three steps: it releases the mutex and waits
(`WorkerWait`), is woken by a signal or spuriously (`MainSignal`,
`WorkerSpurious`), and takes the mutex again (`WorkerWake`). Reading memory that
was freed yields the old contents or anything else (`Lines`); freeing an
uninitialised pointer ends the process. When `main` returns the worker can still
run until the process is gone (`MainExit`).

**SelectLoop.** Nobody connects before `Start` has the server listen. The peers
connect, send bytes in pieces of any size, close or reset at any point. The scan
of the code, from 0 to `maxfd`, is one step for each socket that `select`
reported, the lowest first. `Read` is one `read`: it returns what has arrived,
up to the chunk asked for, and writes at the offset reached, so that `buffer`
keeps older bytes exactly where the code does. `ReadFails` is its end of stream,
its error, and the 50 ms timeout, which may strike whenever there is nothing to
read. A new socket gets the lowest free number above the listening socket, which
is 3 in a process started with its three standard streams. The rest of the
loop's body is the one step `Deliver`; `ServerThreads` is that step in detail.

`ReadFails` is also the close that follows it in `main`: bytes that arrive
between the failing `read` and the close count as never sent, so what
`OnlyStalledPeersDropped` and `EveryPacketRead` say of a connection holds at the
moment when the read gave up. A connection refused at main.c:126 never becomes
one of `files`, and the first of these says nothing of it. `StaysInService`
presumes that the limit on open files is above `FD_SETSIZE`: under a lower one,
such as the usual 1024, `accept` fails when the files run out and the server
exits (main.c:121).

**Server.** The main thread is in one of the two modules at a time.  `Receive` is a
step of the loop alone.  When it has a whole packet in its buffer (`loop_pc` is
`"deliver"`), `Decode` takes the packet out of the buffer as it is then, `Handle`
goes on with the steps of `ServerThreads`, and the last of them is at the same
time `SelectLoop`'s `Deliver` (`Handled`).  The worker interleaves with all of it,
the reading included.  `decoded` remembers the bytes that each packet was decoded
from, and `Origin` finds the peer's packet that they are.

**PacketLog.** A peer sends whole packets (`complete`); the server takes the next
one of a peer (`taken`) into a queue of `Capacity`, at the expense of the oldest;
and it reports the head of the queue.  In the refinement a packet is taken at
`MainPush`; the loop counts it in `delivered` at `MainPrint`, and `Pushed` makes up
for the time between, which does not end when an unlock fails and `main` returns with
its packet on the ring (`OnRing`).  The queue is the ring together with the packet
the worker is about to print, so that a report is `WorkerPrint`.

A log that `MayStop` is what is left of the promise when the ring's mutex can fail to
be unlocked (`"unlock" \in Faults`): the server is `stopped` when the mutex is stuck,
takes and reports nothing after that, and may have lost one packet (`Lose`), the one
that `cb_pull` took out of its slot and did not return.  `DropOldestQueue` has the
same two states: the call whose unlock fails reports an error, has had its effect,
and is the last that has one (`Ends`).

**FlipBytes.** A step is an iteration of the loop.  The indices are unsigned:
for a length of 0 the right one starts at `UINT_MAX`, and what keeps the loop
from touching the buffer is that the left one is not below the length.

**NetworkCodec.** A field is a function from the offsets of its bytes in its
host's memory.  The encoder writes into `memory`, which goes on behind the
packet as far as the data loop reaches (`Reach`): that loop counts *words* up to
the number of *bytes* of the data (`DataLoopEnd`, line 24).  It therefore runs
over the place of the MD5, which is written afterwards, and over as many bytes
behind the packet as the data has, less the MD5.  `helper_get_system_endian` is
the byte order `order` of a host.  `helper_flip_bytes` is the operator `Flip`
here; `FlipBytes` shows that its loop computes that.

**CsvReader and Client.** Like `CircularBuffer`, `CsvReader` has no next-state
relation: `Client` includes its steps in `Fill`.  The file is a sequence of
characters, made from a list of numbers with or without an end of line after
the last (`Csv`); the numbers are values of `int16_t` (`FileAssumption`).
`Store`, `Skip` and `Convert` are what `helper.c:32-45` does with a
character, `fgetc` and the `fseek` at the end of the file included (`Advance`).
A number of six characters leaves the array unterminated, and `strtoul` then reads
whatever is behind it (`Readings`).  `Client` has a step for what comes before
`main`'s loop, and one for each call in the loop's body.  A `write` may fail, or kill
the client by SIGPIPE where the server has dropped the connection.  `Encode` copies the packet to the wire and then garbles
what the compiler put behind `result_packet_buffer` (`layout`): the packet, as
gcc does at `-O2`; the local variables with the socket, as at `-O0`; or neither.

**Md5.** The context has the code's fields, and `mbedtls_md5_update_ret` and
`mbedtls_md5_finish_ret` do to `total` and `buffer` what the code does.  A block that
is compressed (`mbedtls_internal_md5_process`) is appended to `state`: two messages
have the same digest here only if the same blocks were compressed.  The two
words of the length take one place each in a block.  `MD5` is the definition of
the algorithm, which does not mention a context.  `update` is modelled whole,
although the program calls it once per message: a message in two pieces is what
tests its `left` and `fill`.

## Runs

| run | asks | bounds |
|---|---|---|
| `buffer_calls` | Do indices, flag and slots agree, and is the ring a drop-oldest queue? | 3 slots, 4 packets, locks and unlocks may fail; all reachable states |
| `buffer_length` | Is the length of a full ring its length? **No.** | 3 slots, 2 packets |
| `buffer_garbage` | Does a push free only packets, with slots that malloc left dirty? **No.** | 3 slots, 2 packets |
| `server_threads` | Ownership, wakeups, order, drops, whatever fails; does every packet get released, and does the main thread always return to `select`? | 7 packets through 3 slots, spurious wakeups at any time; the start, the creation of the worker, malloc, MD5, locks and unlocks may fail |
| `server_reports` | Are the packets that main reports those it received? **No.** | 2 packets, 3 slots |
| `server` | Does the whole server implement `PacketLog`, and does it catch up with its peers? | 2 peers, 2 packets of 2 bytes between them and in any pieces, a ring of 1; the start, MD5 and unlocks may fail |
| `select_loop` | Framing, fd sets, who is dropped; is every whole packet read? | 2 peers, packets of 2 bytes, up to 2 packets and a half each |
| `select_limits` | Do the fd sets, the framing and the service survive more connections than fit, while calls fail? | 3 peers, room for one connection, 3 bytes each, reads of 1 byte |
| `flip_bytes` | Does the loop reverse the buffer and stay inside? | all buffers of up to 6 bytes of three values |
| `codec` | Is what is decoded what was encoded, between hosts of equal and of different byte orders? | all packets of 2 words, microtime and MD5 of 2 bytes, two values of a byte |
| `codec_overrun` | Does encoding write only the packet? **No.** | the same |
| `client` | Do the packets on the wire carry the file, are they numbered and hashed, does the exit code tell, does the client end, does `md5.c` pad as MD5 demands? | 2 batches of 2 packets of 3 numbers; 23 files of up to 3 numbers, with and without an end of line; three layouts; every call may fail; blocks of 8 bytes, messages of up to 24 bytes in two pieces |

Why these bounds are enough.  The ring's code compares and wraps two indices;
three slots have a first, a middle and a last one, and seven packets take both
indices around the ring twice, through overflow at each slot.  In the server,
what matters of `PACKETS_BUFFER_SIZE` is whether the ring is empty, partly
filled or full.  In `server` what matters is what crosses from one part into
another: two packets, from one peer or from two, with a ring that holds one of
them, meet in the buffer, on the ring and in the worker's hands; a single slot
already overflows.  The parts by themselves have larger bounds in their own runs.
For the select loop, two-byte packets have a boundary inside
and a boundary at the end, reads of one byte and of several are covered by two
runs, and two peers suffice for one's bytes to meet the other's.  Three peers
with room for one exercise refusal, reuse of the number, and waiting in the
backlog.  In the codec, two words show a swap that pairs the wrong bytes, and
the overrun reaches exactly over the MD5 and beyond; the lengths that matter in
the flips are even and odd, one and none, and the proofs cover the rest.  The
client's packets of three numbers end inside, at and beyond the end of a file
of one, two or three numbers, so that a packet starts at every place of a file.
The six bytes of such a packet are to a block of 8 with two places for the length
what 1400 bytes are to a block of 64 with eight: the first length that needs
another block.  Words count to 16, so that 24 bytes carry into the upper one.

What the four violations show:

* `LengthIsCount`: with equal indices and `is_dirty` set, `cb_current_length`
  returns 1 (line 109) where the comment at line 67 sees an overflow.  The
  worker only asks whether the length is 0.
* `FreesOnlyPackets`: `cb_create` never clears the slots, and the first
  push into each slot frees what it finds (lines 76-80).
* `ReceivedReportsPackets`: `main.c:184-185` read the packet after the mutex
  was released at line 179; if the worker is quick, it was freed.
* `EncodeStaysInside`: on a little endian host the loop at `network.c:24` swaps
  the bytes of 1384 bytes behind `result_packet_buffer`.  `client` shows what
  becomes of it.  Where the socket's number is swapped, the first write fails.
  Where the packet is, everything on the wire is still right, because each field
  is written again before the next packet is encoded; only the line printed at
  `main.c:78` is wrong, and says `Sent: #256` for packet 1.

Three limits.  Between hosts of different byte orders only the numbers survive
(`NumbersSurvive`), not the MD5's verification: it is computed over the data in the
sender's byte order, and compared with one over the data in the receiver's.  The
array of `helper.c:27` has no room for the terminating NUL of -32768: that number
may be read as another one, which `WireCarriesFile` allows for such a number
alone.  And `mbedtls_md5_update_ret` cuts the length of a piece to 32 bits before it
looks for a carry, so `DigestIsMd5` is about pieces that a word can count.

## Fairness

`ServerThreads` assumes weak fairness of each thread: a thread that can take a
step, blocked by no mutex, takes one. That is what a preemptive scheduler gives.
A lock of a mutex that is held need not return, not with an error either. A
thread that waits for the mutex needs no more than that here, because the worker
waits on the condition, mutex released, whenever the ring is empty. Packets need
not arrive. Spurious wakeups are allowed at any time but not for ever, or the
worker might keep the mutex busy without doing anything; and so are failures to
lock the ring's own mutex in the worker (`RingLockFails`), which make it go
round without pulling anything. Once a call has failed for good (`Failed`: a
thread has ended, or the ring is stuck) the liveness properties promise nothing
more. `Server` has the same fairness of its two threads. `SelectLoop` assumes
weak fairness of the main thread; the 50 ms receive timeout is a step of that
thread, which is what makes a silent peer harmless. The code does not check that
`setsockopt` set it: where it fails, nothing is promised. Peers have no
fairness: they may stop anywhere. `Client` assumes weak fairness of the client's
one thread; `write` may block only as long as the server does not read, and a
server that never reads is outside the model.

## Proofs

The proofs hold for every value of the constants that the assumptions of the
modules admit: any length of the ring, any number of packets, peers, words and
batches, any sizes and limits, any combination of the calls in each module's
`Faults` failing. Besides those assumptions a theorem has hypotheses only where
this text names them.

| theorem | states |
|---|---|
| `TypeCorrect`, `ThreadsTyped`, `LoopTyped` | `TypeOK` of `BufferCalls`, `ServerThreads`, `SelectLoop` |
| `RingInvariant` | `RingConsistent` (slots clear at first) |
| `ImplementsDropOldest` | the ring implements `DropOldestQueue` (slots clear at first) |
| `WakeupKept` | `NoLostWakeup` |
| `PacketsOwned` | `OneOwner`, `NoLeak` (slots clear at first) |
| `DropsOldestOnly` | `DropsOnlyWhenFull` (slots clear at first) |
| `PrintsInOrder` | `ProcessedInOrder` (slots clear at first) |
| `ReportsTogether` | `ReportsDriftByOne` (slots clear at first) |
| `WatchesOpenSockets`, `WholePacketsOnly`, `AlwaysAccepts`, `DropsStalledOnly` | `FdSetsMatch`, `FramesAligned`, `StaysInService`, `OnlyStalledPeersDropped` |
| `ServerImplementsLog` | the whole server implements `PacketLog` (slots clear at first) |
| `ReversesAlways`, `StaysInsideAlways` | `Reverses`, `StaysInside` |
| `RoundTripAlways`, `NumbersSurviveAlways` | `RoundTrip`, `NumbersSurvive` |
| `DigestAlways` | `DigestIsMd5` |
| `PacketsSealedAlways`, `ExitCodeHonest` | `PacketsSealed`, `ExitMeansSent` |
| `WireCarriesFileAlways` | `WireCarriesFile` |

"Slots clear at first" is `Uninitialised = {NULL}`; `buffer_garbage` is the
counterexample without it.

**The ring** (`RingLemmas`, `BufferProofs`).  The inductive invariant is `RingInv`:
the types of the fields, the fact that a clean ring has equal indices, and that
exactly the first `Count` slots from `pull_index` on hold packets.  The last part
alone is not inductive, since without the second a clean ring with different
indices could be written over.  The argument has three layers.  `RingGeometry`,
`TakeGeometry`, `StoreGeometry` and `StoreFullGeometry` are arithmetic: where the
k-th entry is and how that moves.  `TakeContents`, `StoreContents` and
`StoreFullContents` lift that to sequences: a pull takes the head, a push appends,
a push on a full ring appends to the tail.  `PushRefines`, `PullRefines` and
`MeasureRefines` match each call with a step of the queue.  A call that cannot unlock
the mutex is matched with the one that stops the queue (`CallEnds`): such a push has
stored its packet although it reports an error, and such a pull has lost one.  Where
no unlock fails the queue may not stop.  The lemmas about the ring itself are in
`RingLemmas`, because the proofs about the threads use them too.

**The threads** (`ThreadProofs`).  Five layers, each resting on those before it.
The *types*, with the fact that the main thread has a packet while it handles one.
The *indices* of the ring (`RingKept`).  *Who has the mutex* (`MutexHeld`): neither
thread is between its lock and its unlock while the other is, from which, with
the fact that a worker in `pthread_cond_wait` has seen an empty ring
(`WaitsOnEmpty`), no signal is lost.  The *order of the packets* (`Order`): the
packets on the ring are consecutive, end with the last one pushed, and are newer
than the one the worker holds.  `NoLostWakeup` and `ProcessedInOrder` are not
inductive without these.  From the order follow the *owners* (`SlotsDistinct`,
`OwnersApart`, `HeapInv`): slots, main thread and worker have different packets, all
of them allocated, and while no call fails nothing else is, so that no packet is
freed twice, or lost;
and the *lines*: what is printed is older than what is on the ring
(`PrintedOlder`), so that a packet that is missing between two lines was
overwritten.

**The select loop** (`SelectProofs`).  None of its properties is inductive.  `LoopInv`
has eight parts, each kept by a lemma of its own.  That a packet is handed over
whole (`FramesAligned`) rests on each open stream standing at the beginning of a
packet, except the one being read (`InFrame`), and on the buffer holding what was
read of it (`Filled`); this on a socket being one connection's and a peer having
one (`OnePlace`) and on nothing being read before a connection is accepted
(`NothingRead`), since numbers are reused; and this on `select` watching the open
connections only (`FdSetsMatch`, `Scans`).  `DropsStalledOnly` needs that a socket
reported as readable stays readable until it is read (`ReadableStays`).

**The whole server** (`ServerProofs`).  Each behaviour of `Server` is one of the loop
and one of the two threads (`LoopRuns`, `ThreadsRun`), so that everything above holds
of it.  `JointInv` joins the two: while the main thread handles a packet, the loop
stays at the connection it came from, and the bytes decoded are that peer's next
packet.  Hence `Origin` maps the numbers of `ServerThreads` to packets of peers
(`OriginIs`), for good, and the ring and the printed lines to the sequences of
`PacketLog`.  A step of the environment is `PacketLog`'s `Send`, `MainPush` its
`Take`, `WorkerPrint` its `Report`, and every other step a stutter, unless an unlock of
the ring fails: in a pull or when the length is asked for that is `Lose`, in a push a
`Take` that stops (`StepRefines`).  Two facts are needed to see that nothing is taken
or reported twice or too late then.  Where the main thread is tells whether its packet
is on the ring, and if it leaves with the packet there it still has the mutex
(`OnRingTells`, from the order of the packets), so that the worker cannot get at it;
and while the worker prints, the ring is not stuck (`PrintsUnlocked`).

**The flip and the codec** (`FlipProofs`, `CodecProofs`).  `FlipInv` says that the two
indices are symmetric around the middle, and that the bytes outside them are in
their final places while those between them are in their first.  In
`CodecProofs`, `Encoded` says byte by byte what a packet looks like on the wire.
`EncodeEncodes` shows that the encoder produces it, following each byte through
the five writes, the one that goes too far included; `DecodeEncoded` that the
decoder takes it apart, because swapping and turning around undo themselves
(`SwapTwice`, `FlipTwice`).  Between hosts of different byte orders `WireBytes` and
`DecodedNumbers` follow a field through one turn instead of two or none.

**MD5 and the client** (`ClientProofs`).  `Hashed(S, ctx, m)` says what a context is
after the text `m`: its length in two words, its whole blocks in the state, and
its rest at the beginning of the buffer.  `StartsEmpty`, `UpdateHashes` and
`FinishPads` show that the three functions of `md5.c` establish, keep and use it.
They rest on two groups of lemmas: the arithmetic of two words (`AddCarries` for
the carry, `BitsOfWords` for the length in bits), and that cutting into blocks may
go on from the rest (`GoesOn`).  `DigestAlways` is then about every block size and
every word width, where the run has one of each.  The client's `SealInv` says what
each step of the loop finds of those before it: the number, a full packet in the
host's byte order, its digest; `PacketsSealedAlways` follows, using `HashesWhole` for
what `mbedtls_md5_ret` returns.  `ExitCodeHonest` needs only that the loop counters
stand for the packets written (`SentCounted`).

**The file on the wire** (`ClientProofs`).  `WireCarriesFileAlways` is about every
list of 16-bit numbers, of any length, and every size of a packet.  It takes
induction over data, for what the recursive functions of `CsvReader` compute.
The provers cannot instantiate the library's induction theorems, whose
parameter is an operator; so `Smallest` finds the least element of a set of
numbers by `WFMin`, whose parameters are sets, and `Induction`, `GeneralInduction`
and `Recursion` follow for sets and functions.  With these:

* the digits of a number read back as the number (`DigitsReadBack`, by way of the
  number's tenth), and with the minus and the cut to 16 bits its text does too
  (`TextIs`), -32768 included;
* the k-th text is in the file where `Offset` says, between single separators
  (`UpToStep`, `UpToGrows`, `TextInFile`).

`At(k)` is the invariant of the reader: it stands in the k-th text behind the
characters it has kept, or has yet to turn around at the end of the file.
`StoreKeeps`, `SkipKeeps` and `ConvertMoves` are the reader's three steps; the last
one moves on to `After(k)`, and has read the k-th number if its text was
terminated.  `SourceInv` puts that into the loop of `main`.  `WireCarriesFile` is not
inductive without it: what is on its way to the wire must be known at each place
of the loop (`CarryInv`), and where the reader is between two packets too: at
the number that follows the words of all packets so far, modulo the length of
the file (`ReaderInv`).  A file without a number never fills a packet, and a reader
that writes past its array is not followed any further.

Only model-checked is liveness, which this prover cannot do: `EveryPacketReleased`,
`MainReturnsToSelect`, `EveryPacketRead`, `EveryPacketHandled`, `Returns`.  The
digests are proved right for texts of any bytes whatever; that the bytes of a packet
are those of 16-bit numbers is not needed there, and not stated.

## Not modelled

* The rest of mbedtls: its TLS, X.509, ciphers, public keys, other digests, tests
  and programs.  It is vendored and makes up almost all of the repository's lines,
  but nothing of it runs: the program calls `mbedtls_md5_ret` and no other function.
  A model of it would say nothing about this system.  Of MD5 itself, the
  arithmetic on a block (`md5.c:117-244`) is uninterpreted.
* The numbers of ports: `helper_parse_port` is represented by its failing, which
  ends the program like any other failure of the start.  It cuts its argument to 16
  bits, so that 66873 is taken for 1337.
* The text that the programs print, except for the packets it names.
* Time, except as the order of steps and as a timeout that may strike; the time
  stamp of a packet is opaque.
* Allocation that fails in `cb_create`, which checks no result.  In the main loop the
  program does not survive it either (`MainReceive`).
* A `select` or `accept` that fails by itself in `Server`.  They are in `SelectLoop`
  (`Faults`); both make `main` return when it is not handling a packet.
* Numbers in the file longer than 16 bits, for which `helper_csv_read_number`
  writes behind its array (helper.c:27).  `FileAssumption` excludes them, and the
  repository's `data.csv` has none.
* A printf that does not return.  Standard output that blocks for ever holds up
  the worker, the mutex it keeps and then the main thread.
* Client and server in one model.  What the server sees of a client is a stream of
  bytes that stops, ends or is reset anywhere; the peers of `Server` do all of that,
  and `PacketsSealed` and `WireCarriesFile` say which bytes they are.

## Plan

What is left to state and to prove:

* That the ring of `ServerThreads` is a `DropOldestQueue` while the threads use it,
  directly; now it follows from `ServerImplementsLog` for the server as a whole.
