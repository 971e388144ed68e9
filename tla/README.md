# A TLA+ model of resume26

The repository is a collection of C and C++ programs written to learn from: an
image transfer over a lossy half-duplex radio link (`src/image_transfer_c`),
protocol programs (`src/protocol_learning_code`: MQTT, RTSP, ONVIF, CAN), Linux
programs with processes, threads and sockets
(`src/linux_c_cpp_interview_code`), data structures and algorithms
(`src/algorithm_learning_code`) and C++ projects (`src/stl_learning_code`).
This directory models the parts that have state which can go wrong, checks the
models with TLC on small instances and proves the most important statements
with TLAPS for every value of the constants.

`PROJECT.json` lists components, runs, the map from definitions to source lines,
findings, hazards and theorems. To repeat the work: `tlasany M.tla`,
`tlc -config X.cfg M` and, for the modules that hold theorems (those called `...Proofs`),
`tlapm M.tla` in this directory.

## 1. The components

| component | state | operations | speaks to | what is hard | what makes it correct |
|---|---|---|---|---|---|
| image sender (`image_sender.c`) | `ImageSendContext`: task, state, next new chunk, what was sent, what the receiver has, resend list | init, parse ACK, build resend list, next packet, close | receiver, by packets and ACKs; the file read | stale and lost ACKs, a restart with empty bitmaps, failing reads | never done before the receiver was; no chunk forgotten; none sent in vain |
| image receiver (`image_receiver.c`) | `ImageRecvContext`: image, bitmap, count, completeness, file | init, handle chunk, build ACK, close | sender; the file written | duplicates, damage, half-done writes, a restart that truncates | bitmap and count say what the file holds; ACKs are true |
| the two demo programs (`main` of both) | the loop they are in, one context each | a cycle: up to 12 packets, then 3 ACKs | each other, by files that a radio would carry | contexts start anew with each run | the image arrives; what an ACK reports missing is sent again |
| bitmaps, chunk arithmetic, CRC (`image_common.c`) | none of its own | set, clear and test bits; number of chunks; CRC16 | both ends | rounding, casts, lengths in bytes | bytes are sets of indices; chunks tile the image |
| MQTT broker (`mqtt_mongoose_broker.c`) | list of subscriptions that point to connections | CONNECT, SUBSCRIBE, PUBLISH, PINGREQ, DISCONNECT, close | clients, through Mongoose | connections that end while others publish to them; QoS; wildcards | no subscription outlives its connection; a message goes to those who asked for it |
| MQTT client on Mongoose | the connection, whether it is ready | open, subscribe, publish every 5 s, close | a broker | the connection is lost | comes back, subscribed (it does not) |
| hand-written MQTT client (`mqtt_client_demo.c`) | one socket | connect, subscribe, publish, receive | a broker | split reads and writes, length coding | packets are read whole |
| RTSP push, RTSP client, recorder | a session over one TCP stream, the position in it | ANNOUNCE, SETUP, RECORD, RTP, TEARDOWN; DESCRIBE, PLAY; packet loop with a filter | an RTSP server | media and responses share the stream, responses arrive in pieces | each response is matched with its request |
| ONVIF probe | a UDP socket | send probe, receive until five seconds of silence | cameras | answers that keep coming | it ends |
| pipe, shared memory, fork, threads | memory or a pipe between two processes; a counter under a mutex | fork, write, read, wait; lock, add, unlock, join | parent and child, threads | unordered stores, failing fork or create, who waits for whom | the text is seen whole; no increment is lost; nobody waits for ever |
| TCP client and server, HTTP server | one accepted socket | accept, recv, send, close | each other | split messages, silent peers | a request is answered; others get their turn |
| SQLite sample store (`stage_09_sqlite3`) | a table that outlives the process | create, delete, insert, query | SQLite | a run killed between two statements, an insert that fails | a run prints its own samples |
| queues, stacks, algorithms | arrays, lists, indices | enqueue, push, search, reverse, ... | their caller | wrapping indices, full and empty, limits, nodes freed while the list is walked | same results as an abstract queue or a definition |
| link converter (`linkconvert.cpp`) | a list | push, reserver, clear, print | its `main` | pointers rewritten one after the other | the nodes the other way round |
| STL projects | queue, map, heap | packet queue, device table, priority buffer, ... | their `main` | order, limits | same results as the abstract container |
| C language demos, STL container and OOP demos, SocketCAN | none that lasts | print | - | - | not modelled: straight-line code |

## 2. Plan

The image transfer is the program of the repository that has a protocol of its
own, with loss, restarts and disk errors; it comes first. The order of the rest
follows how much there is to go wrong.

1. *Image transfer*: `ImageCommon`, `ImageSender`, `ImageReceiver`, composed
   by `ImageTransfer` (any caller, any link) and by `ImageCycle` (the demo
   programs' loops); the abstract specification `ImageDelivery`; the bytes under
   the bitmaps in `ImageBitmap` with the abstract `ImageBitSets`; the
   arithmetic and the CRC in `Codes`; proofs in `ImageTransferProofs` and
   `ImageCycleProofs`, those of the bitmaps in `DataProofs`, those of the numbers in
   `ReturnProofs`. (Section 3)
2. *MQTT*: `MqttTopic` (the filter matcher as a recursive function, and the
   meaning of filters by levels), `MqttBroker` (connections, subscription list, routing),
   the abstract specification `MqttRouting`, proofs in `MqttTopicProofs` and `MqttBrokerProofs`
   (section 4); the clients `MqttMongooseClient` and `MqttClientDemo` (section 5).
3. *RTSP*: `Socket` and, on it, `RtspServer`, with the programs `RtspPush` and
   `RtspClient`; the `Recorder`. (Section 5)
4. *Processes and stores*: `Threads`, `ParentChild`, `TcpPair`, `HttpDemo`,
   `OnvifProbe`, `SampleStore`. All programs of 3 and 4 and both MQTT clients are checked
   together by `MCPrograms`; proofs in `ProgramsProofs`. (Section 5)
5. *Data structures and algorithms*: `Frame`, `CircularQueue`, `StackQueue`, the abstract `Fifo`,
   `BinarySearch`, `ArraySolutions`, `StackSolutions`, `ListSolutions` and `Codes`,
   checked together by `MCData`; proofs in `DataProofs` (structures, search, stacks and
   queues), `AlgorithmProofs` (lists and arrays) and `ReturnProofs` (brackets, expressions,
   grids, numbers). (Section 6)

All five are done; sections 3.7, 4.4 and 8 say what is left out.

## 3. Image transfer

### 3.1 State and actions

An image is a model value standing for its `image_seq`; a chunk is its index; the
bytes of a chunk are abstracted to `"whole"`, `"prefix"`, `"none"` or `"garbage"`,
which is what the properties tell apart. A packet or an ACK is a record with the
fields that somebody reads, and `crc_ok` says whether its CRC matches. A bitmap
is the set of indices whose bit is 1 (section 3.4 justifies this).

- `ImageSender`: one action per function of `image_sender.c` with the same name.
  `sender_get_next_packet_for_cycle` is `get_next_resend` and `get_next_new`,
  and each calls `sender_build_chunk` as the code does, after the index has been
  consumed. `packets` collects what was handed out to be sent. `fseek` and `fread` may
  read a chunk whole, fail at its start, stop inside it, or find the file's end before it;
  `ReadOutcomes` says which of these an instance has.
- `ImageReceiver`: likewise for `image_receiver.c`. `receiver_handle_chunk` has
  three outcomes: accepted, rejected, and `receiver_write_fails`, where the disk may
  have taken a part. `saved` is a history variable: the images that the file once
  held in full.
- `ImageTransfer` joins both with a link. Everything ever sent stays in `packets`
  and `acks`; any of it may arrive at any time, any number of times, or never, so
  that loss, duplication and reordering need no actions of their own. Damaged
  packets and ACKs come from constants. Callers may call any function at any time,
  also `sender_init` and `receiver_init` again: that is what a restart is.
- `ImageCycle` runs the loops of both `main` functions: `parse`, `list`, `send`,
  `listen`, `handle`, `ack`. `tx` is the cycle's packet file, and the link drops
  or damages packets from it; reads and writes may fail here too. With `KeepContexts` the contexts live from cycle to
  cycle, as `image_transfer.h` intends for a program that uses the API; without it
  every cycle starts both programs anew, as the demo programs are.

### 3.2 What the runs check

| run | instance | what it shows |
|---|---|---|
| `transfer_restart` | one image of 2 chunks, short and failing writes, failing reads, damaged packets and ACKs, both ends restarting at will | `CountIsExact`, `FileIsFaithful`, `AcksAreTrue`, `DoneIsSound`: what either end believes is true of the file; `IInv` is inductive; `ImplementsDelivery` |
| `transfer_images` | two images, of 3 and of 1 chunks, failing reads, no damage; the receiver keeps what it has acknowledged | nothing of one image counts for another; `NoChunkIsStranded`: whatever is missing is still to be sent or will be resent; `SentIsPrefix` |
| `transfer_shortread` | as the first, and a read may stop inside a chunk or give nothing at the end of the file | violated: `CompleteMeansWhole` (finding) |
| `cycle` | 3 chunks, 2 packets a cycle, 2 ACKs, a link that loses and damages data, read and write errors, one crash of the sender | `HeardThenDone`: the transfer ends; within a cycle no chunk is sent twice, and what is resent is exactly what is missing |
| `cycle_demo` | the demo programs over a lossy link | violated: `AckedLossIsResent` (finding) |
| `cycle_damage` | the demo programs over a link that damages headers | violated: `IntactPacketIsStored` (finding) |
| `data` | 11 chunks in a bitmap of 3 bytes | `ImplementsSets`: bytes and their copies implement sets of indices; a partly used and an unused byte occur |

The bounds. Two chunks are enough for a chunk that is there, one that is missing,
and a last one that completes the image; three with a limit of two per cycle make
a cycle that resends one and sends a new one, and one that cannot hold what it
should resend. A second image with a different number of chunks lets an ACK
carry the wrong `total_chunks`. Two copies of an ACK are enough for one that is lost
and one that arrives. `MaxSenderCrashes` = 1 allows a crash in any phase of any cycle;
`transfer_restart` has no such bound.

### 3.3 Fairness

Only `ImageCycle` has fairness. The two programs go on (`WF_vars(Next)`); the
disks are not broken for good (`SF_vars(SendPacket)`: a program that gets to read a chunk
again and again reads it sometime; `SF` of `ChunkIsWritten` for every chunk: one that is
handed to the receiver again and again is written sometime); and the link is lossy but not
dead: a chunk that is sent again and again arrives intact at last (`SF` of
`ChunkGetsThrough` for every chunk), and so does an
ACK, and a valid ACK that got through is given to the sender. The code cannot
guarantee any of this beyond `WF_vars(Next)`, but the protocol is written for such disks and
such a link and could not work on any other. Fairness is per chunk because fairness of the link
or the disk in general lets it fail for the same chunk each time.

`HeardThenDone` begins when the receiver has heard one packet. If all packets of the
first pass are lost, the receiver has no context and sends no ACK
("no packet received"), the sender has no chunk left to send and no ACK to learn from,
and the transfer stands still for ever. That is listed as a hazard.

### 3.4 The bytes below

`ImageBitmap` has the byte arrays of `image_common.c`, with a byte as the function of its
eight bits, the `bitmap_len` that `receiver_build_ack` computes and the copies made in
building and in parsing an ACK. `ImplementsSets` (checked, and proved for every size)
says that all of this is `ImageBitSets`, sets of indices; it is why the other modules
may use sets. `Codes` has the arithmetic with the header's own numbers
(400 bytes per chunk, at most 1 MiB), and its theorems hold for each of the 1048576 sizes.

### 3.5 What is proved

`ImageTransferProofs` proves, for any set of images, any number of chunks and any
set of damaged messages (every theorem rests on `WholeReads`, that a read gives the chunk or
an error that `ferror` reports, since `transfer_shortread` shows what happens when it
stops inside a chunk or finds the file ended):

- `Invariance`: `Spec => []IInv`. The properties are not inductive one by one. An
  ACK that says "complete" is about an image that was whole *when the ACK was
  built*, so `AcksAreTrue` must speak of the history `saved`, which never shrinks;
  `saved` grows when the *file* is whole whereas the ACK is about the *bitmap*,
  so that `FileIsFaithful` (bit implies bytes) and `FileMatchesBitmap` (bytes
  imply bit) are needed; the counts need `CountIsExact`, and that an accepted packet
  is whole needs `MessagesAreOfImage`. The proof splits `IInv` into what the sender
  and what the receiver keeps, with one lemma per group of actions.
- `TypeCorrect`, `FaithfulFile`, `TrueAcks`, `SoundCompletion`, `ExactCount` (the count is that of
  the bits) and `SentInOrder` (the chunks sent are those below `next_new_chunk`) follow from it.
- `NothingStranded`: `NoChunkIsStranded` with the further invariant `ReportsHold`, under the
  assumption that a receiver does not begin again an image of which it has
  acknowledged something (`~ForgetAfterAck`). Without that assumption the sender may hold
  for received what the receiver has lost, until the next ACK.
- `Refinement`: every step is a step of `ImageDelivery` or changes nothing there.

`ImageCycleProofs` proves of the programs' loops, for any number of chunks, any limits, any
damage and any number of crashes, and without using the fairness:

- `TypeCorrect`; `SentOnceInCycle` (`NoDuplicateInCycle`); `NoVainResend`
  (`NothingIsResentInVain`);
- `LossIsResent` (`AckedLossIsResent`), for contexts that live on from cycle to cycle; `cycle_demo`
  refutes it for those that do not.

The invariant of these four needs three facts that no property states. `AcksAreFresh`: ACKs
lie unread only while the receiver does not run, so that the bitmap of an ACK that the sender
reads is still the receiver's; this is what makes resending never vain, and it would fail for
a receiver that goes on receiving while its ACK travels. `SentOnce`: what is in the
cycle's packet file has been taken off the resend list and is marked as sent, so that neither
`get_next_resend` nor `get_next_new` can choose it again. `SentIsKnown`: a sender
that kept its context and never crashed has marked every packet it ever handed out, so that what
the ACK reports missing is in the list built from both bitmaps.

`DataProofs`: `BitmapTypeCorrect`, `BytesImplementSets`. `ReturnProofs`: `LastByteInLastChunk`
(what `image_calc_total_chunks` returns makes the last chunk the one with the last byte), `TotalChunksFit` (the number of chunks is between 1 and 2622, its bitmap fits in 328
bytes and the cast to 16 bits loses nothing), `ChunksTileImage` (each byte of the
image is in exactly one chunk and no chunk is empty) and `BurstsAreDetected` (section 6.3), on
which rests that no damage passes the comparison `crc_ok` that inverts up to 16 adjacent bits, or two bits at most
15 apart; other damage is taken to be seen (section 3.7).

### 3.6 Only model-checked, and out of the prover's reach

`HeardThenDone`, which is liveness, is only model-checked; every safety property of the passing
image transfer runs is also a theorem. Out of reach of the prover are, here and in the other
sections, liveness under fairness and `ENABLED`, modules that use RECURSIVE operators, and the
library's induction theorems, which take an operator as a parameter. Where a proof needs induction
over data it takes the least counterexample instead (`NatLessThanWellFounded` and `WFMin`, which have no
such parameter): that a recursively defined function exists and obeys its equation, and what it
then computes, is proved so in `MqttTopicProofs` (levels, matcher), `AlgorithmProofs` (sums)
and `ReturnProofs` (cells within a distance).

### 3.7 Not modelled

- Undetected damage: `crc_ok` is what the comparison says. That the comparison sees up to 16 adjacent bits
  that are all wrong, and two wrong bits at most 15 apart, is proved apart, for messages of every length, on the
  CRC's own loop (`Codes`, section 6). Nothing is proved of bursts of other shapes, and longer or
  scattered damage may pass a CRC of 16 bits.
- `image_seq` that is reused: the demo program sends every picture as image 1; the model
  takes it to be unique, as `image_transfer.h` asks ("unique image id").
- Buffering in stdio: `fwrite` is taken for the write, `fclose` for one that cannot fail.
- Arguments the API refuses (`NULL`, sizes of 0): they change nothing.
- `cycle_index`, `flags`, `lost_chunks`, `ack_seq` are written and never read.

## 4. MQTT broker

### 4.1 State and actions

`MqttBroker` has the list `s_subs` as what each node of the heap holds (`subs`), the life
of each connection (`conn`) and whether the process runs. Every event of
`mqtt_broker_handler` is an action: CONNECT and its two errors, SUBSCRIBE, PUBLISH,
PINGREQ, DISCONNECT and MG_EV_CLOSE. Mongoose is an external library that the repository
downloads; of it the model has only that a handler runs at a time, that
`is_closing` leads to `MG_EV_CLOSE` and then to `free`, that packets received in one read
are all handled, also after `is_closing` was set, and that the address of a freed
connection may be given to the next. A handler may run for a closing connection at any
time, which is more than Mongoose does.

The heap is finite, and `calloc` may also fail when it is not full. `handle_subscribe`
then stores a part of the list, or entries without a topic (`NULL`); the next PUBLISH
reads through that pointer and ends the process (`handle_publish_crash`). The broker may
be started again. The order of the list is left out: it decides only in which order the
copies of a message are written.

`published` and `sent` describe the last event only: what it was about and what it made
Mongoose send. `granted` is a history variable: what the client now behind a connection got
a SUBACK for.

`MqttTopic` has `topic_filter_match` as a recursive function of the two pointers into the strings,
one `Iteration` of its loop for each step of the recursion, and
beside it `MatchesByLevels`, what a filter means. `MqttRouting` is the promise: a message
reaches those who were granted a filter that it matches, and nobody else.

### 4.2 What the runs check

| run | instance | what it shows |
|---|---|---|
| `data` | all filters and topics of up to 4 characters from `a b / + #` | `MatchesElsewhere`: the matcher agrees with the levels unless the topic ends in two empty levels |
| `mqtt_broker` | 2 connections, 3 nodes, 2 filters, 3 topics, `GRANTED_SIZE` 2 | `NoDanglingSubscription`, `ListIsGranted`, `ImplementsRouting` |
| `mqtt_qos` | the same | violated: `QosIsTheSmaller` (finding) |

Four characters make three levels, empty ones included, and a wildcard beside, before and
after each kind of level. Two connections are one that publishes and one that
leaves, or one that leaves and one that gets its address; three nodes hold a filter
subscribed twice beside another one, and are full after two SUBSCRIBEs; a `granted_qos` of
2 is exceeded by a list of 3. The run has no fairness; nothing in it is about liveness.

### 4.3 What is proved

`MqttBrokerProofs` proves for any connections, nodes, filters, topics and SUBSCRIBE lists that
`IInv` is invariant, and from it `TypeCorrect`, `NothingDangles` and `GrantsAreListed`.
`NoDanglingSubscription` is not inductive alone: when the broker is started again its list
is emptied, and `ListIsGranted` survives this only because nobody is connected
(`DownIsEmpty`) and hence, by `NoDanglingSubscription` and `ListIsGranted`, nothing granted.
`Refinement` then says that each step is one of `MqttRouting`, for every set of filters with
their wildcards in place and of topics that do not end in two empty levels. That those are routed by
their levels is the matcher's doing:

`MqttTopicProofs` proves `MatcherIsRight`: over any characters, and for filters and topics of
every length, `topic_filter_match` is `MatchesByLevels` for a filter with its wildcards in place and a topic
that does not end in two empty levels. For one that does the loop may be wrong: `/+` does not match
`/`, although `a/+` matches `a/`, since at the end of the topic it looks only for `#`.
`DataProofs` concludes `FiltersMatch` (`MatchesElsewhere`) from it. The matcher walks over characters,
its meaning compares levels. `LevelsAre` says what the levels are that begin at each position: at a
"/" one empty level in front of those behind it (`Headed`), at another character the
same levels with this character in front of the first (`Prefixed`). `Agrees` is the induction's
hypothesis: from two positions on the loop returns whether the levels match that begin there. It is
proved from the end of the filter backwards, one lemma for each kind of character (`FilterEnds`,
`HashMatches`, `PlusMatches`, `SlashMatches`, `LetterMatches`, `Mismatch`), each showing that
one iteration and one step in the levels do the same. That the topic does not end in two empty
levels is needed in `SlashMatches` alone: it is where the loop sees the end of the topic and looks no
further than for "#".

### 4.4 Not modelled

UNSUBSCRIBE and other commands that the broker ignores; the bytes of CONNECT and SUBSCRIBE
(a list of filters is a sequence, a malformed tail ends it); PUBACKs, which Mongoose sends
itself; copies of one message for two matching subscriptions of one client, which
`MqttRouting` does not count.

## 5. The stand-alone programs

### 5.1 Modules

Each program is one process, or two, that talks to the kernel, to a library or to a peer.
`pc` is where its `main` is. A step is a system call or what lies between two of them,
and every call that the code lets fail may fail. `MCPrograms` runs one program in a
behaviour and leaves the variables of the others alone.

| module | program | of the peer it has |
|---|---|---|
| `Socket` | the send and receive loops of the next three | TCP: `send` and `recv` move any number of pieces, the peer may hang up at any time, a `send` after that fails or ends the process by SIGPIPE |
| `RtspServer` | - (environment) | a server that answers every whole request, with or without a session, with bodies of different lengths, and may send interleaved frames once it has answered RECORD |
| `RtspPush` | `rtsp_push_demo.c` | `RtspServer`; the response buffer `raw` has room for `RawSize` pieces |
| `RtspClient` | `rtsp_client_demo.c` | `RtspServer` |
| `MqttClientDemo` | `mqtt_client_demo.c` | a broker that accepts, refuses, cuts its answer or hangs up |
| `MqttMongooseClient` | `mqtt_mongoose_client.c` | Mongoose: a connection that opens, is refused, is lost, and is freed after its close event; Ctrl+C, the last `mg_mgr_poll` and `mg_mgr_free` |
| `OnvifProbe` | `onvif_probe_demo.c` | devices that answer at any time or on and on, empty datagrams and failing reads, and time itself |
| `Recorder` | `rtsp_ipwebcam_recorder.cpp` | FFmpeg: any codec, packets of other streams, a filter that keeps packets back, every exception, writes that fail or stop half-way; the files of an older recording; a recording with a limit or without (`max_packets <= 0`); Ctrl+C. A camera that falls silent ends in an error: the timeouts are taken to be honoured |
| `Threads` | `pthread_demo.c` | the scheduler; `pthread_create` may fail, and the threads created before then run on beside a `main` that has returned, until the process ends. `++g_counter` is a load and a store |
| `ParentChild` | `pipe_demo.c`, `shared_memory_demo.c` | parent and child interleaved; stores to shared memory may arrive out of order |
| `TcpPair` | `tcp_server.c`, `tcp_client.c` | each other; a client that never comes, is refused or gives up, `accept` and `recv` that fail, text that comes in parts, a reset that loses the reply |
| `HttpDemo` | `http_server/main.cpp`, `http_client/main.cpp` | each other; other paths, requests that come in parts, clients that connect and say nothing |
| `SampleStore` | `stage_09_sqlite3/main.cpp` | SQLite: every statement is a transaction that may fail; the process is killed at any point and started again |

A message is a sequence of pieces that nobody cuts further: the two halves of a request, or
header, blank line and body of a response. Two are enough for a message that is cut.

### 5.2 What the runs check

The run `programs` has the properties of this table:

| property | of | says |
|---|---|---|
| `AcceptedIsAnswer` | push | a request goes out only after the server has accepted all before it, however the answers are cut, whatever overflows `raw`, and with frames between them |
| `SessionIsTheServers` | push | RECORD carries the session of the answer to SETUP; so does TEARDOWN when the answer to RECORD repeated it |
| `MessagesAreWhole` | push, client, MQTT demo | a message begins on the wire only after the one before it is there in full |
| `ShownIsTrue` | client, MQTT demo, pipe, shared memory | what is printed as an answer is one. For the RTSP client under the condition that answers arrive whole, for the shared memory under the condition that stores arrive in order; the code secures neither |
| `PublishesWhileOpen` | Mongoose client | it uses no connection that is freed, publishes only on an accepted one, and never twice within the interval |
| `NothingIsMissed` | ONVIF | it gives up only after `Wait` seconds without an answer, since the probe or since the last one |
| `FileIsInOrder` | recorder | the file is the packets counted, in order, without those in the filter or lost by `fwrite`; of an older recording only JPEG files with higher numbers remain, which nothing deletes |
| `ShowsThisRun` | SQLite | the samples printed are this run's, whatever killed the runs before |
| `ClientsAreAnswered` | HTTP, TCP | who was read whole gets the answer to its own request |
| `CounterIsExact` | threads | the counter printed has every increment, and each thread reads its own number, unless `main` gave up after a failed `pthread_create`: what is then read from the dead array is undefined |
| `EveryProgramEnds` | all | each program ends, or waits in `HeldUp`, or a peer sends on and on |

Two more runs, of the same instance, are about what documents say: `rtsp_teardown`
(`TeardownNamesSession`: TEARDOWN names the session whatever the answer to RECORD holds) and
`recorder_saved` (`SavedIsInFile`); both are violated (section 7).

`HeldUp` is the list of waits that nothing ends. That `EveryProgramEnds` holds says the list
is complete:

- push, RTSP client, hand-written MQTT client: `recv`, which has no timeout, while the peer
  neither answers nor hangs up; so too when a frame ahead of the answer to TEARDOWN hides it;
- Mongoose client: nobody has pressed Ctrl+C; the loop polls also when the connection is gone and
  nothing will open another;
- HTTP server: `accept` with nobody waiting, or `recv` from a client that says nothing while
  the rest wait;
- TCP server: `accept` while no client comes;
- shared memory: `fork` failed, and the parent polls for a child that is not there.

The ONVIF probe and the recorder limit each of their waits and are on no such list: silence ends
both. What keeps them is the opposite, a device that answers again before `Wait` seconds have
passed, or a camera that goes on sending to a recording without a limit; `PeerSends` names these
steps, and a behaviour in which they go on for ever is excepted. Without any one of these
exceptions TLC refutes the property. `IP_WEBCAM_PROJECT.md` says that the recorder does not
hang on a lost stream; the model agrees as long as FFmpeg honours the timeout it is given. For
`rtsp://` the code sets `stimeout` alone, and what an FFmpeg makes of it is outside the model.

Fairness is `WF` of `OwnStep`: what the program, the kernel, the network and the clock do. No
peer need send, answer or hang up, no client need come, and nobody need press Ctrl+C. Nothing
stronger is assumed: no thread, client or packet is favoured.

The bounds. Three threads of two rounds make a thread that waits while two others
contend, and an increment that could be lost in each round. `RawSize` = 3 is smaller than the
longest answer (header, end and a body of two) and larger than the shortest. Two frames make one that is between
others. `MaxTime` = 6 with `Interval` = 2 makes three publications; `Wait` = 2 with three
devices makes answers just before and just after each second. `Limits` has a recording that ends after two
packets and one that has no limit (0) and is cut off at `MaxVideo` = 3; one packet kept back by the filter
makes every order of packets and output. `OldFrames` has one older JPEG file whose
number the new recording uses (0) and one whose number it never reaches (4). `Runs` = 3 lets a run be killed
after one that was itself killed. Two clients that talk and one that is silent
make one that is served before, one behind and one in between. The run has 310 193
distinct states.

### 5.3 What is proved

Every safety property of the run `programs` is a theorem, for every value of the constants;
`EveryProgramEnds` is liveness and only model-checked. `ProgramsAssumption` is all that the proofs ask of the constants:
`Interval`, `RawSize`, the lengths of bodies and the numbers of older files are natural numbers, `Wait` is a positive
one, and the limits of a recording are integers, as in the code. The number of threads and
rounds, of clients, devices, frames, runs and packets, the room for responses and the times are free.

`MCPrograms` runs one program in a behaviour, so that each proof has an invariant about one
program and a lemma that the others leave its variables alone (`StepIsOne`, `SocketStepIsOne`). No property is
inductive alone: each speaks of a moment, and holds because of what was arranged before.

`ProgramsProofs`:

- `MissesNothing` (`NothingIsMissed`). `select` waits anew with every turn; the invariant is that while no datagram
  lies unread, what is left of the timeout and the time since the last one make at least `Wait`. It counts an empty
  datagram and a failed read as the loop does, which goes on after both.
- `OpenWhilePublishing` (`PublishesWhileOpen`). `s_mqtt_ready` is set only while the connection is open, and
  nothing was published after `last_pub`.
- `AnswersOwn` (`ClientsAreAnswered`). For HTTP: no client waits twice in the backlog or waits after it was accepted,
  so that the one being served has no answer yet and cannot get that of another.
- `RecordsInOrder` (`FileIsInOrder`). What the filter gave out and what it still holds are, one after the other,
  the packets that were counted without those lost, in increasing order; the packet between `av_bsf_send_packet` and
  the counter (`Taken`) has to be among them. With JPEG files (`JpegsInOrder`) the files up to the counter are this
  recording's, each with the number of its packet, and those above it the older ones.
- `PrintsOwnRows` (`ShowsThisRun`). From the DELETE on the table holds this run's rows only, in the order of
  their numbers and their ids, as many as were not refused; a run that is killed leaves rows behind, and the next
  one's DELETE is why they do no harm.
- `ExactCounter` (`CounterIsExact`). The invariant counts the turns that were completed (`TurnsAreCounted`:
  the counter is the cardinality of the set of pairs of a thread and one of its rounds) and needs that
  a loaded value is still the counter's (`LoadIsFresh`), which holds because of
  `MutualExclusion`; at the end all turns are completed because `main` prints only after joining
  each thread (`JoinedAreDone`, `RestIsToCome`), and gives up before that when one was not created; it prints as the last thing it does (`PrintsLast`). That a
  thread reads its own number is not a matter of course: it may begin only after `main` has gone on, or given up. The
  argument array stands until `main` returns (`ArgumentsStand`), and the theorem is about the reads until then.

Those on a `Socket`, over the invariant `TalkInv`:

- `SendsAfterAnswer` (`AcceptedIsAnswer`). The server answers a request when its last piece is on the wire
  (`AsksInTurn`: it has answered no more than it was asked, and was not asked more than the program sent), and a header that is on the way
  or in `raw` is that of the answer to the last request, and the only one (`HeadIsAnswer`). Frames and an overflow of `raw` may hide or drop this header; they cannot
  put another in its place.
- `NamesTheSession` (`SessionIsTheServers`). Every piece of a RECORD, on the wire or still to be sent, names
  the session of SETUP's answer, and every piece of a TEARDOWN what RECORD's answer said, the same session or none; `extract_session` sees only a header, which is the right one by
  `HeadIsAnswer`.
- `SendsWholeMessages` (`MessagesAreWhole`). As long as no `send` has failed, what is on the wire and what is
  still to be sent are together whole messages (`WireInv`); after a failure nothing more is sent.
- `PrintsAnswers` (`ShownIsTrue`), with `IpcAlways` for pipe and shared memory. The RTSP client reads once for each
  answer: either something it printed before was less than the whole answer (`Spoilt`; the rest of it is then taken for
  the next one), or the stream holds nothing but the answer to its last request (`OnlyTheAnswer`). The child that
  stores in order has stored the text before it sets `ready`.

The lemmas on the pieces of a stream (`Cut`, `Joined`, `MessageAdded`, `TwoPieces`) serve all three socket programs.

## 6. Data structures and algorithms

### 6.1 Modules

Every data structure and every function of the algorithm problems runs as a machine of its own in
`MCData`; a behaviour belongs to one of them.

A structure that lives from call to call (`CircularQueue`, `StackQueue`, the minimum stack of
`StackSolutions`) has one action per function, or one per loop turn where a loop runs
inside (the move from one stack to the other). A single function has a `Frame`: `call`, the
function and its arguments; `loc`, its local variables; `ret`, empty until it returns. One step is one
turn of a loop, so that loops which would never end are seen. `Calls` are all its arguments,
and `IsResult` says what the result is for, without repeating how it is computed: a shortest window, every
element `k` places further round, each bracket with its partner, the expression's meaning, the cells within
a distance, the nodes that are kept and the order in which they come.
List nodes are numbers, `next` is a function, and `freed` the nodes given back.

| module | code |
|---|---|
| `CircularQueue`, `StackQueue` | `queue_simple_circular_queue`, `queue_simple_queue_using_stacks`; both implement `Fifo`, the second also in the middle of a move |
| `BinarySearch` | `array_simple_binary_search` |
| `ArraySolutions` | move zeroes, rotate, minimum window, and the task buffer (`stage_07_projects/priority_buffer`) |
| `StackSolutions` | parentheses and the bracket checker, reverse Polish notation, daily temperatures, sliding maximum, shortest path in a grid, minimum stack |
| `ListSolutions` | reverse, remove, merge, detect a cycle, `free_list`, and `linkconvert.cpp` |
| `Codes` | the CRC16, MQTT's remaining length, the number of chunks of an image |
| `ImageBitmap`, `MqttTopic` | sections 3.4 and 4.1 |

### 6.2 What the run `data` checks

`CircularIsFifo` and `StacksAreFifo` (refinement of `Fifo`), `MinIsMinimum`, `SearchIsRight`,
`ReturnsAreRight` (`IsResult` of each function, and that the grid search needs no more
of its queue than there is), `ListsAreSound` (right result, no node read after it was freed, none
leaked), `CallsReturn` (each call returns), and `ImplementsSets` and `MatchesElsewhere` of
sections 3 and 4.

Fairness is `WF` of a call: a function that was called goes on. Nobody need call anything, so
that nothing is assumed of the structures.

The bounds are those at which each branch and each boundary occurs: a ring of three cells that wraps
both ways; two stacks of three, so that one is filled while the other still holds values; sorted arrays of up to
five keys with keys missing at both ends and in between; arrays of up to four of three
values, with every `k` up to one more than the longest; expressions of three numbers, one of them
negative, without division by 0, for which the code does not look; texts of up to five brackets; lists of up to four
nodes and every place where a cycle may begin; all grids of 3 by 3; messages of up to three bytes, damaged
by a burst of up to 16 bits at any place, of which all bits or only the first and the last are
wrong (the CRC is linear, so that the message itself matters little); lengths and image sizes at each boundary, among them both sides of 128, 16384, 2097152 and 400
and the largest ones. The run has 232 787 distinct states.

### 6.3 What is proved

`DataProofs` proves, for all capacities (`MAX_SIZE` is a natural number) and all values (integers, `DataAssumption`):

- `RingTypeCorrect` and `RingIsFifo` (`CircularIsFifo`). The
  abstract queue is `size` cells read round from `front`; its tail after a pop, and its
  longer self after a push, are computed from two facts about `%`, and
  the push needs that `rear` is `size` cells from `front`, which is the invariant.
- `TwoStacksAreFifo` (`StacksAreFifo`). The abstract queue is `out` from its top followed by `in` from its
  bottom. Each turn of the move takes from one end of `in` and puts on the other side of the seam
  (`MovedKeepsItems`), so that it is a stutter of `Fifo`. That the queue is never larger than it may be needs the
  invariant: while values are moved both stacks together hold no more than one can, and not nothing.
- `SearchRight` (`SearchIsRight`), for sorted arrays of every length. The invariant is that what
  lies outside `left .. right` is not the target.
- `MinIsLeast` (`MinIsMinimum`). That the top of `min_data` is the least value is not inductive: after a pop it
  must be so for what is below. The invariant says it of every height (`LeastOf`).
- Of `ReturnsAreRight`, for arrays of every length (`MaxArray` is a natural number) and grids of every size (`ROWS` and
  `COLS` are positive):
  - `RotatesByK`: `rotate` moves each element `k` places further round. `CameFrom` says for each position where its element
    was, for the range that is being reversed and the ends `left` and `right` that were reached; one exchange
    (`Exchanged`) and the change to the next range (`NextRange`) keep it. After the third range it is
    `IsResult`, by the quotient and remainder of `k` (`ModSum`, for which `HasQuotient` takes the least remainder of all).
  - `NextWarmerDay`: `daily_temperatures`. Temperatures never rise from the bottom of the stack to its top
    (`StackFalls`), the days on it have seen no warmer one, and each other day has its answer (`Answers`).
  - `MaximumOfWindows`: `max_sliding_window`. The deque's indices are of the window, ascending, with values that do not
    rise, and nothing in the window is larger than every value in the deque at or after its place (`Deque`, `Covered`), so that
    the first is the largest.
  - `QueueIsLargeEnough` (`QueueFits`): the cells in the queue of `shortest_path` are those that were visited, each once, and
    there are `ROWS * COLS` of them.

`AlgorithmProofs` goes on with lists and arrays:

- `ListFunctionsAreSound` (`ListsAreSound`), for lists of every length: the right nodes in the right order, none
  read after `free`, none left behind. A list is a set of nodes with a total order, and `next` leads from each
  to the one that comes after it (`Follows`); reversing turns the order round node by node (`Turning`), `push`
  and `remove_elements` keep an ascending order of the nodes, a merge keeps one of values and, among equal ones, of lists
  (`MergeOrder`, `LinkedUpTo`). What `main` prints and frees then goes along the order (`Printed`,
  `FreedBefore`). For `detect_cycle` the invariant counts the steps of `slow` and `fast` (`Reached`):
  when they meet the difference is a multiple of the ring's length (`Rounds`), so that a pointer from the head and one from
  there meet where the cycle begins (`Chasing`); without a cycle `fast` is twice as far as `slow` and reaches the end.
- `UrgentTasksFirst`: what was run and what still waits are, one after the other, all tasks in the order
  in which they have to run (`Lined`).
- `ZeroesMoveBehind`: `write` counts the values other than zero among those read (`Count`), and each of them has
  moved to the place that this count gives (`Moved`).
- `ShortestWindow`: `min_sub_array_len`. With the sums from the start (`SumsOf`) a window's sum is a difference; since they
  never fall (the function takes no negative numbers), no window that starts before `left` or ends before `right` is shorter than `best` (`Shortest`). It needs `MaxArray < MaxInt`,
  since the function starts with INT_MAX for "none".

`ReturnProofs` goes on with the rest and puts all together:

- `ParenthesesAreMatched`: with the depth behind each character (`Depths`), the stack holds the brackets that opened each depth
  up to the present one (`Nested`), and all that were closed had the right partner (`PairedUpTo`).
- `ExpressionsAreEvaluated`: `eval_rpn`, for all integers; the stack has the values of what was read (`StackIs`).
- `ShortestPathIsFound`, for every grid: the queue is in ascending distance, at most one apart, with each distance exact (`Queued`);
  the neighbours of what was taken from it have been visited (`Scanned`), so that every free cell within a
  distance was visited before one further away is taken (`Ahead`).
- `BurstsAreDetected`: two messages of any length that differ in a burst of up to 16 bits, of which all bits or only the
  first and the last are wrong, have different CRCs. The CRC
  is linear, so the proof follows the difference of the two registers: with what is still to come of the burst
  it is the whole burst until its first bit is shifted out, and from then on it is something (`Shows`), because a shift
  with feedback loses nothing.
- `LengthsAreDecoded`: the bytes written and what is left of the length count as much as the length (`Stands`).
- `LastByteInLastChunk`, `TotalChunksFit` and `ChunksTileImage` (section 3.5).
- `ReturnsRight` (`ReturnsAreRight`), from all of these.

`DataAssumption` is all that the proofs ask of the constants: values are integers, capacities and the greatest lengths natural numbers,
the grid has a cell, arrays are shorter than INT_MAX, the lengths for MQTT at most 268435455, the sizes of images
those that `sender_init` takes.

Every safety property of the run `data` is thus a theorem. Only model-checked is `CallsReturn` (liveness).

## 7. Findings

Disagreements between the code and what the repository says, each shown by a run that TLC
finds violated; `PROJECT.json` quotes the lines.

- `transfer_shortread`: `sender_build_chunk` notices a read error only when nothing was
  read. After a partial read it sends the prefix with a correct CRC; the receiver
  counts the chunk and ends with `image_complete` over a file with a hole.
- `cycle_demo`: `sender_demo` calls `sender_init`, which clears `local_sent_bitmap`, before
  it parses the ACK; the resend list holds only chunks that were sent, so it is always
  empty and the missing chunks are not sent again.
- `cycle_damage`: `receiver_demo` takes image and number of chunks from the first packet
  before its CRC is checked; after a damaged header the intact packets are refused.
- `mqtt_qos`: the broker forwards with the subscriber's QoS, also a message that was
  published with a lower one.
- `rtsp_teardown`: `rtsp_push_demo` takes the session for TEARDOWN from the answer to RECORD, which
  need not repeat it; then TEARDOWN goes out without one.
- `recorder_saved`: the recorder prints "Saved video packets: N" with the number of packets
  it gave to the bitstream filter. Those that the filter still holds at the end (it is never
  flushed), and those that `fwrite` could not write (its result is not read), are not
  in the file.

## 8. Not modelled

- *SocketCAN demo*: one write and one read, with no state between them.
- *C language demos, STL container and OOP demos*: they print what a language or library
  feature does. `fork_demo.c` shows that a copy is a copy.
- *STL projects* `sensor_cache`, `device_nodes`, `packet_queue`: each method is one call of one
  library container; a model of them would be a model of that container.
- *`https_client`* is one pass through OpenSSL, and the handler of `stage_10`'s Mongoose server
  keeps nothing between two events.
- *`LinkedList::clear`*: the loop of `free_list` once more, and `main` never calls it.
- *The C++ versions* (`solution.cpp`) of the algorithms: library containers and a second text of the same loops.
- *Bytes and words*: headers, URLs, SDP, payloads and what is printed appear as far as a
  property tells them apart; the numbers in RTP headers are not told apart.

Hazards that no property covers, and why (`PROJECT.json` has the lines). What the model leaves out:
`fclose`, whose result the code could not act on; `image_seq` used again, because then the packets of two
pictures are the same; an FFmpeg that ignores `stimeout`. What the model has, but nothing in the repository
says should be otherwise: the first pass of an image lost as a whole; two SUBSCRIBEs to one filter, a
SUBSCRIBE without CONNECT, and the broker that ends at an entry whose filter could not be copied; the
Mongoose client that never connects again; the answer to TEARDOWN behind a frame; a response of which one
`recv` gets a part; ONVIF answers without end; stores to shared memory out of order; a parent whose
`fork` failed; the threads that read `ids` when `main` has returned; a silent client in front of the HTTP server. The
properties allow for these, or except them, where they say so.
