# A TLA+ verification of Ringmaster

Ringmaster emulates a 1:1 video call. `video_sender` reads a raw video, has
libvpx compress it, cuts every frame into UDP datagrams, and retransmits what it
takes for lost. `video_receiver` acknowledges each datagram, puts frames together
again and has a second thread decode and show them. This directory models that
machinery in TLA+, checks it with TLC on small instances and proves its main
properties with TLAPS for all instances.

File names below are relative to the repository's root; `src/app/encoder.cc` is
one of its files. `PROJECT.json` lists, for each definition, the lines it models.

## 1. The system and its hazards

| Component | State | Operations | Correct when |
|---|---|---|---|
| `Encoder` (`src/app/encoder.*`) | `frame_id_`, `send_buf_` (deque), `unacked_` (map by sequence number), RTT estimate | `compress_frame` = give-up test, encode, packetize; `add_unacked`; `handle_ack` = RTT sample, retransmissions, erase | no exception; retransmissions before new data, at most `MAX_NUM_RTX` each; first transmissions in order; gives up only after `MAX_UNACKED_US` |
| Fragmentation (`packetize_encoded_frame`) | copy pointer, loop counter | one datagram per iteration | every byte once, no empty and no oversized payload |
| `Datagram`, `AckMsg` (`src/app/protocol.*`) | fields | construct, serialize, parse | the receiver sees what was sent |
| `Frame`, `Decoder` on the main thread (`src/app/decoder.*`, `src/app/video_receiver.cc`) | `next_frame_`, `frame_buf_` | `add_datagram`, `next_frame_complete` (may skip to a key frame), `consume_next_frame` | complete means whole; what is dispatched can be decoded; no frame is lost once it is acknowledged |
| `Decoder` worker thread (`worker_main`, `decode_frame`) | `shared_queue_`, mutex, condition variable, local queue, decoding buffer | wait, take all, decode, write a line | mutual exclusion, no lost wakeup or frame, every frame decoded |
| `Poller`, `Epoller` (`src/util/poller.*`, `epoller.*`) | callbacks and active events per fd, fds to deregister; for `Epoller` also the kernel's interest list | register, activate, deactivate, deregister, poll | callbacks only for events wanted when the round began, no event passed over, no exception for a caller that keeps the rules |
| Event loop of `video_sender` | timers, socket | timer, writable, readable, statistics callbacks | never sleeps on work, never spins without reason, ends when its peer is gone |
| Session set-up (`ConfigMsg`, both `main`s) | peer address, configuration, what the socket has queued | `bind`, `recv_config_msg`, `connect`, checks; one message, receiver to sender | one receiver is served, with the configuration it asked for; other messages do no harm |
| Wire format (`src/util/serialization.*`, `src/app/protocol.*`) | - | put and read numbers, messages | what is read is what was written, bad input is ignored |
| `YUV4MPEG` (`src/video/yuv4mpeg.*`) on `FileDescriptor` | file offset, `eof_` | open, `read_frame` | whole frames in order, again from the first; ends for a reason |
| `VideoDevice`, `RawImage`, the webcam program (`src/video/`) | buffers shared with the driver, image | open, `read_frame`, show, `signal_quit` | whole images in order, no buffer lost, the window can be closed |
| Sockets, addresses, memory maps, timers, SDL | kernel objects | system calls | - |

The sender is single threaded: its callbacks run to completion, in any order,
each as far as the socket lets it. The receiver has two threads. The two
processes share nothing but UDP, in both directions. So what is hard is:

* loss, duplication, delay and reordering of datagrams and of ACKs, against
  retransmission, its limits, and giving up (`encoder.cc:139-160, 268-295`);
* the order in which the deque is filled from both ends (`encoder.cc:222, 290`);
* unsigned arithmetic on a clock that is not monotonic (`encoder.cc:142, 262`);
* duplicates and late fragments in reassembly (`decoder.cc:77, 120`) and skipping
  (`decoder.cc:165-182`);
* the hand-over between the threads, which notifies outside the lock
  (`decoder.cc:218-226, 358-368`);
* arming and disarming `POLLOUT` from three callbacks (`video_sender.cc:162, 201, 235`);
* calls of a poller from inside its callbacks, with deregistration put off to the
  next poll (`poller.cc:74-97`, `epoller.cc:90-122`), and errors of an fd, which
  have no callback;
* short reads and files that end anywhere (`file_descriptor.cc:133-177`,
  `yuv4mpeg.cc:65-88`), and memory a driver writes to (`v4l2.cc:94-123`);
* the time before `connect()`, when anyone's packets are queued (`video_sender.cc:37-107`);
* boundaries: fragment count (`encoder.cc:210`), decoding buffer (`decoder.cc:278`).

`PROJECT.json` lists these hazards line by line with the properties that would
notice. Known and not covered by any property: an ACK of an earlier call that was
queued before `connect()` is handled as one of the peer (`video_sender.cc:211`); an
RTT sample after the clock was set back is arbitrary (`encoder.cc:262`, `Encoder`
allows any); frame rates 0 and 1 end the sender (`video_sender.cc:138`, `Session`
includes both); 2^32 frame IDs run out after four years (`decoder.cc:120`); the
chroma planes of images of odd size (`image.hh:33`).

## 2. Modules

    Protocol ---- Packetizer ---- PacketizerProofs
        |\
        | +------ Encoder ------- EncoderProofs, MCEncoder
        |            \
        |             VideoCall - VideoCallProofs, MCVideoCall
        |            /
        +-------- Decoder ------- DecoderProofs, MCDecoder
                     |
                  VideoStream  (abstract)
                     |
                  DecoderWorker - DecoderWorkerProofs, MCDecoderWorker

    Poller ------ VideoSender --- EventLoopsProofs
        |                        /
     Epoller ---- EventLoops ---+ MCEventLoops
                     |
                  EventLoop    (abstract)

    WireFormat -- Session ------- SessionProofs, MCSession

    Y4MInput ---- VideoInput ---- VideoInputProofs, MCVideoInput
                 /   |
    Webcam -----+ FrameSource  (abstract)

**Protocol**: frame types, sequence numbers and their lexicographic order,
datagrams and ACKs, and `Packetize`, the datagrams of a frame. A payload is
represented by its length. `OnWire` drops the two fields that never leave the
sender.

**Packetizer**: the loop of `packetize_encoded_frame`, one fragment per step,
checked to compute `Packetize`. The other modules use `Packetize` in one step.

**Encoder**: the sender. `CompressFrame` is the frame timer's callback (give-up
test, encoding, fragmentation, next frame). `SendDatagram` and `SendWouldBlock`
are the two outcomes of an iteration of the writable callback, `HandleAck` an
iteration of the readable one. Splitting the callbacks into iterations loses
nothing: `EWOULDBLOCK` may end either callback after any iteration. libvpx is
represented by what the configuration in `encoder.cc:30-61` asks of it: one frame
per call, of any size in `FrameSizes`, a key frame first and where one is forced.
The clock advances and, with `ClockMayStepBack`, is set back at any time;
differences wrap at `TS_MOD` (2^64) and RTT samples are cut at `RTT_MOD` (2^32).
The EWMA is a `double` that is only ever compared with integers, so its integer
part is kept and the fraction is a nondeterministic choice. The network is the
set `wire` of all datagrams ever sent: reading from it may lose, repeat, delay
and reorder. Taken alone, the sender may be acknowledged anything it has sent.

**Decoder**: the main thread of the receiver. `ReceiveDatagram` sends the ACK and
puts the fragment into its frame; `ConsumeNext`, `SkipToKey` and `DrainDone` are
the outcomes of an iteration of the loop that follows. An exception ends the
process (`receiver_up`).

**VideoStream**: what decoding needs, as an abstract specification: each frame is
the successor of the one before, or a key frame further ahead. `Decoder`
implements it with its `dispatched` frames; `DecoderWorker` starts from it and
implements it again with its `decoded` frames.

**DecoderWorker**: the two threads. A step is what a thread does between two
points where the other can notice: lock, push, unlock, notify on one side; test
the window, lock, wait or take, unlock, decode on the other. Waiting releases
the mutex in the same step, waiters may wake for no reason, and an exception in
the worker ends the process (`process_up`). All three lazy levels are initial states.

**VideoCall**: `Encoder` and `Decoder` composed. Sender steps leave the receiver
alone and vice versa; `wire` and `acks` are the two directions of the network.

**Poller** and **VideoSender**: a call of `Poller::poll` is taken apart at the
system call and at each callback. The encoder is reduced to the length of its
send buffer. The kernel's side (timers, receive buffer, room in the send buffer)
is in the actions `TimerExpires`, `StatsTimerExpires`, `MessageArrives`,
`SocketDrains` and `ErrorArrives`: an ICMP error for a datagram waits on the
connected socket, wakes `poll(2)` without a callback, and makes the next `send` or
`recv` throw (`SendThrows`, `RecvThrows`), which ends the program.

**Epoller** and **EventLoops**: `Epoller` keeps the maps of `Poller` and adds the
kernel's interest list and the failures of `epoll_ctl`. `EventLoops` is any program
over one of the two classes: it has control between two polls and after each
callback has begun, and then may register, activate, deactivate, deregister, close
and reopen, also wrongly (`misuses` counts the calls that break the rules in the
module's head; exceptions end the program). `EventLoop` is what both classes
promise; `asked` is mapped to the events handed to the kernel and, after its answer,
to those still to be served. Registering an event on the fd whose callbacks are
running inserts into the map being iterated; with two flags libstdc++ does not
rehash, so that this is modelled as harmless.

**Session**: how a call begins. `RecvConfig` is an iteration of
`recv_config_msg`, `SenderSetUp` everything from the ConfigMsg to the frame timer,
with the checks that may end the sender (`Usable`). A packet is a source and a
sequence of bytes; `sent` is a set, so that packets are lost, repeated and
reordered. `Accepts` is the kernel's rule: an open port takes everything, a
connected one only what its peer sends, and `connect()` keeps what is queued.
A refused packet makes the source's next system call throw (`Refuse`,
`SenderRefused`). Of the call itself, datagrams go to the peer, which reads them,
and its ACKs come back and are read.

**WireFormat**: strings as sequences of bytes, `put_number` and `WireParser` as
operators. A message is written and read as a list of pairs of a field and its
width, one list for each `serialize_to_string` and one for each
`parse_from_string`, in the order of the calls there. The number of values of `w`
bytes is the recursive function `Power`, because the provers know nothing of `^`.

**Y4MInput**: `YUV4MPEG` and the reading half of `FileDescriptor`; a step is one
`read(2)`, which may give any part of what was asked for. `Readn` and `Getline` are
one iteration of their loops; the caller takes the result from `buf` in a step of
its own. A byte of a plane says which frame, plane and position it is from, so
that a frame counts as delivered only if the image is exactly that frame. `FileOf`
says which byte a file has at each position; a header is a line of tokens, none of
which is a newline or a byte of a picture (`HeaderAssumption`).

**Webcam**: `VideoDevice`, `RawImage::copy_from_yuyv` and the demo program. The
driver fills queued buffers at any time between the steps of `read_frame`, the copy
of the Y plane and that of the other two being separate steps; a camera may be
unplugged. The conversion is checked against the definition of the two formats
(`Picture`).

**VideoInput** puts the two together behind the interface of that name, whose
promise is **FrameSource**: each image is one whole frame, the next one of a file or
a later one of a camera.

Operators whose comment begins with "Mutant" are deliberately wrong variants of
the definition after them; `PROJECT.json` says which property notices each.

## 3. Runs

`tlc -config X.cfg M` in this directory.

| Run | Module, cfg | Shows |
|---|---|---|
| `encoder` | `MCEncoder` | `NeverThrows`, `RetransmissionsFirst`, `RtxBudget`, `FirstSendsInOrder`, also when the clock is set back |
| `encoder_clock_step` | `MCEncoder`, `MCEncoderClock.cfg` | **violated**: `GiveUpOnlyAfterTimeout` with a clock that is set back |
| `decoder` | `MCDecoder` | `CompleteMeansWhole`, `NoStaleFrames`, `NoAcknowledgedFrameLost`, refinement of `VideoStream` |
| `decoder_worker` | `MCDecoderWorker` | `NoLostWakeup`, `NothingLost`, `OneWriterInOrder`, refinement of `VideoStream`, `EverythingDecoded` |
| `call` | `MCVideoCall` | `NoSilentStall`, `FirstUnackedIsOldest`, `NeitherThrows`, `FrameIntact`, and `GiveUpOnlyAfterTimeout` while the clock is not set back |
| `packetize` | `Packetizer`, `MCPacketizer.cfg` | `FragmentsCoverFrame`, `ComputesPacketize` |
| `packetize_mtu` | `Packetizer`, `MCPacketizerMtu.cfg` | **violated**: `PayloadWithinMax` |
| `sender_loop` | `VideoSender`, `MCVideoSender.cfg` | `ArmedWhilePending`, `SendBufDrained`, `ErrorNoticed`, `InboxDrained`, `NoBusyLoop` |
| `session` | `MCSession` | `AgreedConfig`, `OnlyPeerServed`, `AcksEcho`, `ConfigEndsWait` |
| `session_invalid` | `MCSession`, `MCSessionInvalid.cfg` | **violated**: `InvalidIgnored` |
| `video_input` | `MCVideoInput` | `EndsForAReason`, `BuffersConserved`, refinements of `FrameSource` by file and camera, `ReadReturns`, `QuitNoticed` |
| `event_loops` | `MCEventLoops` | `TypeOK` (with it, that `roster_.at` finds every fd that was polled or can be reported), `CarefulNeverThrows`, `InterestMirrored`, refinement of `EventLoop` by both classes, `EventsHandled` |

Bounds. `encoder`: two frames of one or two fragments are enough for a
retransmission behind new data, for two batches of retransmissions, and for a
give-up with a queue that is not empty; the budget of two retransmissions lets
two copies of a datagram wait at once; `MAX_UNACKED_US = 0` and a clock of two
readings make each timeout reachable, and `TS_MOD = 4`, `RTT_MOD = 2` make each
difference wrap. `call`: four frames let the sender give up, send a key frame,
lose it and give up again (three clock readings); frames have one or two fragments,
at most four fragments together (`MaxDatagrams`, a state constraint), so that
there are long calls of small frames and short ones of larger frames.
`decoder`: five frames with
two key frames ahead, one of them fragmented, so that a skip can pass a complete
key frame and leave an incomplete frame behind, and a whole non-key frame can wait
for one before it. `decoder_worker`: three frames
are enough for one decoded, one in the local and one in the shared queue; one
frame fills the decoding buffer, which is too large. `packetize`: up to 60 bytes in payloads of 4
cover quotients past `max_payload`, where the remainder no longer fits.
`sender_loop`: two expirations and three messages, of which any may be no ACK,
and errors without bound.
`session`: two receivers and a stray host, a receive buffer of two packets (one to
be read, one of somebody else behind it), and configurations of the right and the
wrong size with frame rates 0, 1, 2 and 30; a byte has 8 values, so that every
number with more than one byte uses several of them and a swapped field or byte
shows. `video_input`: files of up to three frames of two by two pixels, cut short
at every length, with a right, an empty and three wrong headers, read seven times
(past the second rewinding), and pictures of four by four pixels from a camera with
up to three buffers (one held, one queued, one filled) and five frames. `event_loops`:
two fds, one with both flags, `MAX_EVENTS = 1` (fewer than fds, as 32 may be), and
one call that breaks the rules (`MaxMisuses`), after which everything else may
still happen.

Deadlock is checked, except for `decoder_worker` (the worker waits when the bounded
stream has ended, and an exception ends the process), `packetize`, `packetize_mtu`
(the loop ends), `session`, `session_invalid` (the sender may end, and every
receiver after it), `video_input` (reading ends) and `event_loops` (a poll of
nothing waits for ever, and an exception ends the program).

Fairness. `DecoderWorker`: weak fairness for both threads because the operating
system schedules them, strong fairness for taking the mutex because a thread that
finds it free again and again gets it; no fairness for new frames or for spurious
wakeups, so that `EverythingDecoded` rests on the notification alone.
`VideoSender`: weak fairness of the event loop (it is a loop in a scheduled
process) and of `SocketDrains` (the kernel sends what is in the socket's buffer);
none for timers and messages. `Session`: weak fairness of the sender's own steps;
none for the network or the receivers. `VideoInput`: weak fairness of the reading
program and of the camera program; none for the camera or the user. `EventLoops`:
weak fairness of the loop, and strong fairness of each fd being reported, because
the kernel moves the fds it has reported to the end of its ready list; none for
the program's calls or the events. The other specifications are safety only.

Findings.

1. `encoder.cc:210` divides by `max_payload + 1`: a frame of
   `q * (max_payload + 1) + r` bytes gets `q + 1` fragments and the last one
   `q + r` bytes, more than `max_payload` exactly when `r > max_payload - q`
   (`OversizedExactly`). Frames of at most `2 * max_payload` bytes are safe, the next
   larger one never is (`ShortFramesFit`).
2. `encoder.cc:142` subtracts readings of the system clock as unsigned numbers;
   when the clock is set back, the sender gives up on datagrams just sent.
3. `video_sender.cc:43, 217` mean to ignore invalid messages, but parsing a message
   of a known type that is too short throws (`serialization.hh:92`) and ends the sender.
   Nothing else does: without such messages the comments are right
   (`OnlyShortMessagesHarm`).

Met on the way, and in no text of the repository: `decoder.cc:278` refuses a frame
of exactly `MAX_DECODING_BUF` bytes; a receiver that ends takes the sender with it,
which until its next send or receive spins in `poll(2)`; `Epoller` throws in the poll
after a deregistered fd was closed, which `Poller` does not; an event registered
between `deregister` and the next poll is dropped by both; the webcam program looks
at its window only when the camera delivers something.

## 4. Proofs

`tlapm M.tla` checks module `M`. The theorems hold for all values of the
constants that satisfy the named assumptions of the modules (`MaxPayloadAssumption`,
`PacketizerAssumption`, `EncoderAssumption`, `IncomingAssumption`, `WorkerAssumption`,
`VideoCallAssumption`, `EpollerAssumption`, `EventLoopsAssumption`,
`VideoSenderAssumption`, `ByteAssumption`, `SessionAssumption`, `WebcamAssumption`,
`Y4MAssumption`, `HeaderAssumption`):
any number of frames, any sizes, any set of incoming datagrams, any clock, any
number of fds, receivers and buffers, any file. They are about types and, in
`WebcamAssumption` and `Y4MAssumption`, about even sizes of pictures (odd ones are not
modelled). Where a theorem needs more, it says so in its own hypotheses.

* **PacketizerProofs**: `TypeCorrect`, `CoversFrame`, `LoopIsPacketize`. The
  invariant fixes the copy pointer (`frag_id * max_payload` until the end) and
  says that what is queued is a prefix of `Packetize`. The arithmetic lies in
  `LastFragmentNotEmpty`: the full payloads never use up the frame. `OversizedExactly`
  and `ShortFramesFit` say which frames the violation of `PayloadWithinMax` is about;
  `LastPayload` computes the last payload from the quotient and the remainder.
* **EncoderProofs**: `TypeCorrect`, `SenderNeverThrows`, `UrgentFirst`,
  `SendsInOrder`. `NeverThrows` alone is not inductive: a datagram that was never
  sent must not be in `unacked_`. The invariant therefore says that the unsent
  datagrams in the send buffer are in ascending order behind the retransmissions
  (`FreshInOrder`) and above everything on the wire (`FreshAboveWire`), that
  copies and unacked datagrams have been sent (`RtxWasSent`, `UnackedWasSent`)
  and that all of them belong to frames below `frame_id_` (`FramesBelow`).
  `BudgetKept` proves `RtxBudget` in three parts: the limit for what is unacked
  (`UnackedBudget`) and for its copies in the queue, which are never ahead of it
  (`CopyBudget`), and that of two copies of a datagram the older waits behind the
  newer (`CopiesDescend`). `FirstIsOldest` and `GiveUpJustified` assume that the
  clock is not set back, and then that nothing was sent in the future
  (`SentBefore`); run `encoder_clock_step` shows the second to be false otherwise.
* **DecoderProofs**: `TypeCorrect`, `NothingStale`, `FragmentsCounted`,
  `AcknowledgedGoesOn`, `ImplementsVideoStream`. The refinement needs that
  `next_frame_` is the frame after the last one dispatched; counting needs
  cardinalities of sets of fragment IDs. `NoAcknowledgedFrameLost` needs that an
  acknowledged fragment stays in the buffer until `next_frame_` has passed its frame
  (`AcknowledgedKept`), that `next_frame_` passes a frame only by dispatching it or a
  later key frame (`PassedSettled`), and that the counts are exact. Its hypothesis
  `WellMade` is that the datagrams of a frame agree on its type and number of
  fragments, as a sender's do (in a call that is part of what `VideoCallProofs`
  proves); it also keeps the receiver from throwing.
* **DecoderWorkerProofs**: `TypeCorrect`, `Exclusion`, `WakeupsArrive`,
  `HandOverFaithful`, `WorkerImplementsVideoStream`, `OneThreadOutputs`. The wakeup argument needs
  mutual exclusion; the refinement needs that the dispatched frames are decoded
  frames, local queue, shared queue and the frame in hand, in that order, and that
  each dispatched frame may follow its predecessor (`Linked`). That the lines of the
  output file are in order follows from all of them being before the frame that the
  writing thread expects next (`WrittenSoFar`).
* **VideoCallProofs**: `NobodyThrows`, `FramesArriveIntact`,
  `SenderHoldsWhatIsNeeded`, and `CallRunsEncoder` and `CallRunsDecoder`: a call is a
  behaviour of `Encoder` and one of `Decoder`, so that the theorems about them hold in
  a call (`FirstIsOldestInCall`, `GiveUpJustifiedInCall`, `CallDeliversStream`). The
  invariant `CallInv` joins theirs (`PartsInv`) and adds that each datagram in either
  queue or on the wire is a fragment of the frame that was encoded (`AllGenuine`),
  that the receiver has put its frames together from such fragments and keeps what it
  acknowledged until the frame is behind it (`ReceiverInv`), and that from some key
  frame on each fragment is queued, unacked or acknowledged (`NothingForgotten`). The
  last two together say that what the receiver waits for is with the sender.
* **EventLoopsProofs**: `TypeCorrect`, `CarefulSafe`, `KernelFollows`,
  `LoopsImplement`. The invariant says that every polled fd and every fd of the
  kernel's list is in `roster_` (part of `TypeOK`), that the list has the events of
  `active_events_` (`Mirrored`), that there are answers only after the system call
  (`Rounds`), and that the fds of a program that kept the rules are open and known to the kernel (`Careful`); `InterestMirrored` and
  `CarefulNeverThrows` are not inductive without these. `NeverSleepsOnData` is about
  `video_sender`, a program over `Poller`: `POLLOUT` is active whenever the send
  buffer is not empty, between any two callbacks (`Armed`), and what `poll` was
  entered with is what is active while it sleeps (`AskedFor`).
* **SessionProofs**: `DatagramRoundTrip`, `ConfigRoundTrip`, `AckRoundTrip`: what is
  parsed is what was serialized, for all field values and for bytes of any number of
  values above three, 256 included (TLC uses 8). `Number` and `put_number`
  are recursive; the induction they need is made over sets of natural numbers, each
  of which has a least element (`SetInduction`). `PeerOnly`, `AcksAreEchoes` and
  `ConfigAgreed` follow from every packet of a receiver being the ConfigMsg it was
  started with or the echo of a datagram it got (`Genuine`), all datagrams going to
  the peer (`ToPeer`). `ConfigAgreed` has the hypothesis `NoStrayConfig`: a host that
  sends a whole ConfigMsg is one of the `Receivers`. The run's constants satisfy it.
  `OnlyShortMessagesHarm` is `InvalidIgnored` under the hypothesis `StraysParse`: other
  hosts send nothing that makes `parse_from_string` throw, and no whole ConfigMsg.
  What receivers send parses (`ParsedFacts`, from the round trips), and a peer that
  has ended stays so.
* **VideoInputProofs**: `NoBufferLost`, `CameraImplements` (`FrameSource` by the
  camera). `BuffersConserved` counts buffers; what keeps the driver from writing to the
  one being converted is that each has exactly one owner (`OneOwner`,
  `EveryBufferOwned`). The order of the images is that of the filled buffers
  (`TakenInOrder`), and an image is its frame because `copy_from_yuyv` computes
  `Picture` for every even width and height (`ConversionRight`).
  `ReadingEndsForAReason` and `FileImplements` (`FrameSource` by the file) are about
  `YUV4MPEG`. Their invariant `FileInv` speaks of each header with which the file may
  have been written, because a file cut short within its header may have several. For
  such a header it is known where each frame begins (`Start`), and the invariant ties
  the offset of every step to the number of frames read since the file was opened or
  rewound; that number is the last frame shown, or 0 if the last frame of the file was
  (`Turn`). While a plane is read, `buf` is the beginning of that plane (`Filling`).
  The properties say none of this and are not inductive without it. Below lie the
  layout of a file (`FileOfLayout`, by quotient and remainder of the position), that a
  shorter file is a beginning of a longer one (`WholeIsWritten`), and that
  `FramesInFile`, which counts bytes, is the number of whole frames (`FramesRead`).

The type invariants of these modules, and mutual exclusion of the receiver's
threads, are parts of the inductive invariants.

Only model-checked: liveness (`EverythingDecoded`, `SendBufDrained`, `ErrorNoticed`,
`InboxDrained`, `NoBusyLoop`, `ConfigEndsWait`, `ReadReturns`, `QuitNoticed`,
`EventsHandled`), which is out of the prover's reach. Every safety property of a passing
run has a theorem. Of the three violated properties, each false as it stands, the
theorems say under which condition it holds: `PayloadWithinMax` for which frames,
`GiveUpOnlyAfterTimeout` for which clocks, `InvalidIgnored` for which messages.

## 5. Not modelled

What libvpx and SDL compute; statistics; argument parsing; the 2^32 frame IDs and
2^16 fragments running out; images of odd width or height; `TCPSocket`, the options
of sockets, addresses; writing to and moving of `FileDescriptor`s; finite timeouts
of `poll`; the parts of `serialization.hh` that no message uses.

## 6. Plan

1. (done) `Protocol`, `Packetizer`, `Encoder`, `Decoder`, `VideoStream`,
   `DecoderWorker`, `VideoCall`, `Poller`, `VideoSender`, `Session`, and the proofs
   above.
2. (done) `WireFormat` below `Session`; `Epoller` and `Poller` under any program;
   `Y4MInput`, `Webcam` and `VideoInput`; socket errors in `VideoSender`.
3. (done) Proofs of the safety properties of `Encoder`, `DecoderWorker`, `VideoCall`,
   `EventLoops`, `VideoSender`, `Session` and the camera.
4. (done) Proofs of `Y4MInput`, and of the conditions under which the three violated
   properties hold.
