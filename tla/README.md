# Verification of ros2sonic

ros2sonic is the ROS 2 driver of R2Sonic multibeam sonars. It receives the
sonar's UDP datagrams, publishes them as ROS messages, and configures and
commands the sonar head and the simbox. This directory holds TLA+ models of it,
TLC instances that check them and TLAPS proofs. `PROJECT.json` lists the runs,
the mutants, the source lines behind every definition, the hazards, the findings
and the theorems.

## The system

| Part | State | Operations | Interacts with |
|---|---|---|---|
| `main` (`nodes/r2sonic_node.cpp`) | three receivers, their threads | start, spin, stop, join | receivers (`stop`), rclcpp |
| `UdpReceiver`, `DatatypeReceiver<BTH0/AID0>` | socket, `io_context`, one receive buffer | bind with retry, asynchronous receive, handler | kernel, node (`publish`) |
| AID0 path (`publish(AID0&)`, `Aid02RawAiAssembler`, `cleanMsgMap`) | map ping number -> unfinished image | raw message, header, section, complete, clean | sonar over UDP, topics `raw/aid0`, `acoustic_image` |
| BTH0 path (`publish(BTH0&)`, `bth02SonarDetections`) | the receive buffer, one message buffer | decode, detections, raw message | sonar over UDP, topics `raw/bth0`, `detections` |
| Parameters (`Parameters`, `onParameterUpdate`) | `parameters_`, besides the ROS parameters | load at launch, update | rclcpp parameter service |
| Device control (`send_cmds`) | none of its own | every second: R2DC to both devices, CMD0 to each | head and simbox over UDP |
| Packet and section classes | views on the buffer | accessors by chain of section ends | all receive paths |
| `discover` | socket, one timeout | broadcast, loop of `select` and `recvfrom` | devices on the network; shares a port with the driver's packets |
| `rtcm_converter` | none | one callback | stand-alone |

Threads: the executor (timer and parameter callback, one at a time), and one
thread per receiver. A receiver's handler runs in the receiver's thread, so the
two publish paths run concurrently with each other and with the executor. They
share no data that changes after construction: the message buffers of AID0 and
BTH0 are distinct, each under mutexes only its own path takes, and the
parameters the handlers read (`tx_frame_id`) never change after launch. This is
why the parts are modelled in modules of their own. The one thing the receive
path and the decoding share is the receive buffer: `NodeLifecycle` shows that no
receive is outstanding while a handler runs, and `BathymetryDetections`, which
has buffer, receive and handler in one module, what would be published otherwise.

What makes it hard: UDP loses, duplicates and reorders; the sonar restarts its
ping numbers while the driver runs; the receive buffer is reused and the length
of a datagram ignored, so what lies behind a datagram is older data; a new
assembler holds unwritten memory; numbers wrap; shutdown comes at any moment; a
list of parameters is applied one by one; nothing acknowledges a command; an
optional section is found only by where the one before it ends.

What makes each part correct:

- images: no ping mixed with another, what is received is what is published,
  each measurement in its cell, each ping at most once, nothing kept that is too
  old, nothing young dropped;
- detections: every value comes from the datagram the message is of, whatever
  the buffer held before, and both topics publish the same datagrams;
- process: the buffer is stable while it is read, a receiver listens until
  shutdown, the process ends when it is told to, and leaves no thread behind;
- control: silence unless asked for, no update can end the process, each
  device gets its own commands, and in the end the last ones;
- discovery: it prints the answers and only them, none in time is missed, it ends.

## Modules

`AcousticImages` is what the topic `acoustic_image` promises: a sequence that
grows by images that show one ping each, no ping twice.

`AidAssembly` is the AID0 path. `EmitPing`, `Reboot`, `Lose`, `Duplicate` are
the sonar and the network; everything from the socket buffer on is the code. A
datagram is taken by exactly one of `ReceiveRawOnly`, `ReceiveHeader`,
`IgnoreSection`, `StoreSection`, `CompleteImage`: the paths through
`publish(AID0&)` and `addPacket`, each with all it changes (raw message, map,
image, cleaning). `assemblers` is `acoustic_image_assemblers`; `raw` and `images`
record what was published. A pixel is the ping that measured it and the cell it
was measured in, so that mixing and misplacing show: `MeasuredAt` is how the sonar
lays out an M0 section, `MagnitudeIndex` where `M0::magnitude` looks, in its integer
types. Two kinds of undefined reads are choices: `Garbage`, what `h0_data_` of a
new assembler holds, and `Residue`, the numbers that bytes behind a header
datagram may spell as an M0 section. Ping numbers are integers below `U32`, and
the subtraction in `CleanMsgMap` is taken modulo `U32`. The sonar's own wrap at
`U32` is not modelled (years of pinging). Datagrams that fail `isType` change
nothing and are left out. Two things the code takes from the sonar unchecked are
assumptions: a section lies in the image it announces (`RasterAssumption`; `addPacket`
writes wherever the section says), and a datagram with H0 has an A1 (`addPacket`
asks it for angles, and `BeamAngle` would throw).

`BathymetryDetections` is the BTH0 path, from the kernel writing `recv_buffer_`
(`Arrive`, `ArriveOther`) to the two topics (`Dispatch`, `PublishDetections`,
`PublishRaw`; the two publications are steps, so that something could come in
between). Memory is cells, each of which says what was measured: section, place,
datagram. `R0` to `Q0` are the accessors of `packets::BTH0`, each at the `End` of the
one before; `Exists` reads what is there, from whatever datagram. A message is
described by the cells it was computed from, for an angle of A2 the set of steps
summed up. The abstraction takes three things for granted: SectionInfo says the
size the section has, a section has the same bytes per beam in every datagram,
and a measured value does not spell the name of a section. A short Q0 is followed
by other memory, whose bits are a choice (`FlagAllowed`).

`Discovery` is the program `discover`. `timeout` is the `timeval` that Linux changes
in place, so that it runs only inside `select` (`Left`) and over all calls
together; `arrived` is the history of the socket's queue, which has no bound of its
own. `socket`, `bind`, `sendto` and `select` may fail at any time.

`NodeLifecycle` is `main` and `N` receivers (3 in the code). `pc[r]` is where the
thread of a receiver is in `UdpReceiver::receive`, `main` and `cursor` where main
is. An asynchronous receive is `none`, `armed`, `ready` or `failed`; `stopped` is the
mark `io_context::stop` leaves, which also ends a later `run`. A handler is two
steps, so that anything may happen while it runs. `ok` is `rclcpp::ok`, cleared by
`Interrupt` at any moment after `rclcpp::init`; `spin` on a context that is
already shut down is taken to return at once.

`DeviceControl` is the constructor's parameters, `onParameterUpdate` and
`send_cmds`. `launch` and `store` are the ROS parameters, `params` is `parameters_`.
A request is worked off one parameter per step (`UpdateParameter`), because the
code goes on after a refusal; rclcpp has checked types before and sets its
parameters afterwards if all were accepted. A timer tick is four steps, each of
which sends one datagram or throws (`InvalidIpThrown`, which ends the process:
nothing catches it). The steps of the executor interleave with the network only.
Integers are narrowed as C++ does (64 to 32 bits, ports to 16 bits, floats to
a grid), with the widths as constants; addresses are either accepted by `inet_pton`
or not; the serial number is cut to its field. `config_id` is a hash, taken to be
injective. The devices are external: they adopt the configuration with their
serial number and obey what arrives at the address in it.
Of the network parameters only those whose value decides something are apart
(addresses and base ports of the devices); the others are `OtherIps`. A system
index outside 0..3 is undefined behaviour in the code and not modelled.
A missing return in `BigEndianPrimative::operator=` is harmless in the default,
unoptimised build, which is the one modelled.

The `MC...` modules hold values of constants. In the models, an operator that has
the same parameters as the next one and differs in a detail is a plausible
mistake in that code; `PROJECT.json` says which property notices it.

## Runs

Runs that must find no error:

| Run | Shows | Instance |
|---|---|---|
| `aid_lossy` | images match the raw topic, received pings are published, no image is kept beyond the window and none dropped within it, refinement of `AcousticImages`; a ping without loss is published in the end | loss and duplication, in order, fair receiver |
| `aid_udp` | types, isolation of pings and cells, no ping twice under its header, only images beyond the window dropped | loss, any order, reboot, garbage, residue; overlapping sections, two of which reach the last bin |
| `bathy_reuse` | types, values and flags of a message are its datagram's, topics agree | five sets of optional sections, one or three beams, three datagrams in any order, other datagrams between |
| `discovery` | types, only answers printed, timely answers found, the program ends | three datagrams of two names and three sizes, timeout of two ticks |
| `node_threads` | buffer, listening, no thread left; shutdown, binding, handling | two receivers, fair threads, errors, ports taken and freed, interrupt anywhere |
| `control_safety` | types, silence, visible cause of termination, no termination after commands, commands apart, one configuration | every launch with two devices, one request of up to two parameters |
| `control_liveness` | commands equal ROS parameters; devices reach the last commands | one request of one parameter, fair timer and network |

Runs that must find a violation, each a disagreement of the code with what the
repository says (quoted in `PROJECT.json`, "findings"):

| Run | What happens |
|---|---|
| `aid_clean_wrap` | completing a ping numbered below 10 erases unfinished images of newer pings |
| `aid_blank_header` | unwritten memory lets an image without header through |
| `node_interface` | datagrams of every interface are taken, whatever `sonar.interface_ip` |
| `control_partial` | a refused request has changed commands |
| `bathy_stale_flags` | a datagram without Q0 gets its flags from a Q0 that an earlier one left in the buffer |

Behaviour that the models have because the code has it, and that no property
judges: an image whose last bins come in sections of different beams goes out
with the first of them (`IsFinal`); an unfinished image from before a power cycle
is continued by a ping of the same number (`Raster`); with A0 and a single beam
the angle is 0 (`RxAngle`); bytes of an earlier datagram
behind a header may file it under another ping (`PingNo`); an integer parameter
beyond 32 bits is accepted and sent truncated (`ToInt`); while no image completes,
unfinished ones are kept without bound (`CleanMsgMap` is part of `CompleteImage` only);
a receiver whose receive fails has ended for good (`broken`).

Bounds. Two or three pings suffice for images, since assemblers meet only in
`CleanMsgMap`, which compares two ping numbers. `Window` is 1 instead of 10 (10 in
`aid_clean_wrap`). An unfinished image is dropped for its age in `aid_lossy`, where ping
0 is unfinished when ping 2 completes, and in `aid_udp`, where a header misfiled under 0
is; in both, ping 1 lies on the border and stays. The wrap below `Window`
needs a newer unfinished image: that is `aid_clean_wrap`, and `CompletionSparesWindow`
makes an exception for it. `U32` and `U16` are small because TLC's
integers are; only their relation to `Window`, the ping numbers and the bins
matters. An image has two or six cells and two or three sections: in `aid_udp`
they overlap, start behind bin and beam 0, and two of them are final. Two
sessions of the sonar give one reboot. One or three beams and two flags in a
word (eight in the code) give a Q0 of one and of two words, full and not; the
buffer holds the longest datagram and what lies behind it; three datagrams are one
more than a stale section needs. A timeout of two ticks can be used up in one
call of `select` or in two. Receivers do not share state, so two with two
datagrams each show every interleaving with main (three in the code; the safety
properties are proved for any number).
One system and three names of command parameters, one of each type, give every
path of the update loop; lists of two suffice for one refused and one accepted
in either order. `CHECK_DEADLOCK FALSE` stands where the system may rest: the
sonar has reached its last ping, the process has ended, or there is no control
mode and no request left, or the bound on datagrams is used up.

Fairness. `aid_lossy`: each datagram in the socket buffer is taken or lost, since
the receiver thread takes them one after the other (`run` blocks only when there
is none); the sonar is not obliged to ping, nor the network to lose or not to.
`discovery`: the process runs and time goes on; nobody owes an answer.
`node_threads`: the operating system runs runnable threads and completes a
receive when a datagram is queued; nobody owes signals, datagrams, errors or
free ports. `control_liveness`: executor steps and the timer are weakly fair (a
wall timer of one second), and a datagram sent again and again arrives again and
again (strong fairness); without it no protocol over UDP could promise anything.

## Proofs

Each `..._proofs` module proves theorems about the specification of its component
for all values of the constants, from the assumptions named in the component.

`AidAssembly_proofs`: `TypeCorrect`; `AssemblersStayIsolated`; `ImagesStayIsolated`;
`WindowKept`; `PingsPublishedOnce`; `TopicImplemented`. The isolation of images is not
inductive by itself: an image comes from an assembler, and its header is right
because the stored `PingNumber` and the header were written together and the M0
section was compared with the stored number, and its pixels because all that
were put into the map under a number carry it. `AssemblersIsolated` says so and is
preserved by every path of the handler, whatever the garbage and the residue.
That a pixel is in its place is the lemma `MagnitudeInPlace`: the index that
`M0::magnitude` computes, for a cell the section covers, inverts the layout of the
section, as long as bins fit 16 bits and a section 32 bits. The other side is
`WritesInPlace`: `data_idx` of a cell that a section covers lies in the image data and
is no other cell's, since sections lie in the image.
`PingsPublishedOnce` (once under its header) holds on any network that does not duplicate: the header of a
ping is a datagram in the air, in one assembler or in one image, never in two.
`TopicImplemented` is the refinement of `AcousticImages`, under `OrderedNetwork`:
datagrams keep their order, the sonar is not power-cycled, memory spells no number
of a ping, a final section has the last bin of all beams. Its invariant puts every
published ping behind all that is in the air, and finds every assembler either
blank or under its own header.

`AidTopics_proofs` says what the network has to do with the images. Three theorems
hold on every network: `NothingInvented` (what an image shows was on `raw/aid0`, if
that has a subscriber), `CleaningSparesNewerFromWindow`, and `ImagesGetHeader` (if
`Garbage` has no number of a ping that is sent). The others assume a network that keeps
the order, and that bytes behind a header spell no number of a ping.
Their invariant (`InOrderInv`) orders the datagrams by session, ping and part: what was
taken, stored or published is *past*, so that no datagram from before it can come
any more. Each theorem adds one part to it:

- `PublishedOnceInOrder` (once under its header): a published ping is past its last section, and no
  assembler holds its header. This is the other half of `PingsPublishedOnce`: that
  theorem excludes duplicates, this one reordering; with both, a header can come
  again after its image. `PublishedOnceForGood` adds what it takes for images
  without header: one session and `ImagesGetHeader`, and no ping number is published
  twice at all.
- `NoStaleKept`: what a completed image leaves in the map is within the window,
  and what comes later is newer. This bounds the age of what is kept and not its
  number. `MapHoldsRecent` does, in one session: `Window` images and one for each ping
  begun since the last published one, which is no bound while none completes.
- `ReceivedIsImaged`: a ping is always in one of four conditions, not begun, held
  by its own assembler with every section received so far, published complete, or
  short of a datagram that cannot come any more (`Tracked`). It needs a cut into
  sections as the receiver assumes it: the last section, and no other, has the last
  bin, and every cell is in a section (`CutComplete`); and, like the next one, a
  subscriber on both topics, since `raw` is the record of what was received.
- `TopicsTellOneStory`: what an assembler shows is what was received of its ping; an
  image shows it for good, since after the final section nothing of the ping can
  come. In one session (after a reboot the next ping of the same number continues
  an unfinished image), with no last bin before the last section, and no number of a
  ping in `Garbage` (`OneStory`).
- `CleaningSparesNewerInOrder`: in one session, whatever is in the map is older than
  the ping that is completed.

`ImagesGetHeader` and the two theorems on cleaning stand beside the runs
`aid_blank_header` and `aid_clean_wrap`: they say that nothing but the unwritten memory,
and nothing but a low number together with reordering, a reboot or a misfiled
header, leads to what those runs show.

`BathymetryDetections_proofs`: `TypeCorrect`, `DetectionsStayFaithful`,
`FlagsStayFaithful`, `TopicsStayTogether`, for any sonar configuration, any number of
beams and of flags in a word and any former contents of memory; and
`NoQualityDefaultsToOk`. The invariant says
what the buffer begins with while a datagram is handled; the lemmas behind it
walk along the chain: each accessor lands on the beginning of its section when the
section was sent, and on the beginning of the next one when not, which does not
have its name. The last section has no next one: there the argument ends, and
`bathy_stale_flags` begins.
`NoQualityDefaultsToOk` takes it up there: if no datagram has a Q0 and none was in
memory, there is none to be found behind the last section either, and every flag is
the default. It needs the buffer to be longer than a datagram by a section
(262144 bytes in the code).

`Discovery_proofs`: `TypeCorrect`, `ReportsAnswers`, `FindsTimelyAnswers`. The invariant
relates the timeout that is left to the time that has passed: `select` cannot have
used more than has passed, so that at a timeout everything that came in time has
been read.

`NodeLifecycle_proofs`: `TypeCorrect`, `BufferStaysStable`, `ReceiversListen`,
`ThreadsJoined`, from one inductive invariant. It adds that no receive is
outstanding in a handler, that `stopped` is set only after the context was shut
down, that a thread past the loop has a bound socket unless the context was shut
down, and that main has joined the receivers before its cursor.

`DeviceControl_proofs`: `TypeCorrect`, which includes that any integer fits its
field after narrowing; `SilenceKept`; `TerminationExplained`, whose invariant says
that an invalid address in `parameters_` is invalid in the ROS parameters too, and
also in what the current request proposes as long as it is successful;
`TickSurvived`, a temporal statement, and `CommandedNeverEnds`, which says the same of
what is on the wire and in the devices: commands to the simbox are sent only after every address was converted,
validity of all addresses is preserved by every step, and it excludes
termination; `CommandsStayApart` and `ConfigurationAgreed`, from an invariant that
says of every datagram under way which parameters it carries, those that no
request changes;
`SingleRequestsMirrored`, for requests of at most one parameter (`MaxList <= 1`;
`control_partial` refutes it for two).

Only model-checked: the liveness properties (`EveryPingImaged`, `ShutdownCompletes`,
`EventuallyListens`, `EveryDatagramHandled`, `DevicesCatchUp`, `Terminates`), which the
prover cannot state facts about ENABLED for. Every safety property of a run that
must find no error is the subject of a theorem.

## Not modelled

- The RTCM converter is one stateless callback that copies a message. Launch files,
  configuration, robot description, scripts and message definitions have no state.
- Log messages and the values of single measurements; byte order and the float
  formats, of which a value keeps its identity only.
- `system_index` outside 0..3, and a build that optimises away what follows the
  missing `return`: undefined behaviour whose outcome depends on the layout of memory.
- More than 2^16 bins in a ping (`SectionAssumption`), sections that reach out of their
  image (`RasterAssumption`), a header datagram without A1, and a ping number that wraps
  at 2^32.
- Several components at once: the receivers, the executor and the receive paths
  share nothing that changes (see above), so that their product would show the
  behaviours of the parts. What they do share is the process: an exception thrown in
  the timer ends it for all, which `DeviceControl` has as `InvalidIpThrown`.
