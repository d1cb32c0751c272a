# TLA+ specifications of onekvm-extension-vnc

These modules model the VNC extension of OneKVM: a program that forwards the
frames of a video encoder to VNC viewers and the viewers' input to a USB HID
gadget. They are checked with TLC on small instances and, where that is
possible, proved with TLAPS for all instances. All line numbers refer to the
sources in this repository.

## 1. Inventory

The repository has two servers. The one that is shipped is C++20 in `src/`, on
top of LibVNCServer; an older one in Go is in `internal/vnc` and `cmd`, which
neither `CMakeLists.txt` nor the recipes build.

| Component | Source | State it keeps | Operations |
| --- | --- | --- | --- |
| InputState | `vnc_server.cpp` 209-406, `vnc_server.hpp` 29-75 | modifiers and keys held, pending movement, urgent reports, two generations, a thread | `Key`, `Pointer`, `Release`, `FlushPointer`, `PointerLoop`, destruction |
| Frame delivery | `vnc_server.cpp` 572-634, 790-863, 1074-1501, `jpeg_rgb.*` | the latest frame, the decoded one, a framebuffer, `ClientData` and regions per viewer | the loop of `Run`: `PollClientEvents`, `SyncSubscription`, `ProcessFrame`, `FlushJPEGWrites`, `Resize`; the hooks of LibVNCServer; `SetFrame` from the media thread |
| Shared frame ring | `protocol_ipc.cpp` 83-110, 274-404, 695-722 | slots in shared memory, an eventfd, leases | `TakeLatestFrame`, `RingLease`, the poll loop; the core writes frames |
| Audio delivery | `vnc_server.cpp` 684-788, 832-840, 865-1072 | a queue of packets, per viewer a format, a backlog and a stage | `QueueAudio`, `ProcessAudio`, `SyncAudioSubscription`, messages |
| Subscriptions | `protocol_ipc.cpp` 506-835 | a thread and a socket each for media, audio and capabilities | `Start`, `Stop`, `Run` with reconnection and backoff |
| Session reporter, video query | `protocol_ipc.cpp` 474-504, 612-633 | none | one exchange each |
| AdminHID | `admin_hid.cpp` | a connection that is kept open | `Post` |
| Key map | `keymap.cpp`, `scancodes.hpp` | none | keysym to usage and modifier |
| Start and idle exit | `main.cpp`, `socket_activation.hpp`, `vnc_server.cpp` 1488-1512 | the inherited listener and its backlog, a deadline, the flags by which threads and signals end the process | `TakeListener`, `Run`, `IdleTimeout` |
| Configuration | `config.cpp` | none after the start | `LoadConfig`, `ValidateConfig` |
| Go server | `internal/vnc/sink.go`, `input.go`, `cmd/onekvm-protocol-vnc/main.go` | consumers, an H.264 buffer, an encoder, clients | `Sink`, its clients and its continuous updates |

How they interact. LibVNCServer calls hooks on the one foreground thread, inside
`PollClientEvents`. Keys and pointer events go to InputState, whose own thread
makes HID calls through AdminHID. The media thread hands frames to the
foreground thread with `SetFrame`, under `frame_mutex_`, and rings an eventfd; the
frames are leases on the ring that OneKVM's core fills. A frame's lease is shared
by `latest_frame_`, the pass that works on it and the output of each viewer.
`SyncSubscription` starts the media subscription with the first viewer and stops
it, joining its thread, with the last.

What is hard about it:

* two threads share the pointer state, and the one that sends does so without
  the mutex; a key must still follow the pointer input before it;
* `FlushPointer` blocks the only foreground thread until the other thread
  completes a generation, which coalescing may skip;
* JPEG output is nonblocking and may stop in the middle of a message, while the
  library wants to write replies and a new size of its own;
* one decoded framebuffer serves all viewers, each with its own damage, and both
  resizing and a decode that fails overwrite it;
* the ring is read with single loads while the core writes it, and slots are
  given back by whichever thread lets go of them last;
* subscriptions are stopped while their threads connect, sleep or read;
* audio packets wait in three places, a queue that drops, a batch and a backlog
  per viewer, while formats change, writes fail and JPEG messages are unfinished;
* HID calls share one connection that either side may end at any time, and an
  answer may come after its caller has given up;
* the process ends when it is idle, and a connection may come at that moment; the
  core may change its audio setting, restart or be replaced at any time, and the
  thread that watches it may be connecting, reading or asleep.

PROJECT.json lists each of these hazards at its line, with the properties that
cover it or the reason why none does.

What makes each component correct. InputState: order, and nothing lost but
movement that newer movement replaces; nothing held when nobody watches; every
wait ends. Frame delivery: whole messages, no damage forgotten, no picture shown
that was not a frame, requests answered. Ring: a leased frame is not touched, no
slot is lost, frames arrive in order. Audio: a well-formed and complete stream, in
time, for whoever keeps up. Subscriptions: each thread uses its own descriptor
only, and stopping it ends. AdminHID: no call is carried out twice or believed
carried out when it was not, and each ends. The process: waiting connections are
served, an unused process goes away, and one in use is ended only for a cause.

## 2. Modules

| Module | What it models |
| --- | --- |
| `HIDReports` | the posts of a pointer report and what a post or a keyboard report does to the controlled host |
| `InputOrder` | what InputState promises, without threads: a queue in which only movement may be replaced, and no key before earlier pointer input |
| `InputState` | the implementation: two threads, one mutex, two condition variables, HID calls that may fail |
| `InputStateProofs` | types and invariants of InputState, and that its threads never wait for one another, proved |
| `InputStateRefinement` | InputState implements InputOrder, proved |
| `FrameDelivery` | the foreground loop, the viewers and their output, the framebuffer and the decoder |
| `FrameDeliveryProofs` | types and invariants of FrameDelivery, the order of its output, and that requests are kept, proved |
| `FrameMailbox` | what the ring promises, without slots, leases or shared memory: frames are handed over as values, in order |
| `SharedRing` | the implementation: the ring between the core, the media thread and the leases |
| `SharedRingProofs` | types and invariants of SharedRing, and that it implements FrameMailbox, proved |
| `AudioDelivery` | the audio queue, each viewer's backlog and the stream it is sent, resampling |
| `AudioDeliveryProofs` | all the invariants of AudioDelivery, and what `ConvertAudio`'s loop counts, proved |
| `Subscription` | the threads that keep connections to the core, and how one is stopped |
| `SubscriptionProofs` | types and ownership of descriptors of Subscription, and that a stop is heard, proved |
| `HIDChannel` | what AdminHID promises, without connections: posts one at a time, none carried out twice, none reported to have succeeded that was not carried out |
| `AdminHID` | the implementation: two threads, a mutex, a connection that is kept, the core's HTTP server |
| `AdminHIDProofs` | types and invariants of AdminHID, and that it implements HIDChannel, proved |
| `Service` | the process from socket activation to its exit, the capability thread, the sessions that are reported to the core |
| `ServiceProofs` | types of Service, that a process with clients ends only for a cause, and that one in use is watched, proved |
| `MCInputState`, `MCFrameDelivery`, `MCSharedRing`, `MCAudioDelivery`, `MCSubscription`, `MCAdminHID`, `MCService` | the small instances that TLC checks |

A definition whose comment calls it a faulty variant is not part of a
specification. It is the definition after it with a plausible mistake, and
PROJECT.json names the property that notices the mistake when it is put in place.

### InputState

State. `modifiers`, `keys`, `pending`, `buttons`, `position`, `urgent`,
`generation`, `completed` and `stopping` are the members of the class. `pc` and
`thread` say where the foreground thread and the pointer thread are; `flushed`
and `notified` are the signals of the two condition variables, `due` the cadence.
`wire` holds the posts of the report that is being sent, `host` what the
controlled machine has received, `lost` counts the posts that failed.

Actions. Each is one critical section, one HID call or one step of a condition
variable. `Pointer` ends with the signal that the code sends after unlocking, so
the signal is a step of its own (`Notify`); `Flush`, `FlushWake` and the steps
that follow are `FlushPointer` and its callers; `LoopExit`, `LoopSleep`,
`LoopWake`, `LoopAwaitTick`, `LoopTimedWake`, `TakeUrgent`, `TakeMovement`,
`SendPointer` and `Complete` are the loop of the pointer thread. A spurious wakeup
needs no action: it evaluates a predicate that is evaluated again later.
`EarlyStart` lets the new thread run before the members declared after it have
their values, which the language allows and which makes its first read of
`pointer_stopping_` a choice.

### FrameDelivery

State. One record per connection holds the fields of `ClientData` that matter,
LibVNCServer's requested and modified regions as sets of tiles, and `view`, what
the viewer shows. `latest`, `sequence`, `size`, `framebuffer`, `previous` and
`decoded` are the members of VNCServer; `pass` holds the locals of
`ProcessFrame`. `jpegDue` and `pixelsDue` say that the frame intervals have
passed. `torn` records the viewers that were written to inside a JPEG message.

Actions. `Poll` is `FlushJPEGWrites` and the reaping of closed sockets; `NewClient`,
`ClientGone`, `FramebufferUpdateRequested`, `ContinuousHandleMessage` and
`EnableEncoding` are the messages of the viewers; `SyncSubscription`,
`NothingToServe`, `Resize`, `BeginPass`, `Skip`, `QueueJPEG`, `RefuseJPEG`,
`DecodeLatestFrame`, `DecodeFails`, `SendFramebuffer`, `SendFails` and `EndPass`
are the rest of one turn of `Run`. `SetFrame` may come between any two of them,
as it does in the code, where the pass works on a copy. A JPEG message is
`Chunks` pieces; each poll may send none, one or all of what is left, or fail.
`TwoSeconds` is the time limit of an output.

Abstracted: a frame is a colour per tile, a decode either gives its colours or
overwrites everything with `Garbage`; rectangles, encodings and scaling are left
out. So is the length of a frame, and whether a viewer's JPEG goes out as native or
Tight JPEG: `RefuseJPEG` may refuse any frame to any JPEG viewer, which is more than the
code does (what is no JPEG natively, more than 0x3fffff bytes as Tight, output of the
library that is still unsent). Sessions, fatal errors and the end of the loop are in Service. Not modelled:
the set-up of the server and its password.

### SharedRing

State. `slots` are the headers in shared memory, `notified` and `event` the flag
and the eventfd, `pc`, `index`, `selected`, `newest` the media thread, `latest`,
`frame` and `pending` the leases, `leased` (a history variable) the sequence
number each lease was taken for.

Actions. `Scan`, `Compare`, `Select` and `Discard` are the accesses of
`TakeLatestFrame` to the shared memory, one action each, so the core (`Claim`,
`Write`, `Publish`, `Signal`) may move between any two. `Refuse` and `Deliver` end
it. `BeginPass`, `QueueJPEG`, `EndPass` and `FinishJPEG` take and end the leases of
the foreground thread. The core is not in this repository: it is modelled as
what `TakeLatestFrame` is written against, a writer that uses FREE slots and takes
back READY ones. The end of a subscription is not modelled here, nor the mapping
of a new ring.

FrameMailbox is what the rest of the extension takes the ring for: numbered frames
that are offered, may be withdrawn, and arrive in order; who has one keeps it as it
is. `ImplementsMailbox` maps what is READY or being taken to the frames on offer, and
every lease to the sequence number that its slot holds *now*, so it fails as soon as
the core writes into a slot that somebody still has, and as soon as an older frame
is delivered after a newer one.

### AudioDelivery

State. `client` holds the audio fields of `ClientData`, `jpeg` (the viewer has an
unfinished JPEG message, all that matters here of FrameDelivery) and `ear`, what
the viewer can tell of its stream; `queue` is `audio_queue_`; `lost` (a history
variable) the packets that a full queue dropped. A packet is its number and its
length. `Closed` is a connection that has been closed and not yet reaped: its data
is not looked at any more.

Actions. `QueueAudio` is the audio thread. `Poll`, `EndOfPoll`,
`SyncAudioSubscription`, `ProcessAudio` and `ProcessFrame` are one turn of `Run`;
between the first two come the viewers' messages: `AudioEnableEncoding`,
`AudioEnable`, `AudioDisable`, `AudioSetFormat`, and `ClientGone`, which also stands
for a refused message and a failed answer. A viewer with unfinished JPEG output is
not read. `ProcessAudio` is five steps, between which the audio thread may queue
more: `TakeQueue` moves the queue into `batch` under the lock; `Defer` appends one
packet to the backlog of every listener; `Serve` closes who is too far behind,
announces the extension and sends the beginnings; `SendPacket` converts and sends
one packet of one viewer's backlog; `EndAudio` goes on to the frames. The code goes
from viewer to viewer and does all of this for each; since nothing of one viewer's
depends on another's, the model may do the first part for all of them at once.
`Taken` and `CarryOver` are the closed form of `ConvertAudio`'s loop. `Poll` and
`ProcessFrame` may start and finish JPEG messages more freely than FrameDelivery
does. Sample formats, channels and the interpolated values are left out; so is a
server whose core offers no audio, where all of this is off.

### Subscription

State. `thread` is where the thread of each subscription is in its `Run`, with its
locals; `stopping` and `socket_fd` are the atomics it shares with the foreground
thread; `file` is the descriptor table of the process; `foreground` is where the
foreground thread is in `Stop`; `failed` records who ended a connection of the
capability subscription when `failed_` was called.

Actions. The three classes have the same shape and are one set of actions, with
the differences as conditions: the media thread asks for the ring and falls back
to framed messages (`Handshake`), the capability thread looks at `stopping_` again
before it sends (`Recheck`), ends when its connection does (`Report`), and closes
after each message when the core has no events (`Reads`). `Stop`, `StopLoads`,
`StopShuts`, `StopJoins` are the four steps of `Stop`. The kernel gives out the lowest
free number. What the core does wrong is bounded by `MaxFaults`. The audio thread's
`Run` is the media thread's without the ring, so the passing run has media and
capability, and the other one audio and capability.

Left out: before its loop the audio thread creates an Opus decoder. If that fails
(protocol_ipc.cpp:778-786), the thread reports it and ends, with no connection made;
`Stop` then joins it as usual, and until then there is no audio. `Resubscribed` is
therefore about an audio thread that has its decoder.

### AdminHID

State. `pc` and `post` say where each of the two threads is in `Post` and with which
request; posts are numbered as they are begun. `socket` is `socket_fd_`, named by the post that
made the connection, so a later connection is a different one. `open`, `requests`,
`answers` and `task` are the connection as the core sees it. `applied`, `result`,
`faults` and `lost` are history: how often the core carried out each post, what
its caller was told, what went wrong and how many posts failed.

Actions. `Begin` takes the mutex and finds whether there is a connection;
`Connect`, `ConnectFails`, `Write`, `WriteTimesOut`, `WriteFails`, `Read`,
`ReadFails` and `ReadTimesOut` are the calls `Post` makes in their order, each
with its error path; `Destroy` is `~AdminHID`. The core serves each connection by
itself: it takes a request and carries it out (`CarryOut`) or not (`Refuse`),
answers it well or garbled, with or without the end of the connection (`Answer`), and
may end a connection at any time (`HangUp`). What the client wrote before it closed
is still read, so a post that timed out may be carried out later. The text of
requests and responses is abstracted to valid or not, success or not, and whether
the header asks to close. `WaitFor`'s two seconds are for each read or write and
not for a post; the model has one read for an answer.

### Service

State. `pc` is where `Run` of main.cpp and of VNCServer are; `"none"` is no process.
`activated` says whether the listener is the manager's, and so outlives the process.
A viewer is away, in the listener's backlog (`"queued"`) or a client. `info` is what
QueryVideoInfo said about audio, `quiet` that thirty seconds have passed since
`last_active_`, `flags` the atomics that end the loop, `monitor`, `link` and `news` the
capability thread, its connection and the messages on it. `core` and `known` are
OneKVM's core: running or not, with audio or not, old or new (with events), and
the sessions it knows.

Actions. `Begin`, `Activate`, `Query`, `Construct` and `Check` to `Return` are the
process in the order of the code; `Activate` is `TakeListener`, which ends an activated
process without a waiting connection. `NewClient`, `ClientGone` and
`FramebufferUpdateRequested` are the hooks inside `PollClientEvents`; `Rest` is the rest
of the turn with the idle timeout, `SetFatal` the media thread's `fatal_callback_` (the
audio thread only logs its errors), `Fails` a
failing `ProcessAudio` or `ProcessFrame`. `Connect`, `Read`, `Probe` and `Finish` are the
capability thread: with a core that has events it keeps one connection, with an
older one it connects, reads one message and asks again after a second. Around
them the audio setting changes (`AudioChanges`) and the core stops and starts, perhaps
as a newer version or an older one. An older one is taken to end a connection on which
it is asked for events, as it does not know the request. The end of a process (`Exit`) closes its connections; without
activation it closes the listener with its backlog too.

## 3. Runs

| Run | Instance | What it shows |
| --- | --- | --- |
| `input` | one viewer, Shift and a letter, two button masks, a wheel, two pointer events, one post that fails, with fairness | order of generations, no lost wakeup, every tick arrives, no key overtakes pointer input, nothing is held when nobody watches, InputOrder is implemented; flushes return, movement and transitions are sent, destruction ends |
| `input_early_start` | `EarlyStart` | **violated**: a pointer thread that starts early may end at once |
| `frame_safety` | two viewers, two tiles, two colours, two sizes, two frames, messages in two pieces | messages do not interleave and are written to their end, no damage is lost, no empty or broken picture is shown, what is cached is current |
| `frame_liveness` | one tile, two viewers, three frames, with fairness | requests are answered, a resize ends |
| `frame_regions` | one viewer that asks for halves of the screen | **violated**: the second half is not sent until there is another frame |
| `ring` | three slots, two viewers, four frames, valid and invalid headers, with fairness | leases hold, no slot is lost, FrameMailbox is implemented, nothing stays unseen |
| `ring_newest` | two slots, two frames | **violated**: a frame that is published during the scan is thrown away |
| `audio` | two viewers, a rate of 3 and frequencies 2, 3 and an invalid one, four packets of one or two sample frames, a queue of two packets, backlogs of eight samples | types and limits, well-formed streams, nothing lost but by a full queue, no drift, only who was behind is cut off |
| `subscription` | media and capability, two descriptors, two faults, cores with and without ring and events, with fairness | own descriptors only, none left, `Stop` returns, video comes back |
| `subscription_reuse` | audio and capability, two descriptors, one fault | **violated**: `Stop` shuts down another thread's connection |
| `admin_hid` | two threads, four posts, three faults of the core, any number of timeouts, with fairness | HIDChannel is implemented, a kept connection is clean, a fault costs one post, every post returns |
| `service` | one viewer, two changes of the audio setting, one restart of the core, one fault or signal, with fairness | waiting connections are served, an idle process ends and none ends under a client without cause, audio changes are followed, and so are restarts of the core that the capability thread can see, a signal ends the process |

Why these bounds are enough. In InputState two pointer events are a movement and a
transition that supersedes it, or one that comes while the report before it is being
sent; with a key and its modifier that is every pair of actors. `GenerationOrder`,
`NoLostWakeup`, `KeyNeverOvertakes`, `EveryTickArrives`, `ReleasedWhenUnwatched` and
the refinement are proved for any number of viewers, keys and events, so the run is
there for liveness, which needs one event that is coalesced and one that is not. In
FrameDelivery two tiles tell damage that is kept from damage that is lost, a third
colour would only rename what two can show, and two frames make an older decode and a
newer frame; `frame_liveness` has three so that a request can be served, repeated and
served again. Two pieces make an unfinished message. In the ring, three slots are one
that is held, one that is read and one that is written. In AudioDelivery a rate of 3
has frequencies that divide it and that do not (4 is refused), packets of one and two
frames make a conversion that ends inside a step, and four packets fill the queue and
exceed a backlog; with `MaxQueued` packets of the greatest length within `MaxDeferred`
(`ShortPackets`), as the core's usual 20 ms packets are (12 * 1920 of 48000 samples),
no viewer is closed that was not behind. Packets of more than 40 ms, which Opus
allows, would break that. In Subscription two threads are one that closes a descriptor
and one that is given it. In AdminHID four posts are one on a new connection, one on a
kept one, one that finds it closed and one after that; three faults let two of them
coincide. In Service one viewer may wait, be served, leave and come back; two changes
of the audio setting go there and back again between two looks at it. Two viewers with
one change were checked as well, with the same result; `DroppedForCause` is proved for
any number. Apart from these, `InputState`'s, `FrameDelivery`'s, `SharedRing`'s and
`AudioDelivery`'s invariants of safety are proved for all bounds (section 5).

Only counters that grow for ever are bounded, in the guards of the actions that make
them grow: `MaxGeneration`, `MaxLost`, `MaxViewers` (InputState), `MaxFrames` (frames
of a subscription; frames of the core in SharedRing), `MaxPackets`, `MaxPosts`,
`MaxChanges`, `MaxRestarts`, and `MaxFaults` (what goes wrong in Subscription, AdminHID
and Service). In AdminHID timeouts and failing connects are not bounded.

Symmetry is used in `frame_safety`, over tiles and colours, and in `audio`, over
viewers: no definition tells them apart. Deadlock is not checked where the system
may stop: in `input_early_start`, which is about stopping, in the two ring runs, whose
core publishes a bounded number of frames, in the two subscription runs, where the
service ends, and in `admin_hid`, where the object is destroyed in the end.

Fairness. InputState: each thread goes on when it can, the mutex is not kept from
a thread for ever, time passes and a HID call ends, as it has a timeout. Viewers
owe nothing. FrameDelivery: `Run` goes on because its poll has a timeout of its
own; intervals pass, strongly fair because a pass reads the clock once and the model
stops it meanwhile; two seconds pass for an output. Viewers need not read, and the
media thread need not deliver. `RequestsAnswered` is checked for incremental requests only:
a full request ignores the frame interval and restarts it, so a viewer that sends
nothing else can starve another (a hazard in PROJECT.json). SharedRing: the core
finishes a frame it has begun, the media thread goes on, a pass and an output end
(by the two-second limit); the core need not publish another frame. Subscription:
the scheduler runs every thread, the core accepts connections (a connection
attempt has a timeout of three seconds) and answers the request for the ring; it
need not send anything after that. The answer is a real assumption: a media
thread that connects just after `Stop` looked for its socket waits in
`ReceiveSharedRing` without a timeout, and `Stop` waits for it. AdminHID: a thread
that is in `Post` goes on; the core owes nothing, since waiting for it ends after two
seconds. Service: the two threads go on, thirty seconds pass, a core that has
stopped is started again, and the service manager starts the process for a
connection that waits, which is what socket activation is. `NewClient` is strongly
fair: every turn of the loop polls the listener, and the process may be elsewhere or
not run at all in between. Faults, signals, arrivals and departures may happen or not.

## 4. Disagreements found

* `vnc_server.cpp:210`: the pointer thread is started by a member initializer,
  before `pointer_stopping_` and the rest have values. If it takes the
  indeterminate flag for true it ends, and all pointer input is queued for ever,
  and the next key waits for ever (`input_early_start`).
* `vnc_server.cpp:1414`: a viewer is skipped while `last_sequence` is the current
  sequence number, so a request for another region of a frame that was partly
  sent is not answered, though README.md:76-78 says that requests stay pending
  until their region changes and damage accumulates (`frame_regions`).
* `protocol_ipc.cpp:387`: the loop that frees superseded slots does not compare
  sequence numbers, so it also frees a frame that is newer than the selected one.
  With a steady stream the next frame hides this; if the picture stops changing
  at that frame, viewers keep the one before (`ring_newest`).
* `protocol_ipc.cpp:772`: `Stop` loads the socket number and shuts it down in two
  steps. If the thread closes that descriptor in between and another thread opens
  a connection, which gets the same number, that one is shut down. Media and audio
  reconnect; the capability subscription calls `failed_` and the service ends,
  though README.md:71 calls its connection persistent (`subscription_reuse`).

## 5. Proofs

InputState (`InputStateProofs`, `InputStateRefinement`). Assumptions: those that
`InputState` names for its constants; the invariants about the loop hold for any
number of keysyms, buttons, positions, viewers and events, and the refinement is
stated for a thread that starts after construction (`~EarlyStart`), since it is
false otherwise. `IInv` is inductive relative to `TypeOK`:

* `Phases` says what a program point knows: a thread that has ended was asked to,
  a report on the wire exists only while it is being sent;
* `GenerationOrder` is itself inductive: the outstanding reports carry increasing
  generations and the last carries the newest, so a flush that waits for the
  newest generation waits for all of them;
* `NoLostWakeup` is inductive with it: whoever sleeps with work to do is about to
  be signalled;
* `Settled` links a flush that has returned to the absence of outstanding reports;
* `Delivery` and `KeyboardDelivered` link what was asked for to the newest report
  outstanding, or else to the host. From them follow `KeyNeverOvertakes` and
  `ReleasedWhenUnwatched`.

`EveryTickArrives` needs the sum of the ticks in the urgent queue. A sum is a
recursive definition, of which nothing can be proved here, so `TicksAhead` says that
there *is* a function of running totals over the queue (`TicksBetween`): it starts at
what the host and the report on the wire amount to and ends at what was asked for.
Appending, removing the head, and emptying the queue each have a lemma that gives the
new function. `NeverBothWait`, the safety half of `FlushReturns` and
`DestructionEnds`, follows from the invariants above, from `ThreadOutlivesInput` and
from `AskedToStop`; it too is stated for `~EarlyStart`, and `input_early_start` shows
why.

The refinement maps the urgent reports followed by the coalesced movement to the
queue of InputOrder. Its hard steps are a transition that supersedes a movement,
which must be an append after the removal of the movement, and keyboard reports,
which need `Settled`.

SharedRing (`SharedRingProofs`). Assumptions: at least two slots (which
`ReceiveSharedRing` requires), validity a set of Booleans. The inductive invariant
adds to `TypeOK`, `LeaseIntact` and `NoSlotLost`:

* `Phases`: the slot the core works on is being written, and the media thread has
  a selected slot when it discards or checks;
* `TakenAlone`: a slot that is being taken has no other holder, without which
  giving back a frame with an invalid header would free a leased slot;
* `Numbers`: every slot that is not being written has a sequence number that was
  published;
* `Fresh`: what is READY is newer than what was delivered. It needs the discarding
  loop: behind its index nothing older than the selected frame is READY.

`Ownership` restates the invariants about leases for one slot, and a lemma for
each way a step can change slots and leases (`OwnersUntouched`, `OwnersLetGo`,
`SlotSteps`, `CoreSteps`) keeps the cases short. `FramesInOrder`, which no run checks
(the refinement implies it), follows from `Fresh` and `LeaseIntact` in the step that
delivers.

`RingIsMailbox` is the refinement. What changes a slot without changing what is
offered or held stutters; writing and discarding withdraw; `Deliver` needs `Fresh` and
the discarding loop for "the oldest on offer, and newer than the last". `Positive`
(a frame that anybody sees has a number) keeps frames apart from the mailbox's 0.

`NoFrameForgotten` is the safety half of `FramesAreTaken`: a media thread in poll with
a frame READY has been signalled or is about to be. Alone it is not inductive.
`Announced` says where in the scan a frame can be READY with no signal to come (not
yet passed, or passed with another one selected, which the discarding loop then
meets), and that the flag is set only while a signal is on its way or about to be
cleared.

Subscription (`SubscriptionProofs`). Assumptions: descriptors are natural numbers,
so that `None` is none of them, and a free entry of the table is no connection. The
inductive invariant, `TypeOK /\ Descriptors`, adds to `PublishedIsOpen` and
`NothingRetained` only `Local`: the places in `Run` where a thread holds a number,
and that it has published none but that one, and none while it is at "store" or
"close". `Close` needs it, or it would free a number that Stop can still load. Two
threads never hold the same number because an entry of the table names one owner.
A step that leaves numbers and owners alone is covered by one lemma (`Moves`); only
connecting, storing, withdrawing and closing need a proof of their own. That Stop
shuts down the right connection is not a theorem: `subscription_reuse` refutes it.

That it shuts down the one it means to, if its thread still reads from it, is one
(`StopIsHeard`, the safety half of `StopReturns`). `Heard` is inductive: a thread that
serves has published its number, and blocks in a read only after it found
`stopping_` unset; `Stop` sets it before it loads the number.

AdminHID (`AdminHIDProofs`). Assumption: the bounds are numbers. The inductive
invariant says which stage of an exchange a connection is in at each point of `Post`
(`Serial`, `InUse`), that posts not yet made have left no trace (`Unmade`), and what
may be left on connections that were closed (`Leftover`): nobody waits for it, no
post is on its way twice, and one that is still to be read has not been carried out
and its caller was told of a failure. `LostPerFault` alone is not inductive: a
connection that the core has closed and that is still kept will cost another post.
`Budget` counts that cost in advance. The refinement maps the requests of failed posts
that the core may yet read to the channel's `doubtful` posts.

Service (`ServiceProofs`). Assumption: the bounds are numbers. `IInv` adds to the types
that nobody is a client before the loop runs (`NoneYet`) and that with clients the
loop is only left for a cause (`LeftForCause`). `Watching` is the invariant of the
capability thread: it runs exactly while the process serves, has told main to end
when it has ended, and the last message it has yet to read, if the core sends events,
is the core's audio setting (`UpToDate`). `NeverUnwatched` and `StaleIsNoticed`, the
safety halves of `SignalEnds` and `AudioFollows`, follow.

FrameDelivery (`FrameDeliveryProofs`). Assumptions: those about the constants, and
that `NoFrame` and `Absent` are no frame and no client (`FrameAssumption`,
`AbsentAssumption`). `IInv` has a part for each viewer and one for what they share:

* `Sound`: a viewer with nothing to write has written nothing; one that only takes
  pixels has no JPEG output, shows colours of frames, and shows the decoded frame but
  for its damage. The last is `DamageKept` in a form that looks at one viewer;
* `PassInv`: a pass serves the frame it began with, which is the newest unless the
  media thread has set another;
* `CacheInv`: the framebuffer holds the decoded frame until a decode fails or a resize
  empties it, and then the frame to be served next is not the decoded one, so that
  it is decoded again before anything is sent. `ShowsOnlyFrames` needs it.

`MessagesApart`, `NoDamageLost`, `FramesOnly`, `CacheIsCurrent` and `OutputEnds` follow
for any number of viewers, tiles, frames and pieces of a message; so does
`ClosedAreReaped`, which no run checks as it is a part of the invariant.

`Attention` is built on `IInv` and is about requests. `Heeded` (what was asked for is
kept together with the mark that it is due) gives `NoRequestForgotten`, and `Prompt`
(a viewer served with the newest frame shows it, or will once its output is written)
gives `AnswerDue`: the two halves of what `RequestsAnswered` needs besides fairness.
`Prompt` holds only if viewers ask for the whole screen, which is the hypothesis of
`AnswersDue`; for viewers that ask for parts `frame_regions` refutes it. Neither is
claimed for viewers that change between JPEG and pixels, as `DamageKept` is not, nor
for a viewer that may have continuous updates while they are switched off: switching
them off ends its requests (`Awaited`).

AudioDelivery (`AudioDeliveryProofs`). Assumptions: those about the constants. `IInv`
has `Good` for each open connection and the packets that wait for all of them:

* `Speech`: a viewer that knows of the extension has been told of it or will be
  before anything else, and a beginning has been sent exactly when it is playing;
* `Drift` is `NoDrift` for one viewer, kept by `SendAudioData` because `CarryOver` leaves
  what `Taken` did not use;
* `Counted`: the counter of a backlog is at most its packets' share of the limit, while
  the viewer is not being sent to, which gives `OnlySlowViewersCut` without a sum (its
  hypothesis `ShortPackets` is part of the property);
* `Complete`: backlog, batch and queue are in order, one before the other and after
  what was heard, and whatever follows a packet in them is kept or was dropped.

`SamplesWithin` is about `ConvertAudio` alone: `Taken` is what its loop counts, each
sample is interpolated between frames of the packet, and the buffer it reserves is
never too small.

The properties named here as safety halves (`NeverBothWait`, `NoFrameForgotten`,
`StopIsHeard`, `NeverUnwatched`, `StaleIsNoticed`, `NoRequestForgotten`, `AnswerDue`)
are defined with their proofs. No run lists them, as the liveness properties they
belong to are checked there; they and their invariants were checked with TLC on the
instances of section 3 before they were proved (`TicksAhead` apart, whose running
totals TLC cannot enumerate).

Only model-checked: all liveness properties, since they need ENABLED and fairness.
Every other property of a passing run is a theorem. The type invariants of all modules
but AudioDelivery are proved (`TypeCorrect`) and not checked by a run as well.

## 6. What could follow

The state machines of the shipped server are modelled, checked and proved about. Beyond them:

1. FrameDelivery's frames and leases are those of SharedRing: the composition of the
   two, with the end of a subscription and the mapping of a new ring.
2. The handshake of `ReceiveSharedRing`, descriptors among it, as steps.
3. JPEG pacing and dirty tiles as functions against reference definitions.

## 7. Not modelled

Parsing of configuration, HTTP and JSON, the key tables (data that
`keymap_test.cpp` covers), passwords and the security handshake, JPEG decoding and
LibVNCServer itself. The handshake in which the ring is handed over and validated,
and the mapping of a new ring. main's options (`--health`, `--lifecycle`) and exit codes. The Go server, which
no build of the product contains and which shares no state with the C++ one.

Some things the models show and no property forbids, since nothing in the
repository promises otherwise:

* a session is reported once, and a core that restarts forgets it. The process
  notices only through the capability thread's connection, or its failure to make one.
  A core without events that restarts between two probes leaves the sessions that are
  connected unreported until they end. With events the same happens if the core stops
  and is back while the thread has no connection yet, before its first one or in
  the second after a last probe without events: `NewClient`,
  `FramebufferUpdateRequested`, `CoreStops`, `CoreStarts`, `Connect`. `SessionsFollow`
  therefore promises a report or the end of the process when a connection with events
  broke, and when there was none, that or a connection made to whichever core runs;
* a HID call that timed out may be carried out later, after calls that followed it
  (HIDChannel's `doubtful`), and an answer that comes a byte at a time keeps
  AdminHID's mutex longer than two seconds;
* a key whose keysym differs between press and release stays down until the last
  viewer leaves;
* a viewer that sends only full update requests can keep the frame rate from others.
