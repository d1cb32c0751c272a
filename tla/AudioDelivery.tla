--------------------------- MODULE AudioDelivery ---------------------------
(***************************************************************************)
(* VNCServer of vnc_server.cpp: how sound gets to the viewers.             *)
(*                                                                         *)
(* The audio thread's only step is QueueAudio.  The foreground thread's    *)
(* loop (Run) reads the viewers' messages, keeps the audio subscription    *)
(* while some viewer listens (SyncAudioSubscription), and in ProcessAudio  *)
(* hands the queued packets to every listener.  Video shares the sockets:  *)
(* while a JPEG message is partly written nothing else may be sent, and    *)
(* the viewer's own messages are left unread.  Of the video path only that *)
(* is kept here; FrameDelivery has the rest.  A packet is its place in the *)
(* stream and its length; Rate is the rate of the decoded stream.          *)
(***************************************************************************)
EXTENDS Integers, Sequences

CONSTANTS Viewers,       (* connections that may exist                       *)
          Rate,          (* kOpusSampleRate                                  *)
          Frequencies,   (* frequencies that viewers ask for                 *)
          Default,       (* the frequency before they do                     *)
          Lengths,       (* sample frames in a packet                        *)
          MaxQueued,     (* kMaxQueuedAudioFrames                            *)
          MaxDeferred,   (* kMaxDeferredAudioSamples                         *)
          MaxPackets,    (* bound on the packets of a behaviour              *)
          Absent, Closed (* no connection; one that waits to be reaped       *)

ASSUME AudioAssumption ==
    /\ Rate \in Nat \ {0} /\ Frequencies \subseteq Nat /\ Default \in 1..Rate
    /\ Lengths \subseteq Nat \ {0}
    /\ MaxQueued \in Nat \ {0} /\ MaxDeferred \in Nat /\ MaxPackets \in Nat

VARIABLES
    pc,           (* where the foreground thread is in Run's loop            *)
    client,       (* per connection: ClientData and what the viewer heard    *)
    subscribed,   (* audio_subscription_ runs                                *)
    queue,        (* audio_queue_                                            *)
    batch,        (* the packets that ProcessAudio took from it              *)
    made, lost    (* history: packets decoded; those dropped from the queue  *)

vars == <<pc, client, subscribed, queue, batch, made, lost>>

Packets == [id : 1..MaxPackets, frames : Lengths]

(* What a viewer can tell of the stream: whether it knows the extension or *)
(* is playing, the packet it heard last and the ones missing before it,    *)
(* and the sample frames it played and those they were made from.          *)
Deaf == [state |-> "deaf", last |-> 0, missed |-> {}, fed |-> 0, played |-> 0]

NewData ==
    [audio_supported |-> FALSE, audio_capability_pending |-> FALSE,
     audio_enabled |-> FALSE, audio_started |-> FALSE,
     audio_frequency |-> Default, audio_resample_position |-> 0,
     deferred_audio |-> <<>>, deferred_audio_samples |-> 0,
     jpeg |-> FALSE, ear |-> Deaf]

Open(v)      == client[v] \notin {Absent, Closed}
Listening(v) == Open(v) /\ client[v].audio_enabled

Init ==
    /\ pc = "poll" /\ client = [v \in Viewers |-> Absent]
    /\ subscribed = FALSE /\ queue = <<>> /\ batch = <<>>
    /\ made = 0 /\ lost = {}

-----------------------------------------------------------------------------
(* The audio thread: one decoded packet.  A full queue loses its oldest.   *)
DropOldest(q) == IF Len(q) >= MaxQueued
                 THEN SubSeq(q, Len(q) - MaxQueued + 2, Len(q)) ELSE q

QueueAudio ==
    /\ subscribed /\ made < MaxPackets
    /\ \E n \in Lengths :
          queue' = Append(DropOldest(queue), [id |-> made + 1, frames |-> n])
    /\ made' = made + 1
    /\ lost' = lost \cup IF Len(queue) >= MaxQueued THEN {Head(queue).id} ELSE {}
    /\ UNCHANGED <<pc, client, subscribed, batch>>

-----------------------------------------------------------------------------
(* What is written to a viewer, as the viewer takes it. *)
Told(c, state) ==
    [c EXCEPT !.ear.state = IF c.jpeg THEN "confused" ELSE state]

SendAudioCapability(c) ==
    Told(c, IF c.ear.state = "deaf" THEN "offered" ELSE c.ear.state)
SendBegin(c) == Told(c, IF c.ear.state = "offered" THEN "playing" ELSE "confused")
SendEnd(c)   == Told(c, IF c.ear.state = "playing" THEN "offered" ELSE "confused")

(* ConvertAudio: a sample is taken every Rate steps over frames * frequency*)
(* of them, and the next packet continues where this one left off.         *)
Taken(limit, position) ==
    IF position < limit THEN (limit - position + Rate - 1) \div Rate ELSE 0

StartAnew(limit, position) == 0          \* faulty variant: each on its own
CarryOver(limit, position) == position + Rate * Taken(limit, position) - limit

SendAudioData(c, packet) ==
    LET limit == packet.frames * c.audio_frequency
        inOrder == c.ear.state = "playing" /\ packet.id > c.ear.last
        between == IF c.ear.last = 0 THEN {} ELSE c.ear.last + 1 .. packet.id - 1
    IN  [Told(c, IF inOrder THEN "playing" ELSE "confused") EXCEPT
           !.audio_resample_position = CarryOver(limit, @),
           !.ear.last = packet.id, !.ear.missed = @ \cup between,
           !.ear.fed = @ + packet.frames,
           !.ear.played = @ + Taken(limit, c.audio_resample_position)]

-----------------------------------------------------------------------------
(* PollClientEvents: pending JPEG output first, then the viewers' messages.*)
(* A message that is sent or written may fail, which closes the connection.*)
Flushed(c) == IF c \in {Absent, Closed} \/ ~c.jpeg THEN {c}
              ELSE {c, [c EXCEPT !.jpeg = FALSE], Closed}
Reaped(c)  == IF c = Closed THEN Absent ELSE c

Poll ==
    /\ pc = "poll" /\ pc' = "read"
    /\ \E next \in [Viewers -> UNION {Flushed(client[v]) : v \in Viewers}] :
          /\ \A v \in Viewers : next[v] \in Flushed(client[v])
          /\ client' = [v \in Viewers |-> Reaped(next[v])]
    /\ UNCHANGED <<subscribed, queue, batch, made, lost>>

ReadAlways(c) == TRUE                    \* faulty variant: not deferred
Readable(c)   == ~c.jpeg

Reads(v) ==
    /\ pc = "read" /\ Open(v) /\ Readable(client[v])
    /\ UNCHANGED <<pc, subscribed, queue, batch, made, lost>>

NewClient(v) ==
    /\ pc = "read" /\ client[v] = Absent
    /\ client' = [client EXCEPT ![v] = NewData]
    /\ UNCHANGED <<pc, subscribed, queue, batch, made, lost>>

AudioEnableEncoding(v) ==
    /\ Reads(v)
    /\ client' = [client EXCEPT ![v] =
                    [@ EXCEPT !.audio_supported = TRUE,
                              !.audio_capability_pending = TRUE]]

Rewound(c) == [c EXCEPT !.audio_resample_position = 0,
                        !.ear.fed = 0, !.ear.played = 0]

AudioEnable(v) ==
    /\ Reads(v) /\ client[v].audio_supported
    /\ client' = [client EXCEPT ![v] = [Rewound(@) EXCEPT !.audio_enabled = TRUE]]

(* End, if the viewer was told of a beginning. *)
Ended(c) == IF c.audio_started
            THEN [SendEnd(c) EXCEPT !.audio_started = FALSE] ELSE c

KeepCount(c)     == [c EXCEPT !.deferred_audio = <<>>]   \* faulty variant
ClearDeferred(c) == [c EXCEPT !.deferred_audio = <<>>, !.deferred_audio_samples = 0]

AudioDisable(v) ==
    /\ Reads(v) /\ client[v].audio_supported
    /\ client' = [client EXCEPT ![v] =
                    [ClearDeferred(Rewound(Ended(@))) EXCEPT
                        !.audio_enabled = FALSE,
                        !.ear.last = 0, !.ear.missed = {}]]

ForgetOld(c, f) ==                       \* faulty variant: the backlog is lost
    [ClearDeferred(Rewound(Ended(c))) EXCEPT !.audio_frequency = f]
NewFormat(c, f) == [Rewound(Ended(c)) EXCEPT !.audio_frequency = f]

AudioSetFormat(v) ==
    /\ Reads(v) /\ client[v].audio_supported
    /\ \E f \in Frequencies :
          client' = [client EXCEPT ![v] =
                        IF f \in 1..Rate THEN NewFormat(@, f) ELSE Closed]

(* An operation before the encoding or an unknown one, an answer that      *)
(* cannot be written, or the viewer leaving.                               *)
ClientGone(v) ==
    /\ Reads(v)
    /\ client' = [client EXCEPT ![v] = Closed]

EndOfPoll ==
    /\ pc = "read" /\ pc' = "sync"
    /\ client' = [v \in Viewers |-> Reaped(client[v])]
    /\ UNCHANGED <<subscribed, queue, batch, made, lost>>

-----------------------------------------------------------------------------
KeptQueue(wanted, q) == IF wanted THEN q ELSE <<>>

(* Stop waits for the audio thread, so nothing is queued after it. *)
SyncAudioSubscription ==
    /\ pc = "sync" /\ pc' = "audio"
    /\ subscribed' = \E v \in Viewers : Listening(v)
    /\ queue' = IF subscribed THEN KeptQueue(subscribed', queue) ELSE queue
    /\ UNCHANGED <<client, batch, made, lost>>

(* ProcessAudio takes the queue ... *)
TakeQueue ==
    /\ pc = "audio" /\ pc' = "defer"
    /\ batch' = queue /\ queue' = <<>>
    /\ UNCHANGED <<client, subscribed, made, lost>>

(* ... and appends each packet to what the listeners are due.              *)
Deferred(c, packet) ==
    [c EXCEPT !.deferred_audio = Append(@, packet),
              !.deferred_audio_samples = @ + 2 * packet.frames]

Defer ==
    /\ pc = "defer" /\ batch # <<>>
    /\ client' = [v \in Viewers |-> IF Listening(v)
                                    THEN Deferred(client[v], Head(batch))
                                    ELSE client[v]]
    /\ batch' = Tail(batch)
    /\ UNCHANGED <<pc, subscribed, queue, made, lost>>

NeverTooFar(c)  == FALSE                 \* faulty variant: no limit
TooFarBehind(c) == c.audio_enabled /\ c.deferred_audio_samples > MaxDeferred

(* What keeps a viewer from being sent anything, and what it is sent.      *)
Withheld(c) == c.jpeg
Due(c)      == c.audio_enabled /\ c.deferred_audio # <<>>

Offered(c) == IF c.audio_capability_pending
              THEN [SendAudioCapability(c) EXCEPT !.audio_capability_pending = FALSE]
              ELSE c

Begun(c)   == IF ~Due(c) \/ c.audio_started THEN c
              ELSE [SendBegin(c) EXCEPT !.audio_started = TRUE]

Served(c) == IF TooFarBehind(c) THEN Closed
             ELSE IF Withheld(c) THEN c ELSE Begun(Offered(c))

(* A failed write closes a connection that was being written to. *)
MayFail(c) == ~Withheld(c) /\ (c.audio_capability_pending \/ Due(c))

Serve ==
    /\ pc = "defer" /\ batch = <<>> /\ pc' = "send"
    /\ \E failed \in SUBSET {v \in Viewers : Open(v) /\ MayFail(client[v])} :
          client' = [v \in Viewers |-> IF ~Open(v) THEN client[v]
                                       ELSE IF v \in failed THEN Closed
                                       ELSE Served(client[v])]
    /\ UNCHANGED <<subscribed, queue, batch, made, lost>>

(* The packets one after the other; deferred_audio is cleared at the end.  *)
Sent(c) ==
    LET s == SendAudioData(c, Head(c.deferred_audio))
    IN  IF Len(c.deferred_audio) = 1 THEN ClearDeferred(s)
        ELSE [s EXCEPT !.deferred_audio = Tail(@)]

Sending(v) == Open(v) /\ ~Withheld(client[v]) /\ Due(client[v])

(* A packet may be too short to give the viewer a sample. *)
HasData(c) == LET limit == Head(c.deferred_audio).frames * c.audio_frequency
              IN  Taken(limit, c.audio_resample_position) > 0

SendPacket(v) ==
    /\ pc = "send" /\ Sending(v)
    /\ \/ client' = [client EXCEPT ![v] = Sent(client[v])]
       \/ HasData(client[v]) /\ client' = [client EXCEPT ![v] = Closed]
    /\ UNCHANGED <<pc, subscribed, queue, batch, made, lost>>

EndAudio ==
    /\ pc = "send" /\ pc' = "frame"
    /\ \A v \in Viewers : ~Sending(v)
    /\ UNCHANGED <<client, subscribed, queue, batch, made, lost>>

ProcessAudio == \/ TakeQueue \/ Defer \/ Serve \/ EndAudio
                \/ \E v \in Viewers : SendPacket(v)

(* ProcessFrame may start a JPEG message, and writes what it can of it. *)
Shown(c) == IF c \in {Absent, Closed} THEN {c}
            ELSE {c, [c EXCEPT !.jpeg = TRUE], [c EXCEPT !.jpeg = FALSE], Closed}

ProcessFrame ==
    /\ pc = "frame" /\ pc' = "poll"
    /\ client' \in [Viewers -> UNION {Shown(client[v]) : v \in Viewers}]
    /\ \A v \in Viewers : client'[v] \in Shown(client[v])
    /\ UNCHANGED <<subscribed, queue, batch, made, lost>>

-----------------------------------------------------------------------------
Turn == Poll \/ EndOfPoll \/ SyncAudioSubscription \/ ProcessAudio \/ ProcessFrame

ViewerActs(v) == \/ NewClient(v) \/ AudioEnableEncoding(v) \/ AudioEnable(v)
                 \/ AudioDisable(v) \/ AudioSetFormat(v) \/ ClientGone(v)

Next == QueueAudio \/ Turn \/ \E v \in Viewers : ViewerActs(v)

Spec == Init /\ [][Next]_vars

-----------------------------------------------------------------------------
(* Properties. *)

Ears == [state : {"deaf", "offered", "playing", "confused"},
         last : 0..MaxPackets, missed : SUBSET (1..MaxPackets),
         fed : Nat, played : Nat]

Data == [audio_supported : BOOLEAN, audio_capability_pending : BOOLEAN,
         audio_enabled : BOOLEAN, audio_started : BOOLEAN,
         audio_frequency : 1..Rate, audio_resample_position : 0..(Rate - 1),
         deferred_audio : Seq(Packets), deferred_audio_samples : Nat,
         jpeg : BOOLEAN, ear : Ears]

(* Every variable keeps its shape, the queue and, when ProcessAudio has    *)
(* checked it, every viewer's backlog stay within their limits, and the    *)
(* resampling position of ConvertAudio is less than one step.              *)
TypeOK ==
    /\ pc \in {"poll", "read", "sync", "audio", "defer", "send", "frame"}
    /\ \A v \in Viewers : Open(v) =>
          /\ client[v] \in Data
          /\ pc # "defer" => client[v].deferred_audio_samples <= MaxDeferred
    /\ subscribed \in BOOLEAN
    /\ queue \in Seq(Packets) /\ Len(queue) <= MaxQueued
    /\ batch \in Seq(Packets) /\ Len(batch) <= MaxQueued
    /\ made \in 0..MaxPackets /\ lost \subseteq 1..made

(* What a viewer is sent makes sense to it: the extension is announced     *)
(* before it is used, beginnings and ends alternate, samples come between  *)
(* them and in order, and nothing is written into a JPEG message.          *)
(* (ProcessAudio, AudioHandleMessage, PollClientEvents.)                   *)
StreamUnderstood ==
    \A v \in Viewers : Open(v) =>
        /\ client[v].ear.state # "confused"
        /\ client[v].audio_started <=> client[v].ear.state = "playing"

(* A viewer that keeps listening misses only packets that a full queue     *)
(* dropped, and the ones it has not heard yet are all still kept for it:   *)
(* neither waiting for a JPEG message nor changing the format loses sound. *)
Ids(packets) == {packets[i].id : i \in 1..Len(packets)}

NothingSkipped ==
    \A v \in Viewers : Listening(v) =>
        LET heard == client[v].ear
            ahead == Ids(client[v].deferred_audio) \cup Ids(batch) \cup Ids(queue)
        IN  /\ heard.missed \subseteq lost
            /\ heard.last > 0 => (heard.last + 1)..made \subseteq ahead \cup lost

(* Resampling packet by packet (ConvertAudio) neither gains nor loses      *)
(* time: what a viewer played since it chose its format is what one        *)
(* conversion of everything it was fed would give, to within one sample.   *)
NoDrift ==
    \A v \in Viewers : Open(v) =>
        LET c == client[v]
        IN  c.ear.played * Rate
              = c.ear.fed * c.audio_frequency + c.audio_resample_position

(* ProcessAudio closes a viewer for its backlog only when it really was    *)
(* behind, with more packets waiting than a full queue hands over at once; *)
(* provided a full queue fits in the backlog.                              *)
ShortPackets == \A n \in Lengths : 2 * n * MaxQueued <= MaxDeferred

OnlySlowViewersCut ==
    ShortPackets => \A v \in Viewers :
        pc = "defer" /\ Listening(v) /\ TooFarBehind(client[v])
           => Len(client[v].deferred_audio) > MaxQueued
=============================================================================
