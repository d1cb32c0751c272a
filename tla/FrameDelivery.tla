--------------------------- MODULE FrameDelivery ---------------------------
(***************************************************************************)
(* VNCServer of vnc_server.cpp: how frames get to the viewers.             *)
(*                                                                         *)
(* One foreground thread runs the loop of Run: PollClientEvents writes     *)
(* JPEG output and parses the viewers' messages, SyncSubscription follows  *)
(* the number of viewers, and ProcessFrame serves every viewer in turn.    *)
(* The media thread's only step is SetFrame.  LibVNCServer's regions and   *)
(* what a viewer displays are outside the repository; they are modelled    *)
(* from how vnc_server.cpp uses them.  A screen is a few tiles, and a JPEG *)
(* message is Chunks pieces that nonblocking writes send.                  *)
(***************************************************************************)
EXTENDS Integers, FiniteSets

CONSTANTS Viewers,      (* connections that may exist                       *)
          Resizable,    (* viewers that know the NewFBSize encoding         *)
          Continuous,   (* viewers that know the ContinuousUpdates encoding *)
          Direct,       (* per viewer, whether it may take JPEG: BOOLEANs   *)
          Switching,    (* viewers that may change their encodings later   *)
          Tiles, Colors, Sizes,
          Regions,      (* what an update request may ask for               *)
          Incremental,  (* kinds of update requests: a subset of BOOLEAN    *)
          Validity,     (* whether the media thread's JPEGs decode          *)
          Chunks,       (* pieces of a JPEG message                         *)
          MaxFrames,    (* bound on frames in one subscription              *)
          Empty, Garbage, Blank,   (* a zeroed tile, an undecodable one,    *)
                                   (* and one a viewer has never drawn      *)
          NoFrame, Absent

ASSUME DeliveryAssumption ==
    /\ Resizable \subseteq Viewers /\ Continuous \subseteq Viewers
    /\ Direct \in [Viewers -> SUBSET BOOLEAN] /\ Switching \subseteq Viewers
    /\ Regions \subseteq SUBSET Tiles
    /\ Incremental \subseteq BOOLEAN /\ Validity \subseteq BOOLEAN
    /\ Chunks \in Nat \ {0} /\ MaxFrames \in Nat

VARIABLES
    pc,           (* where the foreground thread is in Run's loop            *)
    client,       (* per connection: ClientData and LibVNCServer's regions   *)
    subscribed,   (* subscription_ runs                                      *)
    latest, sequence,             (* latest_frame_, latest_sequence_         *)
    size, framebuffer, previous, decoded,
                  (* width_/height_, framebuffer_, previous_rgb_ and         *)
                  (* decoded_sequence_                                       *)
    jpegDue, pixelsDue,           (* the frame intervals have passed         *)
    pass,         (* ProcessFrame's locals                                   *)
    torn          (* history: viewers written to inside a JPEG message       *)

screen == <<size, framebuffer, previous, decoded>>
feed   == <<subscribed, latest, sequence>>
clock  == <<jpegDue, pixelsDue>>
vars   == <<pc, client, feed, screen, clock, pass, torn>>

Images == [Tiles -> Colors]
Frames == [size : Sizes, image : Images, valid : {TRUE} \cap Validity]
          \cup [size : Sizes, image : {[t \in Tiles |-> Garbage]},
                valid : {FALSE} \cap Validity]
Pictures == {f.image : f \in Frames}

ASSUME FrameAssumption == NoFrame \notin Frames \cup Pictures

Plain  == [t \in Tiles |-> Empty]

NewData(direct) ==
    [sock |-> "open", direct |-> direct, need_update |-> FALSE,
     force_update |-> FALSE, continuous_enabled |-> FALSE, last_sequence |-> 0,
     pending_jpeg |-> NoFrame, jpeg_written |-> 0, late |-> FALSE,
     requested |-> {}, modified |-> Tiles, view |-> [t \in Tiles |-> Blank]]

Connected  == {v \in Viewers : client[v] # Absent}
Writing(c) == c.pending_jpeg # NoFrame
NoPass     == [frame |-> NoFrame, sequence |-> 0, todo |-> {}, doomed |-> {},
               decoded |-> FALSE, sentJPEG |-> FALSE]

Init ==
    /\ pc = "poll"
    /\ client = [v \in Viewers |-> Absent]
    /\ subscribed = FALSE /\ latest = NoFrame /\ sequence = 0
    /\ size \in Sizes /\ framebuffer = Plain /\ previous = NoFrame /\ decoded = 0
    /\ jpegDue = TRUE /\ pixelsDue = TRUE
    /\ pass = NoPass /\ torn = {}

-----------------------------------------------------------------------------
(* SetFrame, by the media thread; Stop waits for that thread. *)
SetFrame ==
    /\ subscribed /\ sequence < MaxFrames
    /\ latest' \in Frames
    /\ sequence' = sequence + 1
    /\ UNCHANGED <<pc, client, subscribed, screen, clock, pass, torn>>

(* Time passes: an interval since the last update, or two seconds since a  *)
(* JPEG message was started.  ProcessFrame reads the clock once.           *)
JPEGInterval ==
    /\ ~jpegDue /\ pc # "serve"
    /\ jpegDue' = TRUE
    /\ UNCHANGED <<pc, client, feed, screen, pixelsDue, pass, torn>>

PixelsInterval ==
    /\ ~pixelsDue /\ pc # "serve"
    /\ pixelsDue' = TRUE
    /\ UNCHANGED <<pc, client, feed, screen, jpegDue, pass, torn>>

TwoSeconds(v) ==
    /\ client[v] # Absent /\ Writing(client[v]) /\ ~client[v].late
    /\ client' = [client EXCEPT ![v] = [@ EXCEPT !.late = TRUE]]
    /\ UNCHANGED <<pc, feed, screen, clock, pass, torn>>

-----------------------------------------------------------------------------
(* PollClientEvents. *)

Cancelled(c) == [c EXCEPT !.pending_jpeg = NoFrame, !.jpeg_written = 0,
                          !.late = FALSE, !.sock = "closed"]
Finished(c)  == [c EXCEPT !.pending_jpeg = NoFrame, !.jpeg_written = 0,
                          !.late = FALSE, !.view = c.pending_jpeg]

(* FlushJPEGWrites for one client; "part" sends a piece of the message. *)
Outcomes == {"blocked", "failed", "part", "all"}

NeverLate(c) == FALSE                    \* faulty variant: no time limit
TooLate(c)   == c.late

Flushed(c, outcome) ==
    IF c = Absent \/ ~Writing(c) \/ c.sock = "closed" THEN c
    ELSE IF TooLate(c) \/ outcome = "failed" THEN Cancelled(c)
    ELSE IF outcome = "all" \/ (outcome = "part" /\ c.jpeg_written + 1 = Chunks)
         THEN Finished(c)
    ELSE IF outcome = "part" THEN [c EXCEPT !.jpeg_written = @ + 1]
    ELSE c

Reaped(c)     == IF c # Absent /\ c.sock = "closed" THEN Absent ELSE c

Poll ==
    /\ pc = "poll"
    /\ \E outcome \in [Viewers -> Outcomes] :
          client' = [v \in Viewers |-> Reaped(Flushed(client[v], outcome[v]))]
    /\ pc' = "parse"
    /\ UNCHANGED <<feed, screen, clock, pass, torn>>

(* The library may answer any message it parses. *)
Reply(v) == torn' = IF client[v].jpeg_written > 0 THEN torn \cup {v} ELSE torn

(* Input of a viewer with an unfinished JPEG message is left unread. *)
AlwaysParsed(c) == c # Absent            \* faulty variant: it is read
Parsed(c)       == c # Absent /\ ~Writing(c)

NewClient(v) ==
    /\ pc = "parse" /\ client[v] = Absent
    /\ \E direct \in Direct[v] : client' = [client EXCEPT ![v] = NewData(direct)]
    /\ UNCHANGED <<pc, feed, screen, clock, pass, torn>>

ClientGone(v) ==
    /\ pc = "parse" /\ Parsed(client[v])
    /\ client' = [client EXCEPT ![v] = Absent]
    /\ UNCHANGED <<pc, feed, screen, clock, pass, torn>>

Asking(c, region, incremental) ==
    [c EXCEPT !.need_update = TRUE,
              !.force_update = @ \/ ~incremental,
              !.requested = @ \cup region,
              !.modified = IF incremental THEN @ ELSE @ \cup region]

FramebufferUpdateRequested(v, region, incremental) ==
    /\ pc = "parse" /\ Parsed(client[v])
    /\ client' = [client EXCEPT ![v] = Asking(@, region, incremental)]
    /\ Reply(v)
    /\ UNCHANGED <<pc, feed, screen, clock, pass>>

ContinuousHandleMessage(v, enabled) ==
    /\ pc = "parse" /\ Parsed(client[v]) /\ v \in Continuous
    /\ client' = [client EXCEPT ![v] =
          [@ EXCEPT !.continuous_enabled = enabled, !.need_update = enabled,
                    !.force_update = enabled]]
    /\ Reply(v)
    /\ UNCHANGED <<pc, feed, screen, clock, pass>>

(* SetEncodings: what ClientWantsNativeJPEG and ClientWantsTightJPEG read. *)
Switched(c) == [c EXCEPT !.direct = ~@]

EnableEncoding(v) ==
    /\ v \in Switching
    /\ pc = "parse" /\ Parsed(client[v])
    /\ client' = [client EXCEPT ![v] = Switched(@)]
    /\ Reply(v)
    /\ UNCHANGED <<pc, feed, screen, clock, pass>>

EndPoll ==
    /\ pc = "parse"
    /\ pc' = "sync"
    /\ UNCHANGED <<client, feed, screen, clock, pass, torn>>

-----------------------------------------------------------------------------
(* ClearLatestFrame: nothing of the old subscription remains. *)
KeepDecoded ==                           \* faulty variant: its pixels do
    /\ latest' = NoFrame /\ sequence' = 0
    /\ jpegDue' = TRUE /\ pixelsDue' = TRUE
    /\ UNCHANGED <<previous, decoded>>
ClearLatestFrame ==
    /\ latest' = NoFrame /\ sequence' = 0
    /\ previous' = NoFrame /\ decoded' = 0
    /\ jpegDue' = TRUE /\ pixelsDue' = TRUE

SyncSubscription ==
    /\ pc = "sync"
    /\ subscribed' = (Connected # {})
    /\ IF subscribed /\ Connected = {} THEN ClearLatestFrame
       ELSE UNCHANGED <<latest, sequence, previous, decoded, clock>>
    /\ pc' = "frame"
    /\ UNCHANGED <<client, size, framebuffer, pass, torn>>

-----------------------------------------------------------------------------
(* ProcessFrame. *)

HasPendingJPEG == \E v \in Connected : Writing(client[v])

Resizing == ~(latest = NoFrame \/ latest.size = size)

NothingToServe ==
    /\ pc = "frame"
    /\ IF Resizing THEN HasPendingJPEG ELSE latest = NoFrame
    /\ pc' = "poll"
    /\ UNCHANGED <<client, feed, screen, clock, pass, torn>>

(* Resize: the new framebuffer is empty, and each viewer is told of its    *)
(* size, or closed because it cannot be or the write fails.                *)
Resized(c) ==
    [c EXCEPT !.requested = {}, !.modified = {}, !.view = [t \in Tiles |-> Blank],
              !.need_update = c.continuous_enabled, !.force_update = FALSE,
              !.last_sequence = 0]

Resize ==
    /\ pc = "frame" /\ Resizing /\ ~HasPendingJPEG
    /\ size' = latest.size /\ framebuffer' = Plain
    /\ previous' = NoFrame /\ decoded' = 0
    /\ \E told \in SUBSET (Connected \cap Resizable) :
          client' = [v \in Viewers |-> IF v \in told THEN Resized(client[v]) ELSE Absent]
    /\ torn' = torn \cup {v \in Connected : client[v].jpeg_written > 0}
    /\ pc' = "poll"
    /\ UNCHANGED <<feed, clock, pass>>

BeginPass ==
    /\ pc = "frame" /\ latest # NoFrame /\ ~Resizing
    /\ pass' = [NoPass EXCEPT !.frame = latest, !.sequence = sequence,
                              !.todo = Connected]
    /\ pc' = "serve"
    /\ UNCHANGED <<client, feed, screen, clock, torn>>

(* Viewers this pass does not serve: busy, content, or limited by the      *)
(* frame rate.                                                             *)
WritesAgain(c) == FALSE                  \* faulty variant: restarts output
Busy(c)        == Writing(c)

Skipped(c) ==
    \/ Busy(c) \/ ~c.need_update
    \/ ~c.force_update /\ \/ c.last_sequence = pass.sequence
                          \/ c.direct /\ ~jpegDue
                          \/ ~c.direct /\ ~pixelsDue

Skip(v) ==
    /\ pc = "serve" /\ v \in pass.todo /\ Skipped(client[v])
    /\ pass' = [pass EXCEPT !.todo = @ \ {v}]
    /\ UNCHANGED <<pc, client, feed, screen, clock, torn>>

(* An update was sent, or its output was queued. *)
Updated(c) == [c EXCEPT !.need_update = c.continuous_enabled,
                        !.force_update = FALSE, !.last_sequence = pass.sequence,
                        !.requested = {}]

Doom(v) == pass' = [pass EXCEPT !.todo = @ \ {v}, !.doomed = @ \cup {v}]

(* SendNativeJPEG and SendJPEG: the frame becomes the pending output. *)
Queued(c) == [Updated(c) EXCEPT !.pending_jpeg = pass.frame.image,
                                !.jpeg_written = 0, !.late = FALSE,
                                !.modified = {}]

QueueJPEG(v) ==
    /\ pc = "serve" /\ v \in pass.todo
    /\ ~Skipped(client[v]) /\ client[v].direct
    /\ client' = [client EXCEPT ![v] = Queued(@)]
    /\ pass' = [pass EXCEPT !.todo = @ \ {v}, !.sentJPEG = TRUE]
    /\ UNCHANGED <<pc, feed, screen, clock, torn>>

(* SendNativeJPEG refuses a frame that is no JPEG; SendJPEG one that is    *)
(* too long for a Tight rectangle, which any frame may be; and QueueJPEG a *)
(* viewer for which the library holds output.                              *)
RefuseJPEG(v) ==
    /\ pc = "serve" /\ v \in pass.todo
    /\ ~Skipped(client[v]) /\ client[v].direct
    /\ Doom(v)
    /\ UNCHANGED <<pc, client, feed, screen, clock, torn>>

(* DecodeLatestFrame, for the first viewer of the pass that needs pixels.  *)
(* CollectDirtyTiles names at least the tiles that changed.                *)
Changed == IF previous = NoFrame THEN Tiles
           ELSE {t \in Tiles : previous[t] # pass.frame.image[t]}

RequestersOnly == {v \in Connected : client[v].need_update}   \* faulty variant
Damaged        == Connected

Undecoded == ~(decoded = pass.sequence /\ previous # NoFrame)

AnyFrame     == TRUE                     \* faulty variant: errors ignored
FrameDecodes == pass.frame.valid

NeedsDecode(v) == /\ pc = "serve" /\ v \in pass.todo /\ ~pass.decoded
                  /\ ~Skipped(client[v]) /\ ~client[v].direct

DecodeLatestFrame(v) ==
    /\ NeedsDecode(v)
    /\ Undecoded => FrameDecodes
    /\ pass' = [pass EXCEPT !.decoded = TRUE]
    /\ IF Undecoded
       THEN /\ framebuffer' = pass.frame.image /\ previous' = pass.frame.image
            /\ decoded' = pass.sequence
            /\ \E dirty \in {Changed, Tiles} :
                  client' = [w \in Viewers |->
                     IF w \in Damaged THEN [client[w] EXCEPT !.modified = @ \cup dirty]
                                      ELSE client[w]]
       ELSE UNCHANGED <<framebuffer, previous, decoded, client>>
    /\ UNCHANGED <<pc, feed, size, clock, torn>>

(* A failed decode may have overwritten the framebuffer. *)
DecodeFails(v) ==
    /\ NeedsDecode(v) /\ Undecoded /\ ~FrameDecodes
    /\ framebuffer' \in {framebuffer, [t \in Tiles |-> Garbage]}
    /\ Doom(v)
    /\ UNCHANGED <<pc, client, feed, size, previous, decoded, clock, torn>>

(* SendFramebuffer: the damage in the requested region, if there is any. *)
Wanted(c)  == c.requested \cup (IF c.continuous_enabled THEN Tiles ELSE {})
Damage(c)  == c.modified \cup (IF c.force_update THEN Tiles ELSE {})

(* Nothing to send: the request stays pending. *)
Dropped(c) == [c EXCEPT !.need_update = FALSE]    \* faulty variant: it ends
Unsent(c)  == [c EXCEPT !.requested = Wanted(c), !.modified = Damage(c)]

Sent(c, sent) ==
    [Updated(c) EXCEPT
        !.modified = Damage(c) \ sent,
        !.view = [t \in Tiles |-> IF t \in sent THEN framebuffer[t] ELSE c.view[t]]]

SendFramebuffer(v) ==
    /\ pc = "serve" /\ v \in pass.todo /\ pass.decoded
    /\ ~Skipped(client[v]) /\ ~client[v].direct
    /\ LET c    == client[v]
           sent == Wanted(c) \cap Damage(c)
       IN IF sent = {}
          THEN /\ client' = [client EXCEPT ![v] = Unsent(c)]
               /\ UNCHANGED torn
          ELSE /\ client' = [client EXCEPT ![v] = Sent(c, sent)]
               /\ Reply(v)
    /\ pass' = [pass EXCEPT !.todo = @ \ {v}]
    /\ UNCHANGED <<pc, feed, screen, clock>>

SendFails(v) ==
    /\ pc = "serve" /\ v \in pass.todo /\ pass.decoded
    /\ ~Skipped(client[v]) /\ ~client[v].direct
    /\ Wanted(client[v]) \cap Damage(client[v]) # {}
    /\ Doom(v)
    /\ UNCHANGED <<pc, client, feed, screen, clock, torn>>

(* CloseClients, the frame-rate limits and the first write of new output. *)
EndPass ==
    /\ pc = "serve" /\ pass.todo = {}
    /\ \E outcome \in [Viewers -> Outcomes] :
          client' = [v \in Viewers |->
             IF v \in pass.doomed THEN Absent
             ELSE IF pass.sentJPEG THEN Flushed(client[v], outcome[v])
             ELSE client[v]]
    /\ jpegDue' = (jpegDue /\ ~pass.sentJPEG)
    /\ pixelsDue' = (pixelsDue /\ ~pass.decoded)
    /\ pass' = NoPass
    /\ pc' = "poll"
    /\ UNCHANGED <<feed, screen, torn>>

-----------------------------------------------------------------------------
Message ==
    \E v \in Viewers :
        \/ NewClient(v) \/ ClientGone(v) \/ EnableEncoding(v)
        \/ \E region \in Regions, incremental \in Incremental :
              FramebufferUpdateRequested(v, region, incremental)
        \/ \E enabled \in BOOLEAN : ContinuousHandleMessage(v, enabled)

ProcessFrame ==
    \/ NothingToServe \/ Resize \/ BeginPass \/ EndPass
    \/ \E v \in Viewers :
          \/ Skip(v) \/ QueueJPEG(v) \/ RefuseJPEG(v)
          \/ DecodeLatestFrame(v) \/ DecodeFails(v)
          \/ SendFramebuffer(v) \/ SendFails(v)

Run  == Poll \/ EndPoll \/ SyncSubscription \/ ProcessFrame
Time == JPEGInterval \/ PixelsInterval \/ \E v \in Viewers : TwoSeconds(v)

Next == Message \/ Run \/ SetFrame \/ Time

Spec == Init /\ [][Next]_vars

(* Run's loop goes on (its poll has a timeout) and time passes, whatever   *)
(* the loop is doing; the viewers and the media thread need do nothing.    *)
FairSpec ==
    /\ Spec /\ WF_vars(Run)
    /\ SF_vars(JPEGInterval) /\ SF_vars(PixelsInterval)
    /\ \A v \in Viewers : WF_vars(TwoSeconds(v))

-----------------------------------------------------------------------------
(* Properties. *)

ClientData ==
    [sock : {"open", "closed"}, direct : BOOLEAN, need_update : BOOLEAN,
     force_update : BOOLEAN, continuous_enabled : BOOLEAN,
     last_sequence : 0 .. MaxFrames,
     pending_jpeg : Pictures \cup {NoFrame}, jpeg_written : 0 .. Chunks - 1,
     late : BOOLEAN, requested : SUBSET Tiles, modified : SUBSET Tiles,
     view : [Tiles -> Colors \cup {Garbage, Empty, Blank}]]

ASSUME AbsentAssumption == Absent \notin ClientData

(* The type invariant: among the rest, a JPEG message is never written     *)
(* past its end, and no decode is newer than the newest frame.             *)
TypeOK ==
    /\ pc \in {"poll", "parse", "sync", "frame", "serve"}
    /\ client \in [Viewers -> ClientData \cup {Absent}]
    /\ subscribed \in BOOLEAN
    /\ latest \in Frames \cup {NoFrame} /\ sequence \in 0 .. MaxFrames
    /\ size \in Sizes
    /\ framebuffer \in [Tiles -> Colors \cup {Garbage, Empty}]
    /\ previous \in Pictures \cup {NoFrame} /\ decoded \in 0 .. sequence
    /\ jpegDue \in BOOLEAN /\ pixelsDue \in BOOLEAN
    /\ pass \in [frame : Frames \cup {NoFrame}, sequence : 0 .. sequence,
                 todo : SUBSET Viewers, doomed : SUBSET Viewers,
                 decoded : BOOLEAN, sentJPEG : BOOLEAN]
    /\ torn \in SUBSET Viewers

(* Nothing is written to a viewer between the pieces of a JPEG message:    *)
(* "the two RFB messages must not interleave" (PollClientEvents).          *)
NoInterleaving == torn = {}

(* Whatever a viewer that takes pixels does not show of the last decoded   *)
(* frame is recorded as damage for it, so another viewer that advanced the *)
(* decoder has lost it nothing (DecodeLatestFrame).                        *)
DamageKept ==
    \A v \in Connected \ Switching :
        client[v].direct \/ previous = NoFrame
        \/ \A t \in Tiles \ client[v].modified : client[v].view[t] = previous[t]

(* A viewer that takes pixels never sees the zeroed framebuffer that a   *)
(* resize leaves, nor what a failed decode leaves in it.                   *)
ShowsOnlyFrames ==
    \A v \in Connected \ Switching :
        client[v].direct
        \/ \A t \in Tiles : client[v].view[t] \in Colors \cup {Blank}

(* When LibVNCServer looks at its sockets no viewer's is closed            *)
(* (PollClientEvents reaps them before rfbCheckFds).                       *)
ClosedAreReaped == pc = "parse" => \A v \in Connected : client[v].sock = "open"

(* Pixels cached for the current sequence number are that frame's, though  *)
(* numbers start again with every subscription.                            *)
DecodedIsCurrent ==
    decoded > 0 /\ decoded = sequence => previous = latest.image

(* JPEG output that was begun is written to its end, whatever frame is the *)
(* newest by then, or the viewer is closed.                                *)
OutputCompleted ==
    [][\A v \in Connected : Writing(client[v]) =>
          \/ client'[v] = Absent
          \/ client'[v].sock = "closed"
          \/ /\ client'[v].pending_jpeg = client[v].pending_jpeg
             /\ client'[v].jpeg_written >= client[v].jpeg_written
          \/ ~Writing(client'[v]) /\ client'[v].view = client[v].pending_jpeg]_vars

(* A viewer's request covers tiles that it does not show as they are.      *)
Outdated(v) ==
    /\ v \in Connected
    /\ latest # NoFrame /\ latest.valid /\ ~Resizing
    /\ \E t \in Wanted(client[v]) : client[v].view[t] # latest.image[t]

(* "Incremental requests stay pending until their requested region         *)
(* changes", and then they are answered (README.md, the guard of           *)
(* ProcessFrame).                                                          *)
RequestsAnswered == \A v \in Viewers : Outdated(v) ~> ~Outdated(v)

(* A resize waits for unfinished JPEG output, which a slow viewer cannot   *)
(* hold back for ever.                                                     *)
ResizeEnds == Resizing ~> ~Resizing
=============================================================================
