------------------------ MODULE FrameDeliveryProofs ------------------------
(***************************************************************************)
(* Proofs about FrameDelivery, for any number of viewers, tiles, frames    *)
(* and pieces of a message.  The invariant is in two parts: what holds of  *)
(* each viewer (Sound), and what holds of the frame, the decoder and the   *)
(* pass that shares them among the viewers (Shared).  A third part, for    *)
(* the requests (Attention), is built on these two.                        *)
(***************************************************************************)
EXTENDS FrameDelivery, TLAPS

Shades == [Tiles -> Colors \cup {Garbage}]

(* A viewer with nothing to write has written nothing; one that only ever  *)
(* takes pixels has no JPEG output, shows colours of frames, and shows the *)
(* decoded frame p but for its damage.                                     *)
Idle(c)      == ~Writing(c) => c.jpeg_written = 0
OnlyPixels(c) == c.pending_jpeg = NoFrame
Coloured(c)  == \A t \in Tiles : c.view[t] \in Colors \cup {Blank}
UpToDate(c, p) == p = NoFrame \/ \A t \in Tiles \ c.modified : c.view[t] = p[t]

Sound(v, c, p) ==
    /\ c \in ClientData
    /\ Idle(c)
    /\ v \notin Switching /\ ~c.direct =>
          OnlyPixels(c) /\ Coloured(c) /\ UpToDate(c, p)

ViewersInv ==
    /\ client \in [Viewers -> ClientData \cup {Absent}]
    /\ \A v \in Viewers : client[v] # Absent => Sound(v, client[v], previous)
    /\ torn = {}
    /\ ClosedAreReaped

(* The types of what the viewers share. *)
ScreenType ==
    /\ subscribed \in BOOLEAN
    /\ latest \in Frames \cup {NoFrame} /\ sequence \in 0 .. MaxFrames
    /\ size \in Sizes
    /\ framebuffer \in [Tiles -> Colors \cup {Garbage, Empty}]
    /\ previous \in (Images \cap Pictures) \cup {NoFrame} /\ decoded \in 0 .. sequence
    /\ jpegDue \in BOOLEAN /\ pixelsDue \in BOOLEAN

PassType ==
    /\ pc \in {"poll", "parse", "sync", "frame", "serve"}
    /\ pass \in [frame : Frames \cup {NoFrame}, sequence : 0 .. sequence,
                 todo : SUBSET Viewers, doomed : SUBSET Viewers,
                 decoded : BOOLEAN, sentJPEG : BOOLEAN]

(* A pass serves the frame it began with, which is the newest unless the   *)
(* media thread has set another.                                           *)
PassInv ==
    /\ pc # "serve" => pass = NoPass
    /\ pc = "serve" =>
          /\ pass.frame \in Frames
          /\ decoded <= pass.sequence
          /\ pass.sequence = sequence => pass.frame = latest

(* The framebuffer holds what was decoded last, until a decode fails: then *)
(* the next frame to be served is not the decoded one.                     *)
CacheInv ==
    /\ pass.decoded => previous # NoFrame
    /\ previous # NoFrame /\ framebuffer # previous =>
          /\ decoded < sequence
          /\ pc = "serve" => decoded < pass.sequence /\ ~pass.decoded
    /\ DecodedIsCurrent

Shared == ScreenType /\ PassType /\ PassInv /\ CacheInv

IInv == ViewersInv /\ Shared

-----------------------------------------------------------------------------
(* Frames and pictures. *)

LEMMA FrameFacts ==
    ASSUME NEW f \in Frames
    PROVE  /\ f.size \in Sizes /\ f.image \in Pictures /\ f.image \in Shades
           /\ f.valid => f.image \in Images
           /\ f # NoFrame /\ f.image # NoFrame
<1>1. f \in [size : Sizes, image : Images, valid : {TRUE} \cap Validity]
      \/ f \in [size : Sizes, image : {[t \in Tiles |-> Garbage]},
                valid : {FALSE} \cap Validity]
  BY DEF Frames
<1>2. f.image \in Pictures
  BY DEF Pictures
<1>3. f # NoFrame /\ f.image # NoFrame
  BY <1>2, FrameAssumption
<1>4. CASE f \in [size : Sizes, image : Images, valid : {TRUE} \cap Validity]
  <2>1. f.image \in Images /\ f.size \in Sizes
    BY <1>4
  <2> QED
    BY <2>1, <1>2, <1>3 DEF Images, Shades
<1>5. CASE f \in [size : Sizes, image : {[t \in Tiles |-> Garbage]},
                  valid : {FALSE} \cap Validity]
  <2>1. f.image = [t \in Tiles |-> Garbage] /\ f.size \in Sizes /\ f.valid = FALSE
    BY <1>5
  <2> QED
    BY <2>1, <1>2, <1>3 DEF Shades
<1> QED
  BY <1>1, <1>4, <1>5

LEMMA PictureFacts ==
    ASSUME NEW p \in Pictures PROVE p \in Shades /\ p # NoFrame
<1>1. PICK f \in Frames : p = f.image
  BY DEF Pictures
<1> QED
  BY <1>1, FrameFacts

-----------------------------------------------------------------------------
(* What happens to one viewer keeps it sound. *)

LEMMA NewDataSound ==
    ASSUME NEW v \in Viewers, NEW direct \in BOOLEAN, NEW p
    PROVE  Sound(v, NewData(direct), p)
<1> DEFINE c == NewData(direct)
<1>1. c.view \in [Tiles -> Colors \cup {Garbage, Empty, Blank}]
  BY DEF NewData
<1>2. 0 \in 0 .. MaxFrames /\ 0 \in 0 .. Chunks - 1
  BY DeliveryAssumption
<1>3. c \in ClientData
  BY <1>1, <1>2 DEF NewData, ClientData
<1>4. Idle(c) /\ OnlyPixels(c) /\ Coloured(c) /\ UpToDate(c, p)
  BY DEF NewData, Idle, OnlyPixels, Coloured, UpToDate, Writing
<1> QED
  BY <1>3, <1>4 DEF Sound

LEMMA CancelledSound ==
    ASSUME NEW v, NEW c, NEW p, Sound(v, c, p)
    PROVE  Sound(v, Cancelled(c), p)
<1>1. c \in ClientData
  BY DEF Sound
<1>2. 0 \in 0 .. Chunks - 1
  BY DeliveryAssumption
<1>3. Cancelled(c) \in ClientData
  BY <1>1, <1>2 DEF Cancelled, ClientData
<1>4. /\ Cancelled(c).direct = c.direct /\ Cancelled(c).view = c.view
      /\ Cancelled(c).modified = c.modified /\ Cancelled(c).jpeg_written = 0
      /\ Cancelled(c).pending_jpeg = NoFrame
  BY <1>1 DEF Cancelled, ClientData
<1> QED
  BY <1>3, <1>4 DEF Sound, Idle, OnlyPixels, Coloured, UpToDate

LEMMA FinishedSound ==
    ASSUME NEW v, NEW c, NEW p, Sound(v, c, p), Writing(c)
    PROVE  Sound(v, Finished(c), p)
<1>1. c \in ClientData
  BY DEF Sound
<1>2. 0 \in 0 .. Chunks - 1
  BY DeliveryAssumption
<1>3. c.pending_jpeg \in Pictures
  BY <1>1 DEF Writing, ClientData
<1>4. c.pending_jpeg \in [Tiles -> Colors \cup {Garbage, Empty, Blank}]
  BY <1>3, PictureFacts DEF Shades
<1>5. Finished(c) \in ClientData
  BY <1>1, <1>2, <1>4 DEF Finished, ClientData
<1>6. /\ Finished(c).direct = c.direct /\ Finished(c).jpeg_written = 0
  BY <1>1 DEF Finished, ClientData
<1>7. ~(v \notin Switching /\ ~c.direct)
  BY DEF Sound, Writing, OnlyPixels
<1> QED
  BY <1>5, <1>6, <1>7 DEF Sound, Idle

(* An operation that leaves a viewer's kind, output, picture and what was  *)
(* written alone, and takes no damage back.                                *)
LEMMA KeptSound ==
    ASSUME NEW v, NEW c, NEW d, NEW p, Sound(v, c, p), d \in ClientData,
           d.direct = c.direct, d.pending_jpeg = c.pending_jpeg,
           d.view = c.view, c.modified \subseteq d.modified,
           Idle(d)
    PROVE  Sound(v, d, p)
BY DEF Sound, OnlyPixels, Coloured, UpToDate

LEMMA WrittenSound ==
    ASSUME NEW v, NEW c, NEW p, Sound(v, c, p), Writing(c),
           c.jpeg_written + 1 # Chunks
    PROVE  Sound(v, [c EXCEPT !.jpeg_written = @ + 1], p)
<1> DEFINE d == [c EXCEPT !.jpeg_written = @ + 1]
<1>1. c \in ClientData
  BY DEF Sound
<1>2. c.jpeg_written + 1 \in 0 .. Chunks - 1
  <2>1. c.jpeg_written \in 0 .. Chunks - 1
    BY <1>1 DEF ClientData
  <2> QED
    BY <2>1, DeliveryAssumption
<1>3. d \in ClientData
  BY <1>1, <1>2 DEF ClientData
<1>4. /\ d.direct = c.direct /\ d.pending_jpeg = c.pending_jpeg
      /\ d.view = c.view /\ d.modified = c.modified
  BY <1>1 DEF ClientData
<1>5. Idle(d)
  BY <1>4 DEF Idle, Writing
<1> QED
  BY <1>3, <1>4, <1>5, KeptSound

LEMMA FlushedSound ==
    ASSUME NEW v, NEW c, NEW p, c # Absent => Sound(v, c, p), NEW o
    PROVE  Flushed(c, o) # Absent => Sound(v, Flushed(c, o), p)
<1>1. CASE c = Absent \/ ~Writing(c) \/ c.sock = "closed"
  BY <1>1 DEF Flushed
<1>2. CASE ~(c = Absent \/ ~Writing(c) \/ c.sock = "closed")
  <2>1. CASE TooLate(c) \/ o = "failed"
    BY <1>2, <2>1, CancelledSound DEF Flushed
  <2>2. CASE ~(TooLate(c) \/ o = "failed")
             /\ (o = "all" \/ (o = "part" /\ c.jpeg_written + 1 = Chunks))
    BY <1>2, <2>2, FinishedSound DEF Flushed
  <2>3. CASE ~(TooLate(c) \/ o = "failed") /\ o = "part" /\ c.jpeg_written + 1 # Chunks
    BY <1>2, <2>3, WrittenSound DEF Flushed
  <2>4. CASE ~(TooLate(c) \/ o = "failed") /\ o # "part" /\ o # "all"
    BY <1>2, <2>4 DEF Flushed
  <2> QED
    BY <2>1, <2>2, <2>3, <2>4
<1> QED
  BY <1>1, <1>2

LEMMA LateSound ==
    ASSUME NEW v, NEW c, NEW p, Sound(v, c, p)
    PROVE  Sound(v, [c EXCEPT !.late = TRUE], p)
<1> DEFINE d == [c EXCEPT !.late = TRUE]
<1>1. c \in ClientData
  BY DEF Sound
<1>2. d \in ClientData
  BY <1>1 DEF ClientData
<1>3. /\ d.direct = c.direct /\ d.pending_jpeg = c.pending_jpeg
      /\ d.view = c.view /\ d.modified = c.modified
      /\ d.jpeg_written = c.jpeg_written
  BY <1>1 DEF ClientData
<1> QED
  BY <1>2, <1>3, KeptSound DEF Sound, Idle, Writing

LEMMA AskingSound ==
    ASSUME NEW v, NEW c, NEW p, Sound(v, c, p),
           NEW region \in Regions, NEW incremental \in Incremental
    PROVE  /\ Sound(v, Asking(c, region, incremental), p)
           /\ Asking(c, region, incremental).sock = c.sock
<1> DEFINE d == Asking(c, region, incremental)
<1>1. c \in ClientData
  BY DEF Sound
<1>2. region \subseteq Tiles /\ incremental \in BOOLEAN
  BY DeliveryAssumption
<1>3. /\ c.requested \cup region \in SUBSET Tiles
      /\ (IF incremental THEN c.modified ELSE c.modified \cup region) \in SUBSET Tiles
      /\ (c.force_update \/ ~incremental) \in BOOLEAN
  BY <1>1, <1>2 DEF ClientData
<1>4. d \in ClientData
  BY <1>1, <1>3 DEF ClientData, Asking
<1>5. /\ d.direct = c.direct /\ d.pending_jpeg = c.pending_jpeg
      /\ d.view = c.view /\ d.jpeg_written = c.jpeg_written /\ d.sock = c.sock
      /\ d.modified = IF incremental THEN c.modified ELSE c.modified \cup region
  BY <1>1 DEF ClientData, Asking
<1> QED
  BY <1>4, <1>5, KeptSound DEF Sound, Idle, Writing

LEMMA ContinuedSound ==
    ASSUME NEW v, NEW c, NEW p, Sound(v, c, p), NEW enabled \in BOOLEAN
    PROVE  Sound(v, [c EXCEPT !.continuous_enabled = enabled,
                              !.need_update = enabled,
                              !.force_update = enabled], p)
<1> DEFINE d == [c EXCEPT !.continuous_enabled = enabled,
                          !.need_update = enabled, !.force_update = enabled]
<1>1. c \in ClientData
  BY DEF Sound
<1>2. d \in ClientData
  BY <1>1 DEF ClientData
<1>3. /\ d.direct = c.direct /\ d.pending_jpeg = c.pending_jpeg
      /\ d.view = c.view /\ d.modified = c.modified
      /\ d.jpeg_written = c.jpeg_written
  BY <1>1 DEF ClientData
<1> QED
  BY <1>2, <1>3, KeptSound DEF Sound, Idle, Writing

LEMMA SwitchedSound ==
    ASSUME NEW v \in Switching, NEW c, NEW p, Sound(v, c, p)
    PROVE  Sound(v, Switched(c), p) /\ Switched(c).sock = c.sock
<1> DEFINE d == Switched(c)
<1>1. c \in ClientData
  BY DEF Sound
<1>2. d \in ClientData
  BY <1>1 DEF ClientData, Switched
<1>3. d.pending_jpeg = c.pending_jpeg /\ d.jpeg_written = c.jpeg_written /\ d.sock = c.sock
  BY <1>1 DEF ClientData, Switched
<1> QED
  BY <1>2, <1>3 DEF Sound, Idle, Writing

LEMMA ResizedSound ==
    ASSUME NEW v, NEW c, NEW p, Sound(v, c, p)
    PROVE  Sound(v, Resized(c), NoFrame)
<1> DEFINE d == Resized(c)
<1>1. c \in ClientData
  BY DEF Sound
<1>2. 0 \in 0 .. MaxFrames
  BY DeliveryAssumption
<1>3. [t \in Tiles |-> Blank] \in [Tiles -> Colors \cup {Garbage, Empty, Blank}]
  OBVIOUS
<1>4. c.continuous_enabled \in BOOLEAN
  BY <1>1 DEF ClientData
<1>5. d \in ClientData
  BY <1>1, <1>2, <1>3, <1>4 DEF ClientData, Resized
<1>6. /\ d.direct = c.direct /\ d.pending_jpeg = c.pending_jpeg
      /\ d.view = [t \in Tiles |-> Blank] /\ d.jpeg_written = c.jpeg_written
  BY <1>1 DEF ClientData, Resized
<1>7. Idle(d) /\ Coloured(d) /\ UpToDate(d, NoFrame)
  BY <1>6 DEF Sound, Idle, Writing, Coloured, UpToDate
<1> QED
  BY <1>5, <1>6, <1>7 DEF Sound, OnlyPixels

(* A decode records what changes, so that a viewer stays up to date.       *)
LEMMA DamagedSound ==
    ASSUME NEW v, NEW c, NEW p, NEW q, Sound(v, c, p), NEW dirty \in SUBSET Tiles,
           p = NoFrame => dirty = Tiles,
           \A t \in Tiles \ dirty : p[t] = q[t]
    PROVE  Sound(v, [c EXCEPT !.modified = @ \cup dirty], q)
<1> DEFINE d == [c EXCEPT !.modified = @ \cup dirty]
<1>1. c \in ClientData
  BY DEF Sound
<1>2. c.modified \cup dirty \in SUBSET Tiles
  BY <1>1 DEF ClientData
<1>3. d \in ClientData
  BY <1>1, <1>2 DEF ClientData
<1>4. /\ d.direct = c.direct /\ d.pending_jpeg = c.pending_jpeg
      /\ d.view = c.view /\ d.modified = c.modified \cup dirty
      /\ d.jpeg_written = c.jpeg_written
  BY <1>1 DEF ClientData
<1>5. UpToDate(c, p) => UpToDate(d, q)
  BY <1>4 DEF UpToDate
<1> QED
  BY <1>3, <1>4, <1>5 DEF Sound, Idle, Writing, OnlyPixels, Coloured

(* The steps of a pass, for a frame that is being served. *)
LEMMA UpdatedTyped ==
    ASSUME NEW c \in ClientData, Shared
    PROVE  /\ Updated(c) \in ClientData
           /\ Updated(c).direct = c.direct /\ Updated(c).view = c.view
           /\ Updated(c).pending_jpeg = c.pending_jpeg
           /\ Updated(c).jpeg_written = c.jpeg_written
<1>1. pass.sequence \in 0 .. MaxFrames
  BY DeliveryAssumption DEF Shared, ScreenType, PassType
<1>2. c.continuous_enabled \in BOOLEAN
  BY DEF ClientData
<1> QED
  BY <1>1, <1>2 DEF Updated, ClientData

LEMMA QueuedSound ==
    ASSUME NEW v, NEW c, NEW p, Sound(v, c, p), c.direct, Shared, pc = "serve"
    PROVE  Sound(v, Queued(c), p)
<1> DEFINE d == Queued(c)
<1>1. c \in ClientData
  BY DEF Sound
<1>2. Updated(c) \in ClientData /\ Updated(c).direct = c.direct
  BY <1>1, UpdatedTyped
<1>3. 0 \in 0 .. Chunks - 1
  BY DeliveryAssumption
<1>4. pass.frame.image \in Pictures
  BY FrameFacts DEF Shared, PassInv
<1>5. d \in ClientData
  BY <1>2, <1>3, <1>4 DEF ClientData, Queued
<1>6. d.direct = c.direct /\ d.jpeg_written = 0
  BY <1>2 DEF ClientData, Queued
<1> QED
  BY <1>5, <1>6 DEF Sound, Idle

LEMMA UnsentSound ==
    ASSUME NEW v, NEW c, NEW p, Sound(v, c, p)
    PROVE  Sound(v, Unsent(c), p)
<1> DEFINE d == Unsent(c)
<1>1. c \in ClientData
  BY DEF Sound
<1>2. Wanted(c) \in SUBSET Tiles /\ Damage(c) \in SUBSET Tiles
  BY <1>1 DEF ClientData, Wanted, Damage
<1>3. c.modified \subseteq Damage(c)
  BY DEF Damage
<1>4. d \in ClientData
  BY <1>1, <1>2 DEF ClientData, Unsent
<1>5. /\ d.direct = c.direct /\ d.pending_jpeg = c.pending_jpeg
      /\ d.view = c.view /\ d.modified = Damage(c)
      /\ d.jpeg_written = c.jpeg_written
  BY <1>1 DEF ClientData, Unsent
<1> QED
  BY <1>3, <1>4, <1>5, KeptSound DEF Sound, Idle, Writing

LEMMA SentSound ==
    ASSUME NEW v, NEW c, NEW sent \in SUBSET Tiles, Sound(v, c, previous),
           Shared, previous # NoFrame, framebuffer = previous
    PROVE  Sound(v, Sent(c, sent), previous)
<1> DEFINE u == Updated(c)
           w == [t \in Tiles |-> IF t \in sent THEN framebuffer[t] ELSE c.view[t]]
           d == Sent(c, sent)
<1>1. c \in ClientData
  BY DEF Sound
<1>2. /\ u \in ClientData /\ u.direct = c.direct
      /\ u.pending_jpeg = c.pending_jpeg /\ u.jpeg_written = c.jpeg_written
  BY <1>1, UpdatedTyped
<1>3. Damage(c) \ sent \in SUBSET Tiles
  BY <1>1 DEF ClientData, Damage
<1>4. previous \in [Tiles -> Colors]
  BY DEF Shared, ScreenType, Images
<1>5. c.view \in [Tiles -> Colors \cup {Garbage, Empty, Blank}]
  BY <1>1 DEF ClientData
<1>6. w \in [Tiles -> Colors \cup {Garbage, Empty, Blank}]
  BY <1>4, <1>5
<1>7. d = [u EXCEPT !.modified = Damage(c) \ sent, !.view = w]
  BY DEF Sent
<1>8. d \in ClientData
  BY <1>2, <1>3, <1>6, <1>7 DEF ClientData
<1>9. /\ d.direct = c.direct /\ d.pending_jpeg = c.pending_jpeg
      /\ d.view = w /\ d.modified = Damage(c) \ sent
      /\ d.jpeg_written = c.jpeg_written
  BY <1>2, <1>7 DEF ClientData
<1>10. Coloured(c) => Coloured(d)
  BY <1>4, <1>9 DEF Coloured
<1>11. UpToDate(c, previous) => UpToDate(d, previous)
  BY <1>9 DEF UpToDate, Damage
<1> QED
  BY <1>8, <1>9, <1>10, <1>11 DEF Sound, Idle, Writing, OnlyPixels

-----------------------------------------------------------------------------
(* The two halves of the invariant, when a step leaves one of them alone.  *)

LEMMA SharedSame ==
    ASSUME Shared, UNCHANGED <<pc, feed, screen, clock, pass>>
    PROVE  Shared'
BY DEF Shared, ScreenType, PassType, PassInv, CacheInv, DecodedIsCurrent,
   feed, screen, clock, NoPass

LEMMA ViewersSame ==
    ASSUME ViewersInv, UNCHANGED <<client, previous, torn>>,
           pc' = "parse" => pc = "parse"
    PROVE  ViewersInv'
BY DEF ViewersInv, ClosedAreReaped, Connected

LEMMA WithoutPicture ==
    ASSUME NEW v, NEW c, NEW p, Sound(v, c, p) PROVE Sound(v, c, NoFrame)
BY DEF Sound, UpToDate

(* One viewer changes. *)
LEMMA OneViewer ==
    ASSUME ViewersInv, NEW v \in Viewers, NEW d,
           d # Absent => Sound(v, d, previous),
           client' = [client EXCEPT ![v] = d], previous' = previous,
           torn' = {},
           pc' = "parse" => pc = "parse" /\ (d # Absent => d.sock = "open")
    PROVE  ViewersInv'
<1>1. d \in ClientData \cup {Absent}
  BY DEF Sound
<1>2. client' \in [Viewers -> ClientData \cup {Absent}]
  BY <1>1 DEF ViewersInv
<1>3. ASSUME NEW w \in Viewers, client'[w] # Absent
      PROVE  Sound(w, client'[w], previous')
  <2>1. CASE w = v
    BY <1>3, <2>1 DEF ViewersInv
  <2>2. CASE w # v
    BY <1>3, <2>2 DEF ViewersInv
  <2> QED
    BY <2>1, <2>2
<1>4. ClosedAreReaped'
  <2> SUFFICES ASSUME pc' = "parse", NEW w \in Viewers, client'[w] # Absent
               PROVE  client'[w].sock = "open"
    BY DEF ClosedAreReaped, Connected
  <2>1. CASE w = v
    BY <2>1 DEF ViewersInv
  <2>2. CASE w # v
    BY <2>2 DEF ViewersInv, ClosedAreReaped, Connected
  <2> QED
    BY <2>1, <2>2
<1> QED
  BY <1>2, <1>3, <1>4 DEF ViewersInv

(* A library reply falls between two messages. *)
LEMMA ReplyClean ==
    ASSUME ViewersInv, NEW v \in Viewers, client[v] # Absent,
           ~Writing(client[v]), Reply(v)
    PROVE  torn' = {}
<1>1. client[v].jpeg_written = 0
  BY DEF ViewersInv, Sound, Idle
<1> QED
  BY <1>1 DEF Reply, ViewersInv

(* Every viewer's output is flushed, and perhaps some are reaped. *)
LEMMA AllFlushed ==
    ASSUME IInv, NEW v \in Viewers, NEW o
    PROVE  Flushed(client[v], o) # Absent
              => Sound(v, Flushed(client[v], o), previous)
<1>1. client[v] # Absent => Sound(v, client[v], previous)
  BY DEF IInv, ViewersInv
<1> QED
  BY <1>1, FlushedSound

-----------------------------------------------------------------------------
(* The steps outside of a pass. *)

LEMMA SetFrameKeeps == IInv /\ SetFrame => IInv'
<1> SUFFICES ASSUME IInv, SetFrame PROVE IInv'
  OBVIOUS
<1>1. ViewersInv'
  BY ViewersSame DEF IInv, SetFrame, screen
<1>2. sequence' \in 0 .. MaxFrames /\ sequence' = sequence + 1 /\ sequence \in Nat
  BY DeliveryAssumption DEF IInv, Shared, ScreenType, SetFrame
<1>3. decoded \in 0 .. sequence' /\ decoded < sequence'
  BY <1>2 DEF IInv, Shared, ScreenType
<1>4. ScreenType'
  BY <1>2, <1>3 DEF IInv, Shared, ScreenType, SetFrame, screen, clock
<1>5. pass.sequence \in 0 .. sequence' /\ pass.sequence < sequence'
  BY <1>2 DEF IInv, Shared, PassType
<1>6. PassType'
  BY <1>5 DEF IInv, Shared, PassType, SetFrame
<1>7. PassInv'
  BY <1>5 DEF IInv, Shared, PassInv, SetFrame, screen, NoPass
<1>8. CacheInv'
  BY <1>3 DEF IInv, Shared, CacheInv, DecodedIsCurrent, SetFrame, screen
<1> QED
  BY <1>1, <1>4, <1>6, <1>7, <1>8 DEF IInv, Shared

LEMMA IntervalKeeps == IInv /\ (JPEGInterval \/ PixelsInterval) => IInv'
<1> SUFFICES ASSUME IInv, JPEGInterval \/ PixelsInterval PROVE IInv'
  OBVIOUS
<1>1. ViewersInv'
  BY ViewersSame DEF IInv, JPEGInterval, PixelsInterval, screen
<1>2. Shared'
  BY ZenonT(40) DEF IInv, Shared, ScreenType, PassType, PassInv, CacheInv,
     DecodedIsCurrent,
     JPEGInterval, PixelsInterval, feed, screen, NoPass
<1> QED
  BY <1>1, <1>2 DEF IInv

LEMMA TwoSecondsKeeps ==
    ASSUME IInv, NEW v \in Viewers, TwoSeconds(v) PROVE IInv'
<1> DEFINE d == [client[v] EXCEPT !.late = TRUE]
<1>1. Sound(v, client[v], previous)
  BY DEF IInv, ViewersInv, TwoSeconds
<1>2. Sound(v, d, previous)
  BY <1>1, LateSound
<1>3. d.sock = client[v].sock
  BY <1>1 DEF Sound, ClientData
<1>4. pc' = "parse" => pc = "parse" /\ d.sock = "open"
  BY <1>3 DEF TwoSeconds, IInv, ViewersInv, ClosedAreReaped, Connected
<1>5. client' = [client EXCEPT ![v] = d] /\ previous' = previous /\ torn' = {}
  BY DEF TwoSeconds, screen, IInv, ViewersInv
<1>6. ViewersInv'
  BY <1>2, <1>4, <1>5, OneViewer DEF IInv
<1> QED
  BY <1>6, SharedSame DEF IInv, TwoSeconds

LEMMA PollKeeps == IInv /\ Poll => IInv'
<1> SUFFICES ASSUME IInv, Poll PROVE IInv'
  OBVIOUS
<1>1. PICK outcome \in [Viewers -> Outcomes] :
         client' = [v \in Viewers |-> Reaped(Flushed(client[v], outcome[v]))]
  BY DEF Poll
<1>2. ASSUME NEW v \in Viewers, client'[v] # Absent
      PROVE  Sound(v, client'[v], previous) /\ client'[v].sock = "open"
  <2> DEFINE f == Flushed(client[v], outcome[v])
  <2>1. client'[v] = Reaped(f)
    BY <1>1
  <2>2. f # Absent /\ f.sock # "closed" /\ client'[v] = f
    BY <1>2, <2>1 DEF Reaped
  <2>3. Sound(v, f, previous)
    BY <2>2, AllFlushed
  <2>4. f.sock = "open"
    BY <2>2, <2>3 DEF Sound, ClientData
  <2> QED
    BY <2>2, <2>3, <2>4
<1>3. previous' = previous /\ torn' = torn
  BY DEF Poll, screen
<1>4. client' \in [Viewers -> ClientData \cup {Absent}]
  <2>1. \A v \in Viewers : client'[v] \in ClientData \cup {Absent}
    BY <1>2 DEF Sound
  <2> QED
    BY <1>1, <2>1
<1>5. ClosedAreReaped'
  BY <1>2 DEF ClosedAreReaped, Connected
<1>6. ViewersInv'
  BY <1>2, <1>3, <1>4, <1>5 DEF IInv, ViewersInv
<1>7. Shared'
  BY DEF IInv, Shared, ScreenType, PassType, PassInv, CacheInv,
     DecodedIsCurrent,
     Poll, feed, screen, clock, NoPass
<1> QED
  BY <1>6, <1>7 DEF IInv

LEMMA NewClientKeeps ==
    ASSUME IInv, NEW v \in Viewers, NewClient(v) PROVE IInv'
<1>1. PICK direct \in Direct[v] : client' = [client EXCEPT ![v] = NewData(direct)]
  BY DEF NewClient
<1>2. direct \in BOOLEAN
  BY DeliveryAssumption
<1>3. Sound(v, NewData(direct), previous) /\ NewData(direct).sock = "open"
  BY <1>2, NewDataSound DEF NewData
<1>4. previous' = previous /\ torn' = {} /\ pc = "parse"
  BY DEF NewClient, screen, IInv, ViewersInv
<1>5. ViewersInv'
  BY <1>1, <1>3, <1>4, OneViewer DEF IInv
<1> QED
  BY <1>5, SharedSame DEF IInv, NewClient

LEMMA ClientGoneKeeps ==
    ASSUME IInv, NEW v \in Viewers, ClientGone(v) PROVE IInv'
<1>1. client' = [client EXCEPT ![v] = Absent]
  BY DEF ClientGone
<1>2. previous' = previous /\ torn' = {} /\ pc = "parse"
  BY DEF ClientGone, screen, IInv, ViewersInv
<1>3. ViewersInv'
  BY <1>1, <1>2, OneViewer DEF IInv
<1> QED
  BY <1>3, SharedSame DEF IInv, ClientGone

(* A message of a viewer that is read: it is connected, open and idle. *)
LEMMA MessageFacts ==
    ASSUME IInv, NEW v \in Viewers, pc = "parse", Parsed(client[v])
    PROVE  /\ client[v] # Absent /\ ~Writing(client[v])
           /\ Sound(v, client[v], previous) /\ client[v].sock = "open"
BY DEF IInv, ViewersInv, Parsed, ClosedAreReaped, Connected

LEMMA RequestKeeps ==
    ASSUME IInv, NEW v \in Viewers, NEW region \in Regions,
           NEW incremental \in Incremental,
           FramebufferUpdateRequested(v, region, incremental)
    PROVE  IInv'
<1> DEFINE d == Asking(client[v], region, incremental)
<1>1. pc = "parse" /\ Parsed(client[v]) /\ Reply(v)
  BY DEF FramebufferUpdateRequested
<1>2. /\ client[v] # Absent /\ ~Writing(client[v])
      /\ Sound(v, client[v], previous) /\ client[v].sock = "open"
  BY <1>1, MessageFacts
<1>3. Sound(v, d, previous) /\ d.sock = "open"
  BY <1>2, AskingSound
<1>4. torn' = {}
  BY <1>1, <1>2, ReplyClean DEF IInv
<1>5. client' = [client EXCEPT ![v] = d] /\ previous' = previous
  BY DEF FramebufferUpdateRequested, screen
<1>6. ViewersInv'
  BY <1>1, <1>3, <1>4, <1>5, OneViewer DEF IInv
<1> QED
  BY <1>6, SharedSame DEF IInv, FramebufferUpdateRequested

LEMMA ContinuousKeeps ==
    ASSUME IInv, NEW v \in Viewers, NEW enabled \in BOOLEAN,
           ContinuousHandleMessage(v, enabled)
    PROVE  IInv'
<1> DEFINE d == [client[v] EXCEPT !.continuous_enabled = enabled,
                                  !.need_update = enabled,
                                  !.force_update = enabled]
<1>1. pc = "parse" /\ Parsed(client[v]) /\ Reply(v)
  BY DEF ContinuousHandleMessage
<1>2. /\ client[v] # Absent /\ ~Writing(client[v])
      /\ Sound(v, client[v], previous) /\ client[v].sock = "open"
  BY <1>1, MessageFacts
<1>3. Sound(v, d, previous)
  BY <1>2, ContinuedSound
<1>4. d.sock = "open"
  BY <1>2 DEF Sound, ClientData
<1>5. torn' = {}
  BY <1>1, <1>2, ReplyClean DEF IInv
<1>6. client' = [client EXCEPT ![v] = d] /\ previous' = previous
  BY DEF ContinuousHandleMessage, screen
<1>7. ViewersInv'
  BY <1>1, <1>3, <1>4, <1>5, <1>6, OneViewer DEF IInv
<1> QED
  BY <1>7, SharedSame DEF IInv, ContinuousHandleMessage

LEMMA EnableEncodingKeeps ==
    ASSUME IInv, NEW v \in Viewers, EnableEncoding(v) PROVE IInv'
<1> DEFINE d == Switched(client[v])
<1>1. pc = "parse" /\ Parsed(client[v]) /\ Reply(v) /\ v \in Switching
  BY DEF EnableEncoding
<1>2. /\ client[v] # Absent /\ ~Writing(client[v])
      /\ Sound(v, client[v], previous) /\ client[v].sock = "open"
  BY <1>1, MessageFacts
<1>3. Sound(v, d, previous)
  BY <1>1, <1>2, SwitchedSound
<1>4. d.sock = "open"
  BY <1>1, <1>2, SwitchedSound
<1>5. torn' = {}
  BY <1>1, <1>2, ReplyClean DEF IInv
<1>6. client' = [client EXCEPT ![v] = d] /\ previous' = previous
  BY DEF EnableEncoding, screen
<1>7. ViewersInv'
  BY <1>1, <1>3, <1>4, <1>5, <1>6, OneViewer DEF IInv
<1> QED
  BY <1>7, SharedSame DEF IInv, EnableEncoding

LEMMA EndPollKeeps == IInv /\ EndPoll => IInv'
<1> SUFFICES ASSUME IInv, EndPoll PROVE IInv'
  OBVIOUS
<1>1. ViewersInv'
  BY ViewersSame DEF IInv, EndPoll, screen
<1>2. Shared'
  BY DEF IInv, Shared, ScreenType, PassType, PassInv, CacheInv,
     DecodedIsCurrent,
     EndPoll, feed, screen, clock, NoPass
<1> QED
  BY <1>1, <1>2 DEF IInv

LEMMA SyncKeeps == IInv /\ SyncSubscription => IInv'
<1> SUFFICES ASSUME IInv, SyncSubscription PROVE IInv'
  OBVIOUS
<1>0. /\ pc = "sync" /\ pc' = "frame" /\ subscribed' \in BOOLEAN
      /\ UNCHANGED <<client, size, framebuffer, pass, torn>>
  BY DEF SyncSubscription
<1>1. pass = NoPass /\ pass.sequence = 0 /\ ~pass.decoded
  BY <1>0 DEF IInv, Shared, PassInv, NoPass
<1>2. CASE ClearLatestFrame
  <2>1. previous' = NoFrame /\ sequence' = 0 /\ decoded' = 0 /\ latest' = NoFrame
    BY <1>2 DEF ClearLatestFrame
  <2>2. ViewersInv'
    BY <1>0, <2>1, WithoutPicture DEF IInv, ViewersInv, ClosedAreReaped
  <2>3. ScreenType'
    BY <1>0, <1>2, DeliveryAssumption DEF ClearLatestFrame, IInv, Shared,
       ScreenType
  <2>4. PassType'
    BY <1>0, <1>1, <2>1 DEF IInv, Shared, PassType, NoPass
  <2>5. PassInv' /\ CacheInv'
    BY <1>0, <1>1, <2>1 DEF PassInv, CacheInv, DecodedIsCurrent, NoPass
  <2> QED
    BY <2>2, <2>3, <2>4, <2>5 DEF IInv, Shared
<1>3. CASE UNCHANGED <<latest, sequence, previous, decoded, clock>>
  <2>1. ViewersInv'
    BY <1>0, <1>3, ViewersSame DEF IInv
  <2>2. Shared'
    BY <1>0, <1>3 DEF IInv, Shared, ScreenType, PassType, PassInv, CacheInv,
       DecodedIsCurrent, clock, NoPass
  <2> QED
    BY <2>1, <2>2 DEF IInv
<1> QED
  BY <1>2, <1>3 DEF SyncSubscription

LEMMA NothingToServeKeeps == IInv /\ NothingToServe => IInv'
<1> SUFFICES ASSUME IInv, NothingToServe PROVE IInv'
  OBVIOUS
<1>1. ViewersInv'
  BY ViewersSame DEF IInv, NothingToServe, screen
<1>2. Shared'
  BY DEF IInv, Shared, ScreenType, PassType, PassInv, CacheInv,
     DecodedIsCurrent,
     NothingToServe, feed, screen, clock, NoPass
<1> QED
  BY <1>1, <1>2 DEF IInv

LEMMA ResizeKeeps == IInv /\ Resize => IInv'
<1> SUFFICES ASSUME IInv, Resize PROVE IInv'
  OBVIOUS
<1>0. /\ pc = "frame" /\ pc' = "poll" /\ latest # NoFrame /\ ~HasPendingJPEG
      /\ size' = latest.size /\ framebuffer' = Plain /\ previous' = NoFrame
      /\ decoded' = 0 /\ UNCHANGED <<feed, clock, pass>>
  BY DEF Resize, Resizing
<1>1. PICK told \in SUBSET (Connected \cap Resizable) :
         client' = [v \in Viewers |-> IF v \in told THEN Resized(client[v]) ELSE Absent]
  BY DEF Resize
<1>2. ASSUME NEW v \in Viewers, client'[v] # Absent
      PROVE  Sound(v, client'[v], NoFrame)
  <2>1. v \in Connected /\ client'[v] = Resized(client[v])
    BY <1>1, <1>2
  <2>2. Sound(v, client[v], previous)
    BY <2>1 DEF Connected, IInv, ViewersInv
  <2> QED
    BY <2>1, <2>2, ResizedSound
<1>3. client' \in [Viewers -> ClientData \cup {Absent}]
  <2>1. \A v \in Viewers : client'[v] \in ClientData \cup {Absent}
    BY <1>2 DEF Sound
  <2> QED
    BY <1>1, <2>1
<1>4. torn' = {}
  <2>1. ASSUME NEW v \in Connected PROVE ~(client[v].jpeg_written > 0)
    <3>1. client[v].jpeg_written = 0
      BY <1>0, <2>1 DEF HasPendingJPEG, Connected, IInv, ViewersInv, Sound, Idle
    <3> QED
      BY <3>1
  <2> QED
    BY <2>1 DEF Resize, IInv, ViewersInv
<1>5. ViewersInv'
  BY <1>0, <1>2, <1>3, <1>4 DEF ViewersInv, ClosedAreReaped
<1>6. ScreenType'
  <2>1. size' \in Sizes
    BY <1>0, FrameFacts DEF IInv, Shared, ScreenType
  <2>2. framebuffer' \in [Tiles -> Colors \cup {Garbage, Empty}]
    BY <1>0 DEF Plain
  <2>3. decoded' \in 0 .. sequence'
    BY <1>0, DeliveryAssumption DEF IInv, Shared, ScreenType, feed
  <2> QED
    BY <1>0, <2>1, <2>2, <2>3 DEF IInv, Shared, ScreenType, feed, clock
<1>7. PassType' /\ PassInv' /\ CacheInv'
  BY <1>0 DEF IInv, Shared, PassType, PassInv, CacheInv, DecodedIsCurrent,
     feed, NoPass
<1> QED
  BY <1>5, <1>6, <1>7 DEF IInv, Shared

-----------------------------------------------------------------------------
(* The steps of a pass. *)

LEMMA BeginPassKeeps == IInv /\ BeginPass => IInv'
<1> SUFFICES ASSUME IInv, BeginPass PROVE IInv'
  OBVIOUS
<1>0. /\ pc = "frame" /\ pc' = "serve" /\ latest # NoFrame
      /\ UNCHANGED <<client, feed, screen, clock, torn>>
      /\ pass' = [NoPass EXCEPT !.frame = latest, !.sequence = sequence,
                                !.todo = Connected]
  BY DEF BeginPass
<1>1. ViewersInv'
  BY <1>0, ViewersSame DEF IInv, screen
<1>2. /\ pass'.frame = latest /\ pass'.sequence = sequence /\ pass'.decoded = FALSE
      /\ pass' \in [frame : Frames \cup {NoFrame}, sequence : 0 .. sequence,
                    todo : SUBSET Viewers, doomed : SUBSET Viewers,
                    decoded : BOOLEAN, sentJPEG : BOOLEAN]
  <2>1. Connected \in SUBSET Viewers /\ sequence \in 0 .. sequence
    BY DEF Connected, IInv, Shared, ScreenType
  <2> QED
    BY <1>0, <2>1 DEF IInv, Shared, ScreenType, NoPass
<1>3. ScreenType' /\ PassType'
  BY <1>0, <1>2 DEF IInv, Shared, ScreenType, PassType, feed, screen, clock
<1>4. PassInv' /\ CacheInv'
  BY <1>0, <1>2 DEF IInv, Shared, ScreenType, PassInv, CacheInv,
     DecodedIsCurrent,
     feed, screen
<1> QED
  BY <1>1, <1>3, <1>4 DEF IInv, Shared

(* A pass goes on: its frame stays, and what is still to be served and     *)
(* what was done so far change.                                            *)
LEMMA PassGoesOn ==
    ASSUME Shared, pc = "serve", pc' = pc, UNCHANGED <<feed, size, clock>>,
           pass' \in [frame : {pass.frame}, sequence : {pass.sequence},
                      todo : SUBSET Viewers, doomed : SUBSET Viewers,
                      decoded : BOOLEAN, sentJPEG : BOOLEAN]
    PROVE  /\ PassType'
           /\ pass'.frame = pass.frame /\ pass'.sequence = pass.sequence
           /\ UNCHANGED screen /\ pass'.decoded = pass.decoded => Shared'
<1>1. pass'.frame = pass.frame /\ pass'.sequence = pass.sequence
  OBVIOUS
<1>2. PassType'
  <2>1. sequence' = sequence
    BY DEF feed
  <2>2. pass.frame \in Frames \cup {NoFrame} /\ pass.sequence \in 0 .. sequence
    BY DEF Shared, PassType
  <2>3. pass' \in [frame : Frames \cup {NoFrame}, sequence : 0 .. sequence,
                   todo : SUBSET Viewers, doomed : SUBSET Viewers,
                   decoded : BOOLEAN, sentJPEG : BOOLEAN]
    BY <2>2
  <2> QED
    BY <2>1, <2>3 DEF Shared, PassType
<1>3. ASSUME UNCHANGED screen, pass'.decoded = pass.decoded PROVE Shared'
  BY <1>1, <1>2, <1>3 DEF Shared, ScreenType, PassInv, CacheInv,
     DecodedIsCurrent,
     feed, screen, clock
<1> QED
  BY <1>1, <1>2, <1>3

(* One viewer has been served, skipped or given up. *)
LEMMA TypeOfPass ==
    ASSUME Shared
    PROVE  /\ pass.todo \in SUBSET Viewers /\ pass.doomed \in SUBSET Viewers
           /\ pass.decoded \in BOOLEAN /\ pass.sentJPEG \in BOOLEAN
           /\ pass \in [frame : {pass.frame}, sequence : {pass.sequence},
                        todo : SUBSET Viewers, doomed : SUBSET Viewers,
                        decoded : BOOLEAN, sentJPEG : BOOLEAN]
BY DEF Shared, PassType

LEMMA DoomKeeps ==
    ASSUME Shared, NEW v \in Viewers, Doom(v), pc = "serve", pc' = pc,
           UNCHANGED <<feed, size, clock>>
    PROVE  /\ PassType' /\ pass'.frame = pass.frame
           /\ pass'.sequence = pass.sequence /\ pass'.decoded = pass.decoded
           /\ UNCHANGED screen => Shared'
<1>1. /\ pass' \in [frame : {pass.frame}, sequence : {pass.sequence},
                    todo : SUBSET Viewers, doomed : SUBSET Viewers,
                    decoded : BOOLEAN, sentJPEG : BOOLEAN]
      /\ pass'.decoded = pass.decoded
  BY TypeOfPass DEF Doom
<1> QED
  BY <1>1, PassGoesOn

LEMMA SkipKeeps ==
    ASSUME IInv, NEW v \in Viewers, Skip(v) PROVE IInv'
<1>1. ViewersInv'
  BY ViewersSame DEF IInv, Skip, screen
<1>2. /\ pass' \in [frame : {pass.frame}, sequence : {pass.sequence},
                    todo : SUBSET Viewers, doomed : SUBSET Viewers,
                    decoded : BOOLEAN, sentJPEG : BOOLEAN]
      /\ pass'.decoded = pass.decoded
  BY TypeOfPass DEF Skip, IInv
<1>3. Shared'
  BY <1>2, PassGoesOn DEF IInv, Skip, screen
<1> QED
  BY <1>1, <1>3 DEF IInv

(* A viewer that the pass serves is connected, and has nothing to write.   *)
LEMMA ServedFacts ==
    ASSUME IInv, NEW v \in Viewers, ~Skipped(client[v]), client[v] # Absent
    PROVE  Sound(v, client[v], previous) /\ ~Writing(client[v])
BY DEF IInv, ViewersInv, Skipped, Busy

LEMMA QueueJPEGKeeps ==
    ASSUME IInv, NEW v \in Viewers, client[v] # Absent, QueueJPEG(v) PROVE IInv'
<1> DEFINE d == Queued(client[v])
<1>1. Sound(v, client[v], previous)
  BY ServedFacts DEF QueueJPEG
<1>2. Sound(v, d, previous)
  BY <1>1, QueuedSound DEF QueueJPEG, IInv
<1>3. /\ client' = [client EXCEPT ![v] = d] /\ previous' = previous
      /\ torn' = {} /\ pc' # "parse"
  BY DEF QueueJPEG, screen, IInv, ViewersInv
<1>4. ViewersInv'
  BY <1>2, <1>3, OneViewer DEF IInv
<1>5. /\ pass' \in [frame : {pass.frame}, sequence : {pass.sequence},
                    todo : SUBSET Viewers, doomed : SUBSET Viewers,
                    decoded : BOOLEAN, sentJPEG : BOOLEAN]
      /\ pass'.decoded = pass.decoded
  BY TypeOfPass DEF QueueJPEG, IInv
<1>6. Shared'
  BY <1>5, PassGoesOn DEF IInv, QueueJPEG, screen
<1> QED
  BY <1>4, <1>6 DEF IInv

LEMMA RefuseJPEGKeeps ==
    ASSUME IInv, NEW v \in Viewers, RefuseJPEG(v) PROVE IInv'
<1>1. ViewersInv'
  BY ViewersSame DEF IInv, RefuseJPEG, screen
<1>2. Shared'
  BY DoomKeeps DEF IInv, RefuseJPEG, screen
<1> QED
  BY <1>1, <1>2 DEF IInv

LEMMA DecodeKeeps ==
    ASSUME IInv, NEW v \in Viewers, DecodeLatestFrame(v) PROVE IInv'
<1>0. /\ pc = "serve" /\ pc' = pc
      /\ Undecoded => FrameDecodes
      /\ pass' = [pass EXCEPT !.decoded = TRUE]
      /\ UNCHANGED <<feed, size, clock, torn>>
  BY DEF DecodeLatestFrame, NeedsDecode
<1>1. /\ pass' \in [frame : {pass.frame}, sequence : {pass.sequence},
                    todo : SUBSET Viewers, doomed : SUBSET Viewers,
                    decoded : BOOLEAN, sentJPEG : BOOLEAN]
      /\ pass'.decoded = TRUE
  BY <1>0, TypeOfPass DEF IInv
<1>2. PassType' /\ pass'.frame = pass.frame /\ pass'.sequence = pass.sequence
  BY <1>0, <1>1, PassGoesOn DEF IInv
<1>3. /\ pass.frame \in Frames /\ decoded <= pass.sequence
      /\ pass.sequence = sequence => pass.frame = latest
      /\ pass.sequence \in 0 .. sequence /\ sequence \in Nat /\ decoded \in Nat
  BY <1>0 DEF IInv, Shared, PassInv, PassType, ScreenType
<1>4. sequence' = sequence /\ latest' = latest
  BY <1>0 DEF feed
<1>5. CASE Undecoded
  <2>1. /\ framebuffer' = pass.frame.image /\ previous' = pass.frame.image
        /\ decoded' = pass.sequence
    BY <1>5 DEF DecodeLatestFrame
  <2>2. pass.frame.image \in Images \cap Pictures /\ pass.frame.image # NoFrame
    BY <1>0, <1>3, <1>5, FrameFacts DEF FrameDecodes
  <2>3. PICK dirty \in {Changed, Tiles} :
           client' = [w \in Viewers |->
              IF w \in Damaged THEN [client[w] EXCEPT !.modified = @ \cup dirty]
                               ELSE client[w]]
    BY <1>5 DEF DecodeLatestFrame
  <2>4. /\ dirty \in SUBSET Tiles
        /\ previous = NoFrame => dirty = Tiles
        /\ \A t \in Tiles \ dirty : previous[t] = pass.frame.image[t]
    BY <2>3 DEF Changed
  <2>5. ASSUME NEW w \in Viewers, client'[w] # Absent
        PROVE  Sound(w, client'[w], previous')
    <3>1. CASE client[w] # Absent
      <4>1. client'[w] = [client[w] EXCEPT !.modified = @ \cup dirty]
        BY <2>3, <3>1 DEF Damaged, Connected
      <4>2. Sound(w, client[w], previous)
        BY <3>1 DEF IInv, ViewersInv
      <4>3. Sound(w, [client[w] EXCEPT !.modified = @ \cup dirty], pass.frame.image)
        BY <2>4, <4>2, DamagedSound
      <4> QED
        BY <2>1, <4>1, <4>3
    <3>2. CASE client[w] = Absent
      BY <2>3, <2>5, <3>2 DEF Damaged, Connected
    <3> QED
      BY <3>1, <3>2
  <2>6. client' \in [Viewers -> ClientData \cup {Absent}]
    <3>1. \A w \in Viewers : client'[w] \in ClientData \cup {Absent}
      BY <2>5 DEF Sound
    <3> QED
      BY <2>3, <3>1
  <2>7. ViewersInv'
    BY <1>0, <2>5, <2>6 DEF IInv, ViewersInv, ClosedAreReaped
  <2>8. ScreenType'
    <3>1. framebuffer' \in [Tiles -> Colors \cup {Garbage, Empty}]
      BY <2>1, <2>2 DEF Images
    <3> QED
      BY <1>0, <1>3, <1>4, <2>1, <2>2, <3>1 DEF IInv, Shared, ScreenType,
         feed, clock
  <2>9. PassInv'
    BY <1>0, <1>2, <1>3, <1>4, <2>1 DEF PassInv
  <2>10. CacheInv'
    BY <1>1, <1>2, <1>3, <1>4, <2>1, <2>2 DEF CacheInv, DecodedIsCurrent
  <2> QED
    BY <1>2, <2>7, <2>8, <2>9, <2>10 DEF IInv, Shared
<1>6. CASE ~Undecoded
  <2>1. UNCHANGED <<framebuffer, previous, decoded, client>>
    BY <1>6 DEF DecodeLatestFrame
  <2>2. previous # NoFrame /\ decoded = pass.sequence
    BY <1>6 DEF Undecoded
  <2>3. framebuffer = previous
    BY <1>0, <1>3, <2>2 DEF IInv, Shared, CacheInv
  <2>4. ViewersInv'
    BY <1>0, <2>1, ViewersSame DEF IInv
  <2>5. ScreenType'
    BY <1>0, <2>1 DEF IInv, Shared, ScreenType, feed, clock
  <2>6. PassInv' /\ CacheInv'
    BY <1>0, <1>2, <1>3, <1>4, <2>1, <2>2, <2>3
       DEF IInv, Shared, PassInv, CacheInv, DecodedIsCurrent
  <2> QED
    BY <1>2, <2>4, <2>5, <2>6 DEF IInv, Shared
<1> QED
  BY <1>5, <1>6

LEMMA DecodeFailsKeeps ==
    ASSUME IInv, NEW v \in Viewers, DecodeFails(v) PROVE IInv'
<1>0. /\ pc = "serve" /\ pc' = pc /\ Doom(v) /\ ~pass.decoded /\ Undecoded
      /\ framebuffer' \in {framebuffer, [t \in Tiles |-> Garbage]}
      /\ UNCHANGED <<client, feed, size, previous, decoded, clock, torn>>
  BY DEF DecodeFails, NeedsDecode
<1>1. ViewersInv'
  BY <1>0, ViewersSame DEF IInv
<1>2. /\ PassType' /\ pass'.frame = pass.frame
      /\ pass'.sequence = pass.sequence /\ pass'.decoded = pass.decoded
  BY <1>0, DoomKeeps DEF IInv
<1>3. framebuffer' \in [Tiles -> Colors \cup {Garbage, Empty}]
  BY <1>0 DEF IInv, Shared, ScreenType
<1>4. ScreenType'
  BY <1>0, <1>3 DEF IInv, Shared, ScreenType, feed, clock
<1>5. PassInv'
  BY <1>0, <1>2 DEF IInv, Shared, PassInv, feed
<1>6. previous # NoFrame => decoded < pass.sequence /\ decoded < sequence
  BY <1>0 DEF Undecoded, IInv, Shared, ScreenType, PassInv, PassType
<1>7. CacheInv'
  BY <1>0, <1>2, <1>6 DEF IInv, Shared, CacheInv, DecodedIsCurrent, feed
<1> QED
  BY <1>1, <1>2, <1>4, <1>5, <1>7 DEF IInv, Shared

LEMMA SendKeeps ==
    ASSUME IInv, NEW v \in Viewers, client[v] # Absent, SendFramebuffer(v)
    PROVE  IInv'
<1> DEFINE c == client[v]
           sent == Wanted(c) \cap Damage(c)
<1>0. /\ pc = "serve" /\ pc' = pc /\ pass.decoded /\ ~Skipped(c)
      /\ pass' = [pass EXCEPT !.todo = @ \ {v}]
      /\ UNCHANGED <<feed, screen, clock>>
  BY DEF SendFramebuffer
<1>1. Sound(v, c, previous) /\ ~Writing(c)
  BY <1>0, ServedFacts
<1>2. previous # NoFrame /\ framebuffer = previous
  BY <1>0 DEF IInv, Shared, CacheInv
<1>3. previous' = previous
  BY <1>0 DEF screen
<1>4. ViewersInv'
  <2>1. CASE sent = {}
    <3>1. client' = [client EXCEPT ![v] = Unsent(c)] /\ torn' = torn
      BY <2>1 DEF SendFramebuffer
    <3>2. Sound(v, Unsent(c), previous)
      BY <1>1, UnsentSound
    <3> QED
      BY <1>0, <1>3, <3>1, <3>2, OneViewer DEF IInv, ViewersInv
  <2>2. CASE sent # {}
    <3>1. client' = [client EXCEPT ![v] = Sent(c, sent)] /\ Reply(v)
      BY <2>2 DEF SendFramebuffer
    <3>2. sent \in SUBSET Tiles
      BY <1>1 DEF Sound, ClientData, Damage
    <3>3. Sound(v, Sent(c, sent), previous)
      BY <1>1, <1>2, <3>2, SentSound DEF IInv
    <3>4. torn' = {}
      BY <1>1, <3>1, ReplyClean DEF IInv
    <3> QED
      BY <1>0, <1>3, <3>1, <3>3, <3>4, OneViewer DEF IInv
  <2> QED
    BY <2>1, <2>2
<1>5. /\ pass' \in [frame : {pass.frame}, sequence : {pass.sequence},
                    todo : SUBSET Viewers, doomed : SUBSET Viewers,
                    decoded : BOOLEAN, sentJPEG : BOOLEAN]
      /\ pass'.decoded = pass.decoded
  BY <1>0, TypeOfPass DEF IInv
<1>6. Shared'
  BY <1>0, <1>5, PassGoesOn DEF IInv, screen
<1> QED
  BY <1>4, <1>6 DEF IInv

LEMMA SendFailsKeeps ==
    ASSUME IInv, NEW v \in Viewers, SendFails(v) PROVE IInv'
<1>1. ViewersInv'
  BY ViewersSame DEF IInv, SendFails, screen
<1>2. Shared'
  BY DoomKeeps DEF IInv, SendFails, screen
<1> QED
  BY <1>1, <1>2 DEF IInv

LEMMA EndPassKeeps == IInv /\ EndPass => IInv'
<1> SUFFICES ASSUME IInv, EndPass PROVE IInv'
  OBVIOUS
<1>1. PICK outcome \in [Viewers -> Outcomes] :
         client' = [v \in Viewers |->
             IF v \in pass.doomed THEN Absent
             ELSE IF pass.sentJPEG THEN Flushed(client[v], outcome[v])
             ELSE client[v]]
  BY DEF EndPass
<1>2. /\ pc = "serve" /\ pc' = "poll" /\ pass' = NoPass
      /\ UNCHANGED <<feed, screen, torn>>
      /\ jpegDue' \in BOOLEAN /\ pixelsDue' \in BOOLEAN
  BY DEF EndPass
<1>3. ASSUME NEW v \in Viewers, client'[v] # Absent
      PROVE  Sound(v, client'[v], previous)
  <2>1. \/ client'[v] = client[v]
        \/ client'[v] = Flushed(client[v], outcome[v])
    BY <1>1, <1>3
  <2> QED
    BY <1>3, <2>1, AllFlushed DEF IInv, ViewersInv
<1>4. client' \in [Viewers -> ClientData \cup {Absent}]
  <2>1. \A v \in Viewers : client'[v] \in ClientData \cup {Absent}
    BY <1>3 DEF Sound
  <2> QED
    BY <1>1, <2>1
<1>5. ViewersInv'
  BY <1>2, <1>3, <1>4 DEF IInv, ViewersInv, ClosedAreReaped, screen
<1>6. ScreenType'
  BY <1>2 DEF IInv, Shared, ScreenType, feed, screen
<1>7. NoPass.sequence = 0 /\ NoPass.decoded = FALSE /\ NoPass.frame = NoFrame
  BY DEF NoPass
<1>8. PassType'
  <2>1. 0 \in 0 .. sequence
    BY DEF IInv, Shared, ScreenType
  <2> QED
    BY <1>2, <2>1 DEF PassType, NoPass, feed
<1>9. PassInv' /\ CacheInv'
  BY <1>2, <1>7 DEF IInv, Shared, PassInv, CacheInv, DecodedIsCurrent, feed,
     screen
<1> QED
  BY <1>5, <1>6, <1>8, <1>9 DEF IInv, Shared

-----------------------------------------------------------------------------
(* A pass serves viewers that are connected. *)
Present == pc = "serve" => \A v \in pass.todo : client[v] # Absent

(* What is sound is there. *)
LEMMA SoundIsPresent ==
    ASSUME NEW v, NEW c, NEW p, Sound(v, c, p) PROVE c # Absent
BY AbsentAssumption DEF Sound

(* Serving a viewer leaves the others, and changes at most its own data.   *)
LEMMA ServingKeepsPresent ==
    ASSUME Present, pc = "serve", NEW v \in Viewers, NEW d, d # Absent,
           client \in [Viewers -> ClientData \cup {Absent}],
           pass.todo \in SUBSET Viewers,
           client' = client \/ client' = [client EXCEPT ![v] = d],
           pass'.todo \subseteq pass.todo
    PROVE  Present'
<1> SUFFICES ASSUME NEW w \in pass'.todo PROVE client'[w] # Absent
  BY DEF Present
<1>1. w \in Viewers /\ client[w] # Absent
  BY DEF Present
<1>2. CASE client' = client
  BY <1>1, <1>2
<1>3. CASE client' = [client EXCEPT ![v] = d]
  BY <1>1, <1>3
<1> QED
  BY <1>2, <1>3

LEMMA PresentKept == IInv /\ Present /\ [Next]_vars => Present'
<1> SUFFICES ASSUME IInv, Present, [Next]_vars, pc' = "serve" PROVE Present'
  BY DEF Present
<1>0. /\ pass.todo \in SUBSET Viewers /\ client \in [Viewers -> ClientData \cup {Absent}]
      /\ \A v \in pass.todo : pc = "serve" => Sound(v, client[v], previous)
  BY DEF IInv, ViewersInv, Shared, PassType, Present
<1>1. CASE Message
  BY <1>1 DEF Message, NewClient, ClientGone, EnableEncoding,
     FramebufferUpdateRequested, ContinuousHandleMessage
<1>2. CASE SetFrame
  BY <1>2 DEF SetFrame, Present
<1>3. CASE Time
  <2>1. CASE JPEGInterval \/ PixelsInterval
    BY <2>1 DEF JPEGInterval, PixelsInterval
  <2>2. ASSUME NEW v \in Viewers, TwoSeconds(v) PROVE Present'
    <3>1. Sound(v, client[v], previous)
      BY <2>2 DEF TwoSeconds, IInv, ViewersInv
    <3>2. [client[v] EXCEPT !.late = TRUE] # Absent
      BY <3>1, LateSound, SoundIsPresent
    <3>3. /\ client' = [client EXCEPT ![v] = [client[v] EXCEPT !.late = TRUE]]
          /\ pass' = pass /\ pc' = pc
      BY <2>2 DEF TwoSeconds
    <3> QED
      BY <1>0, <3>2, <3>3, ServingKeepsPresent
  <2> QED
    BY <1>3, <2>1, <2>2 DEF Time
<1>4. CASE Poll \/ EndPoll \/ SyncSubscription
  BY <1>4 DEF Poll, EndPoll, SyncSubscription
<1>5. CASE NothingToServe \/ Resize \/ EndPass
  BY <1>5 DEF NothingToServe, Resize, EndPass
<1>6. CASE BeginPass
  BY <1>6 DEF BeginPass, NoPass, Connected, Present
<1>7. ASSUME NEW v \in Viewers,
             Skip(v) \/ RefuseJPEG(v) \/ DecodeFails(v) \/ SendFails(v)
      PROVE  Present'
  <2>1. pc = "serve" /\ client' = client /\ pass'.todo \subseteq pass.todo
    BY <1>7, TypeOfPass DEF Skip, RefuseJPEG, DecodeFails, NeedsDecode,
       SendFails,
       Doom, IInv
  <2> QED
    BY <2>1, <1>0 DEF Present
<1>8. ASSUME NEW v \in Viewers, QueueJPEG(v) PROVE Present'
  <2>1. pc = "serve" /\ v \in pass.todo /\ client[v].direct
    BY <1>8 DEF QueueJPEG
  <2>2. Queued(client[v]) # Absent
    BY <1>0, <2>1, QueuedSound, SoundIsPresent DEF IInv
  <2>3. /\ client' = [client EXCEPT ![v] = Queued(client[v])]
        /\ pass'.todo \subseteq pass.todo
    BY <1>8, TypeOfPass DEF QueueJPEG, IInv
  <2> QED
    BY <1>0, <2>1, <2>2, <2>3, ServingKeepsPresent
<1>9. ASSUME NEW v \in Viewers, DecodeLatestFrame(v) PROVE Present'
  <2>1. IInv' /\ pc = "serve" /\ pass'.todo = pass.todo
    BY <1>9, DecodeKeeps, TypeOfPass DEF DecodeLatestFrame, NeedsDecode, IInv
  <2> SUFFICES ASSUME NEW w \in pass.todo PROVE client'[w] # Absent
    BY <2>1 DEF Present
  <2>2. Sound(w, client[w], previous) /\ w \in Viewers
    BY <1>0, <2>1
  <2>3. CASE client' = client
    BY <2>2, <2>3, SoundIsPresent
  <2>4. ASSUME NEW dirty \in {Changed, Tiles},
               client' = [u \in Viewers |->
                  IF u \in Damaged THEN [client[u] EXCEPT !.modified = @ \cup dirty]
                                   ELSE client[u]]
        PROVE  client'[w] # Absent
    <3>1. w \in Damaged
      BY <2>2, SoundIsPresent DEF Damaged, Connected
    <3>2. client'[w] = [client[w] EXCEPT !.modified = @ \cup dirty]
      BY <2>2, <2>4, <3>1
    <3>3. client[w] \in ClientData /\ client[w].modified \cup dirty \in SUBSET Tiles
      BY <2>2 DEF Sound, ClientData, Changed
    <3>4. client'[w] \in ClientData
      BY <3>2, <3>3 DEF ClientData
    <3> QED
      BY <3>4, AbsentAssumption
  <2> QED
    BY <1>9, <2>3, <2>4 DEF DecodeLatestFrame
<1>10. ASSUME NEW v \in Viewers, SendFramebuffer(v) PROVE Present'
  <2>1. pc = "serve" /\ v \in pass.todo /\ pass.decoded
    BY <1>10 DEF SendFramebuffer
  <2>2. Sound(v, client[v], previous)
    BY <1>0, <2>1
  <2>3. previous # NoFrame /\ framebuffer = previous
    BY <2>1 DEF IInv, Shared, CacheInv
  <2>4. pass'.todo \subseteq pass.todo
    BY <1>10, TypeOfPass DEF SendFramebuffer, IInv
  <2>5. Wanted(client[v]) \cap Damage(client[v]) \in SUBSET Tiles
    BY <2>2 DEF Sound, ClientData, Damage
  <2>6. /\ Unsent(client[v]) # Absent
        /\ Sent(client[v], Wanted(client[v]) \cap Damage(client[v])) # Absent
    BY <2>2, <2>3, <2>5, UnsentSound, SentSound, SoundIsPresent DEF IInv
  <2>7. \/ client' = [client EXCEPT ![v] = Unsent(client[v])]
        \/ client' = [client EXCEPT ![v] =
                         Sent(client[v], Wanted(client[v]) \cap Damage(client[v]))]
    BY <1>10 DEF SendFramebuffer
  <2> QED
    BY <1>0, <2>1, <2>4, <2>6, <2>7, ServingKeepsPresent
<1>11. CASE UNCHANGED vars
  BY <1>11 DEF vars, Present
<1> QED
  BY <1>1, <1>2, <1>3, <1>4, <1>5, <1>6, <1>7, <1>8, <1>9, <1>10, <1>11
     DEF Next, Run, ProcessFrame

-----------------------------------------------------------------------------
(* The inductive invariant. *)

LEMMA InitInv == Init => IInv /\ Present
<1> SUFFICES ASSUME Init PROVE IInv /\ Present
  OBVIOUS
<1>1. client \in [Viewers -> ClientData \cup {Absent}]
      /\ \A v \in Viewers : client[v] = Absent
  BY DEF Init
<1>2. ViewersInv
  BY <1>1 DEF Init, ViewersInv, ClosedAreReaped
<1>3. framebuffer \in [Tiles -> Colors \cup {Garbage, Empty}]
  BY DEF Init, Plain
<1>4. sequence \in 0 .. MaxFrames /\ decoded \in 0 .. sequence
  BY DeliveryAssumption DEF Init
<1>5. ScreenType
  BY <1>3, <1>4 DEF Init, ScreenType
<1>6. PassType /\ PassInv /\ CacheInv
  BY DEF Init, PassType, PassInv, CacheInv, DecodedIsCurrent, NoPass
<1>7. Present
  BY DEF Init, Present
<1> QED
  BY <1>2, <1>5, <1>6, <1>7 DEF IInv, Shared

LEMMA StepInv == IInv /\ Present /\ [Next]_vars => IInv'
<1> SUFFICES ASSUME IInv, Present, [Next]_vars PROVE IInv'
  OBVIOUS
<1>1. CASE Message
  BY <1>1, NewClientKeeps, ClientGoneKeeps, EnableEncodingKeeps, RequestKeeps,
     ContinuousKeeps DEF Message
<1>2. CASE SetFrame
  BY <1>2, SetFrameKeeps
<1>3. CASE Time
  BY <1>3, IntervalKeeps, TwoSecondsKeeps DEF Time
<1>4. CASE Poll \/ EndPoll \/ SyncSubscription
  BY <1>4, PollKeeps, EndPollKeeps, SyncKeeps
<1>5. CASE NothingToServe \/ Resize \/ BeginPass \/ EndPass
  BY <1>5, NothingToServeKeeps, ResizeKeeps, BeginPassKeeps, EndPassKeeps
<1>6. ASSUME NEW v \in Viewers,
             Skip(v) \/ RefuseJPEG(v) \/ DecodeLatestFrame(v) \/ DecodeFails(v)
             \/ SendFails(v)
      PROVE  IInv'
  BY <1>6, SkipKeeps, RefuseJPEGKeeps, DecodeKeeps, DecodeFailsKeeps,
     SendFailsKeeps
<1>7. ASSUME NEW v \in Viewers, QueueJPEG(v) \/ SendFramebuffer(v) PROVE IInv'
  <2>1. client[v] # Absent
    BY <1>7 DEF QueueJPEG, SendFramebuffer, Present
  <2> QED
    BY <1>7, <2>1, QueueJPEGKeeps, SendKeeps
<1>8. CASE UNCHANGED vars
  <2>1. ViewersInv'
    BY <1>8, ViewersSame DEF IInv, vars, screen
  <2>2. Shared'
    BY <1>8, SharedSame DEF IInv, vars
  <2> QED
    BY <2>1, <2>2 DEF IInv
<1> QED
  BY <1>1, <1>2, <1>3, <1>4, <1>5, <1>6, <1>7, <1>8 DEF Next, Run, ProcessFrame

(* The inductive invariant holds in every reachable state. *)
THEOREM Invariant == Spec => [](IInv /\ Present)
<1>1. IInv /\ Present /\ [Next]_vars => (IInv /\ Present)'
  BY StepInv, PresentKept
<1> QED
  BY <1>1, InitInv, PTL DEF Spec

(* Every variable keeps its type; what is cached as decoded is a picture.  *)
THEOREM TypeCorrect == Spec => []TypeOK
<1>1. IInv => TypeOK
  <2> SUFFICES ASSUME IInv PROVE TypeOK
    OBVIOUS
  <2>1. previous \in Pictures \cup {NoFrame}
    BY DEF IInv, Shared, ScreenType
  <2> QED
    BY <2>1 DEF IInv, ViewersInv, Shared, ScreenType, PassType, TypeOK
<1> QED
  BY <1>1, Invariant, PTL

-----------------------------------------------------------------------------
(* What a step may do with a viewer's unfinished output. *)
Completes(c, d) ==
    \/ d = Absent
    \/ d.sock = "closed"
    \/ d.pending_jpeg = c.pending_jpeg /\ d.jpeg_written >= c.jpeg_written
    \/ ~Writing(d) /\ d.view = c.pending_jpeg

(* Writing more of it does it, whether or not closed viewers are reaped.   *)
LEMMA FlushedCompletes ==
    ASSUME NEW c \in ClientData, NEW o
    PROVE  Completes(c, Flushed(c, o)) /\ Completes(c, Reaped(Flushed(c, o)))
<1> DEFINE d == Flushed(c, o)
<1>1. c.jpeg_written \in Nat
  BY DeliveryAssumption DEF ClientData
<1>2. Completes(c, d)
  <2>1. CASE d = c
    BY <1>1, <2>1 DEF Completes
  <2>2. CASE d = Cancelled(c)
    BY <2>2 DEF Completes, Cancelled, ClientData
  <2>3. CASE d = Finished(c)
    BY <2>3 DEF Completes, Finished, Writing, ClientData
  <2>4. CASE d = [c EXCEPT !.jpeg_written = @ + 1]
    BY <1>1, <2>4 DEF Completes, ClientData
  <2> QED
    BY <2>1, <2>2, <2>3, <2>4 DEF Flushed
<1>3. Reaped(d) \in {d, Absent}
  BY DEF Reaped
<1> QED
  BY <1>2, <1>3 DEF Completes

(* What leaves a viewer alone does it, and so does what another viewer of  *)
(* the same pass or poll did.                                              *)
LEMMA SameCompletes ==
    ASSUME NEW c \in ClientData PROVE Completes(c, c)
<1>1. c.jpeg_written \in Nat
  BY DeliveryAssumption DEF ClientData
<1> QED
  BY <1>1 DEF Completes

LEMMA OtherCompletes ==
    ASSUME NEW v \in Viewers, NEW w \in Viewers, NEW d, client[v] \in ClientData,
           client \in [Viewers -> ClientData \cup {Absent}],
           client' = client \/ client' = [client EXCEPT ![w] = d],
           w # v \/ client' = client
    PROVE  Completes(client[v], client'[v])
<1>1. client'[v] = client[v]
  OBVIOUS
<1> QED
  BY <1>1, SameCompletes

LEMMA StepCompletes ==
    ASSUME IInv, [Next]_vars,
           NEW v \in Viewers, client[v] # Absent, Writing(client[v])
    PROVE  Completes(client[v], client'[v])
<1>0. /\ client \in [Viewers -> ClientData \cup {Absent}]
      /\ client[v] \in ClientData
  BY DEF IInv, ViewersInv, Sound
<1>1. CASE Message
  <2>1. PICK w \in Viewers :
           \/ NewClient(w) \/ ClientGone(w) \/ EnableEncoding(w)
           \/ \E region \in Regions, incremental \in Incremental :
                 FramebufferUpdateRequested(w, region, incremental)
           \/ \E enabled \in BOOLEAN : ContinuousHandleMessage(w, enabled)
    BY <1>1 DEF Message
  <2>2. client[w] = Absent \/ ~Writing(client[w])
    BY <2>1 DEF NewClient, ClientGone, EnableEncoding, Parsed,
       FramebufferUpdateRequested, ContinuousHandleMessage
  <2>3. w # v
    BY <2>2
  <2>4. \E d : client' = [client EXCEPT ![w] = d]
    BY <2>1 DEF NewClient, ClientGone, EnableEncoding,
       FramebufferUpdateRequested, ContinuousHandleMessage
  <2> QED
    BY <1>0, <2>3, <2>4, OtherCompletes
<1>2. CASE Poll
  <2>1. PICK outcome \in [Viewers -> Outcomes] :
           client' = [w \in Viewers |-> Reaped(Flushed(client[w], outcome[w]))]
    BY <1>2 DEF Poll
  <2> QED
    BY <1>0, <2>1, FlushedCompletes
<1>3. CASE EndPass
  <2>1. PICK outcome \in [Viewers -> Outcomes] :
           client' = [w \in Viewers |->
              IF w \in pass.doomed THEN Absent
              ELSE IF pass.sentJPEG THEN Flushed(client[w], outcome[w])
              ELSE client[w]]
    BY <1>3 DEF EndPass
  <2>2. client'[v] \in {Absent, Flushed(client[v], outcome[v]), client[v]}
    BY <2>1
  <2> QED
    BY <1>0, <2>2, FlushedCompletes, SameCompletes DEF Completes
<1>4. CASE Resize
  BY <1>4 DEF Resize, HasPendingJPEG, Connected
<1>5. ASSUME NEW w \in Viewers, TwoSeconds(w)
      PROVE  Completes(client[v], client'[v])
  <2>1. client' = [client EXCEPT ![w] = [client[w] EXCEPT !.late = TRUE]]
    BY <1>5 DEF TwoSeconds
  <2>2. CASE w = v
    <3>1. client'[v] = [client[v] EXCEPT !.late = TRUE]
      BY <1>0, <2>1, <2>2
    <3>2. /\ client'[v].pending_jpeg = client[v].pending_jpeg
          /\ client'[v].jpeg_written = client[v].jpeg_written
      BY <1>0, <3>1 DEF ClientData
    <3>3. client[v].jpeg_written \in Nat
      BY <1>0, DeliveryAssumption DEF ClientData
    <3> QED
      BY <3>2, <3>3 DEF Completes
  <2> QED
    BY <1>0, <2>1, <2>2, OtherCompletes
<1>6. ASSUME NEW w \in Viewers, QueueJPEG(w) \/ SendFramebuffer(w)
      PROVE  Completes(client[v], client'[v])
  <2>1. w # v
    BY <1>6 DEF QueueJPEG, SendFramebuffer, Skipped, Busy
  <2>2. \E d : client' = [client EXCEPT ![w] = d]
    BY <1>6 DEF QueueJPEG, SendFramebuffer
  <2> QED
    BY <1>0, <2>1, <2>2, OtherCompletes
<1>7. ASSUME NEW w \in Viewers, DecodeLatestFrame(w)
      PROVE  Completes(client[v], client'[v])
  <2>1. CASE client' = client
    BY <1>0, <2>1, SameCompletes
  <2>2. ASSUME NEW dirty \in {Changed, Tiles},
               client' = [u \in Viewers |->
                  IF u \in Damaged THEN [client[u] EXCEPT !.modified = @ \cup dirty]
                                   ELSE client[u]]
        PROVE  Completes(client[v], client'[v])
    <3>1. \/ client'[v] = client[v]
          \/ client'[v] = [client[v] EXCEPT !.modified = @ \cup dirty]
      BY <2>2
    <3>2. /\ client'[v].pending_jpeg = client[v].pending_jpeg
          /\ client'[v].jpeg_written = client[v].jpeg_written
      BY <1>0, <3>1 DEF ClientData
    <3>3. client[v].jpeg_written \in Nat
      BY <1>0, DeliveryAssumption DEF ClientData
    <3> QED
      BY <3>2, <3>3 DEF Completes
  <2> QED
    BY <1>7, <2>1, <2>2 DEF DecodeLatestFrame
<1>8. CASE client' = client
  BY <1>0, <1>8, SameCompletes
<1>9. \/ client' = client \/ Message \/ Poll \/ EndPass \/ Resize
      \/ \E w \in Viewers : \/ TwoSeconds(w) \/ QueueJPEG(w) \/ SendFramebuffer(w)
                            \/ DecodeLatestFrame(w)
  <2>1. CASE UNCHANGED vars
    BY <2>1 DEF vars
  <2>2. CASE SetFrame \/ EndPoll \/ SyncSubscription \/ NothingToServe \/ BeginPass
    BY <2>2 DEF SetFrame, EndPoll, SyncSubscription, NothingToServe, BeginPass
  <2>3. CASE JPEGInterval \/ PixelsInterval
    BY <2>3 DEF JPEGInterval, PixelsInterval
  <2>4. ASSUME NEW w \in Viewers,
               Skip(w) \/ RefuseJPEG(w) \/ DecodeFails(w) \/ SendFails(w)
        PROVE  client' = client
    BY <2>4 DEF Skip, RefuseJPEG, DecodeFails, SendFails
  <2> QED
    BY <2>1, <2>2, <2>3, <2>4 DEF Next, Run, Time, ProcessFrame
<1> QED
  BY <1>1, <1>2, <1>3, <1>4, <1>5, <1>6, <1>7, <1>8, <1>9

(* No library reply is ever written between the pieces of a JPEG message   *)
(* (PollClientEvents).                                                     *)
THEOREM MessagesApart == Spec => []NoInterleaving
<1>1. IInv => NoInterleaving
  BY DEF IInv, ViewersInv, NoInterleaving
<1> QED
  BY <1>1, Invariant, PTL

(* LibVNCServer never finds a closed socket (PollClientEvents).            *)
THEOREM NoneClosed == Spec => []ClosedAreReaped
<1>1. IInv => ClosedAreReaped
  BY DEF IInv, ViewersInv
<1> QED
  BY <1>1, Invariant, PTL

(* Another viewer's decode loses no viewer its damage (DecodeLatestFrame). *)
THEOREM NoDamageLost == Spec => []DamageKept
<1>1. IInv => DamageKept
  <2> SUFFICES ASSUME IInv, NEW v \in Connected \ Switching, ~client[v].direct
               PROVE  previous = NoFrame
                      \/ \A t \in Tiles \ client[v].modified :
                            client[v].view[t] = previous[t]
    BY DEF DamageKept
  <2>1. Sound(v, client[v], previous)
    BY DEF IInv, ViewersInv, Connected
  <2> QED
    BY <2>1 DEF Sound, UpToDate
<1> QED
  BY <1>1, Invariant, PTL

(* Nobody is shown an empty screen or a broken decode (Resize,             *)
(* DecodeLatestFrame).                                                     *)
THEOREM FramesOnly == Spec => []ShowsOnlyFrames
<1>1. IInv => ShowsOnlyFrames
  <2> SUFFICES ASSUME IInv, NEW v \in Connected \ Switching, ~client[v].direct,
                      NEW t \in Tiles
               PROVE  client[v].view[t] \in Colors \cup {Blank}
    BY DEF ShowsOnlyFrames
  <2>1. Sound(v, client[v], previous)
    BY DEF IInv, ViewersInv, Connected
  <2> QED
    BY <2>1 DEF Sound, Coloured
<1> QED
  BY <1>1, Invariant, PTL

(* Cached pixels are never taken for another subscription's frame          *)
(* (ClearLatestFrame).                                                     *)
THEOREM CacheIsCurrent == Spec => []DecodedIsCurrent
<1>1. IInv => DecodedIsCurrent
  BY DEF IInv, Shared, CacheInv
<1> QED
  BY <1>1, Invariant, PTL

(* JPEG output that was begun is written to its end or the viewer closed   *)
(* (FlushJPEGWrites, PollClientEvents).                                    *)
THEOREM OutputEnds == Spec => OutputCompleted
<1>1. IInv /\ [Next]_vars =>
         [\A v \in Connected : Writing(client[v]) =>
            \/ client'[v] = Absent
            \/ client'[v].sock = "closed"
            \/ /\ client'[v].pending_jpeg = client[v].pending_jpeg
               /\ client'[v].jpeg_written >= client[v].jpeg_written
            \/ ~Writing(client'[v]) /\ client'[v].view = client[v].pending_jpeg]_vars
  BY StepCompletes DEF Connected, Completes
<1> QED
  BY <1>1, Invariant, PTL DEF Spec, OutputCompleted

-----------------------------------------------------------------------------
(* Requests.  A viewer whose requests the code means to answer: not one    *)
(* that changes its encodings, nor one that switched continuous updates    *)
(* off, which ends its requests (ContinuousHandleMessage).                 *)
Awaited(v) ==
    /\ v \notin Switching /\ client[v].sock = "open"
    /\ v \in Continuous => client[v].continuous_enabled

(* No request is forgotten, the first half of RequestsAnswered's safety: a *)
(* viewer that asked for tiles it does not show as they are is being       *)
(* written to, or ProcessFrame still counts it among those that need an    *)
(* update (vnc_server.cpp:1413-1415, 1459-1463).                           *)
NoRequestForgotten ==
    \A v \in Connected : Awaited(v) /\ Outdated(v) =>
        Writing(client[v]) \/ client[v].need_update

(* The second half: if viewers ask for the whole screen, such an update is *)
(* not one that ProcessFrame takes for sent already.  A viewer that asks   *)
(* for parts can meet that, as the run frame_regions shows.                *)
AnswerDue ==
    \A v \in Connected : Awaited(v) /\ Outdated(v) =>
        \/ Writing(client[v])
        \/ client[v].force_update \/ client[v].last_sequence # sequence

(* Why: what was asked for is kept together with the mark that it is due,  *)
(* and a viewer served with the newest frame shows it, or will once its    *)
(* output is written.                                                      *)
Heeded(v, c) ==
    /\ c.continuous_enabled => v \in Continuous /\ c.need_update
    /\ v \notin Continuous /\ c.requested # {} => c.need_update

ToShow(c) == IF Writing(c) THEN c.pending_jpeg ELSE c.view

Prompt(v, c, n, f) ==
    /\ c.last_sequence <= n
    /\ c.requested \in {{}, Tiles}
    /\ c.need_update => Wanted(c) = Tiles
    /\ v \notin Switching /\ c.sock = "open" /\ f # NoFrame /\ c.last_sequence = n
          => ToShow(c) = f.image

Attentive(v, c, n, f) ==
    Heeded(v, c) /\ (Regions \subseteq {Tiles} => Prompt(v, c, n, f))

Attention ==
    /\ sequence = 0 <=> latest = NoFrame
    /\ pass.decoded => decoded = pass.sequence
    /\ \A v \in Viewers : client[v] # Absent => Attentive(v, client[v], sequence, latest)

(* What may happen to a viewer without touching its requests. *)
Mild(c, d) ==
    /\ d.continuous_enabled = c.continuous_enabled /\ d.need_update = c.need_update
    /\ d.requested = c.requested /\ d.last_sequence = c.last_sequence
    /\ d.sock = "open" => c.sock = "open" /\ ToShow(d) = ToShow(c)

(* A mild change leaves what is said of the requests as it was.            *)
LEMMA MildKeeps ==
    ASSUME NEW v, NEW c, NEW d, NEW n, NEW f, Attentive(v, c, n, f), Mild(c, d)
    PROVE  Attentive(v, d, n, f)
<1>1. Heeded(v, d)
  BY DEF Attentive, Heeded, Mild
<1>2. Wanted(d) = Wanted(c)
  BY DEF Wanted, Mild
<1>3. ASSUME Prompt(v, c, n, f) PROVE Prompt(v, d, n, f)
  BY <1>2, <1>3 DEF Prompt, Mild
<1> QED
  BY <1>1, <1>3 DEF Attentive

(* Writing a viewer's output, to the end or not, is mild; so is closing it.*)
LEMMA FlushedMild ==
    ASSUME NEW c \in ClientData, NEW o PROVE Mild(c, Flushed(c, o))
<1>1. CASE ~Writing(c) \/ c.sock = "closed"
  BY <1>1, AbsentAssumption DEF Flushed, Mild
<1>2. CASE ~(~Writing(c) \/ c.sock = "closed")
  <2>0. c # Absent /\ c.pending_jpeg # NoFrame
    BY <1>2, AbsentAssumption DEF Writing
  <2>1. Mild(c, Cancelled(c))
    BY DEF Cancelled, Mild, ClientData
  <2>2. Mild(c, Finished(c))
    <3>1. Finished(c).pending_jpeg = NoFrame /\ Finished(c).view = c.pending_jpeg
      BY DEF Finished, ClientData
    <3>2. ToShow(Finished(c)) = ToShow(c)
      BY <2>0, <3>1 DEF ToShow, Writing
    <3>3. /\ Finished(c).continuous_enabled = c.continuous_enabled
          /\ Finished(c).need_update = c.need_update
          /\ Finished(c).requested = c.requested
          /\ Finished(c).last_sequence = c.last_sequence /\ Finished(c).sock = c.sock
      BY DEF Finished, ClientData
    <3> QED
      BY <3>2, <3>3 DEF Mild
  <2>3. Mild(c, [c EXCEPT !.jpeg_written = @ + 1])
    BY DEF Mild, ClientData, ToShow, Writing
  <2>4. Mild(c, c)
    BY DEF Mild
  <2>5. Flushed(c, o) \in {Cancelled(c), Finished(c), [c EXCEPT !.jpeg_written = @ + 1], c}
    BY DEF Flushed
  <2> QED
    BY <2>1, <2>2, <2>3, <2>4, <2>5
<1> QED
  BY <1>1, <1>2

(* So are the mark that output takes long, new damage, and new encodings.  *)
LEMMA OthersMild ==
    ASSUME NEW c \in ClientData, NEW m
    PROVE  /\ Mild(c, [c EXCEPT !.late = TRUE])
           /\ Mild(c, [c EXCEPT !.modified = m])
           /\ Mild(c, Switched(c))
<1>1. Mild(c, [c EXCEPT !.late = TRUE])
  BY DEF Mild, ClientData, ToShow, Writing
<1>2. Mild(c, [c EXCEPT !.modified = m])
  BY DEF Mild, ClientData, ToShow, Writing
<1>3. Mild(c, Switched(c))
  BY DEF Mild, ClientData, ToShow, Writing, Switched
<1> QED
  BY <1>1, <1>2, <1>3

(* A new viewer has asked for nothing and seen nothing. *)
LEMMA NewDataAttentive ==
    ASSUME NEW v, NEW direct, NEW n \in Nat, NEW f, n = 0 <=> f = NoFrame
    PROVE  Attentive(v, NewData(direct), n, f)
BY DEF NewData, Attentive, Heeded, Prompt

(* Requests, and continuous updates switched on or off. *)
LEMMA AskingAttentive ==
    ASSUME NEW v, NEW c \in ClientData, NEW region \in Regions, NEW incremental,
           NEW n, NEW f, Attentive(v, c, n, f)
    PROVE  Attentive(v, Asking(c, region, incremental), n, f)
<1> DEFINE d == Asking(c, region, incremental)
<1>1. /\ d.continuous_enabled = c.continuous_enabled /\ d.need_update = TRUE
      /\ d.requested = c.requested \cup region /\ d.last_sequence = c.last_sequence
      /\ d.sock = c.sock /\ d.pending_jpeg = c.pending_jpeg /\ d.view = c.view
  BY DEF Asking, ClientData
<1>2. ToShow(d) = ToShow(c)
  BY <1>1 DEF ToShow, Writing
<1>3. Heeded(v, d)
  BY <1>1 DEF Attentive, Heeded
<1>4. ASSUME Regions \subseteq {Tiles} PROVE Prompt(v, d, n, f)
  <2>1. Prompt(v, c, n, f)
    BY <1>4 DEF Attentive
  <2>2. d.requested = Tiles
    BY <1>1, <1>4, <2>1 DEF Prompt
  <2>3. Wanted(d) = Tiles
    BY <2>2 DEF Wanted
  <2> QED
    BY <1>1, <1>2, <2>1, <2>2, <2>3 DEF Prompt
<1> QED
  BY <1>3, <1>4 DEF Attentive

(* Continuous updates may be switched by those that use them.              *)
LEMMA ContinuedAttentive ==
    ASSUME NEW v \in Continuous, NEW c \in ClientData, NEW enabled \in BOOLEAN,
           NEW n, NEW f, Attentive(v, c, n, f)
    PROVE  Attentive(v, [c EXCEPT !.continuous_enabled = enabled,
                                  !.need_update = enabled, !.force_update = enabled],
                     n, f)
<1> DEFINE d == [c EXCEPT !.continuous_enabled = enabled,
                          !.need_update = enabled, !.force_update = enabled]
<1>1. /\ d.continuous_enabled = enabled /\ d.need_update = enabled
      /\ d.requested = c.requested /\ d.last_sequence = c.last_sequence
      /\ d.sock = c.sock /\ d.pending_jpeg = c.pending_jpeg /\ d.view = c.view
  BY DEF ClientData
<1>2. ToShow(d) = ToShow(c)
  BY <1>1 DEF ToShow, Writing
<1>3. Heeded(v, d)
  BY <1>1 DEF Heeded
<1>4. ASSUME Regions \subseteq {Tiles} PROVE Prompt(v, d, n, f)
  <2>1. Prompt(v, c, n, f)
    BY <1>4 DEF Attentive
  <2>2. d.need_update => Wanted(d) = Tiles
    BY <1>1, <2>1 DEF Wanted, Prompt
  <2> QED
    BY <1>1, <1>2, <2>1, <2>2 DEF Prompt
<1> QED
  BY <1>3, <1>4 DEF Attentive

(* What is asked for is dropped when it is answered, or void.              *)
LEMMA AnsweredAttentive ==
    ASSUME NEW v, NEW c \in ClientData, NEW d, NEW n, NEW f, Attentive(v, c, n, f),
           d.continuous_enabled = c.continuous_enabled,
           d.need_update = c.continuous_enabled, d.requested = {},
           d.last_sequence <= n,
           v \notin Switching /\ d.sock = "open" /\ f # NoFrame /\ d.last_sequence = n
               => ToShow(d) = f.image
    PROVE  Attentive(v, d, n, f)
<1>1. Heeded(v, d)
  BY DEF Attentive, Heeded
<1>2. d.need_update => Wanted(d) = Tiles
  BY DEF Wanted
<1>3. Prompt(v, d, n, f)
  BY <1>2 DEF Prompt
<1> QED
  BY <1>1, <1>3 DEF Attentive

(* A viewer told of a new size is served no frame yet.                     *)
LEMMA ResizedAttentive ==
    ASSUME NEW v, NEW c \in ClientData, NEW n \in Nat, NEW f, n # 0,
           Attentive(v, c, n, f)
    PROVE  Attentive(v, Resized(c), n, f)
<1> DEFINE d == Resized(c)
<1>1. /\ d.continuous_enabled = c.continuous_enabled
      /\ d.need_update = c.continuous_enabled /\ d.requested = {} /\ d.last_sequence = 0
  BY DEF Resized, ClientData
<1> HIDE DEF d
<1>2. Attentive(v, d, n, f)
  BY <1>1, AnsweredAttentive
<1> QED
  BY <1>2 DEF d

(* A viewer is served with the frame of the pass, or with the decoded one. *)
LEMMA QueuedAttentive ==
    ASSUME NEW v, NEW c \in ClientData, Attentive(v, c, sequence, latest),
           pass.sequence \in 0 .. sequence, sequence \in Nat, pass.frame \in Frames,
           pass.sequence = sequence => pass.frame = latest
    PROVE  Attentive(v, Queued(c), sequence, latest)
<1> DEFINE d == Queued(c)
<1>1. /\ d.continuous_enabled = c.continuous_enabled
      /\ d.need_update = c.continuous_enabled /\ d.requested = {}
      /\ d.last_sequence = pass.sequence /\ d.pending_jpeg = pass.frame.image
  BY DEF Queued, Updated, ClientData
<1>2. pass.frame.image # NoFrame
  BY FrameFacts
<1>3. ToShow(d) = pass.frame.image
  BY <1>1, <1>2 DEF ToShow, Writing
<1> HIDE DEF d
<1>4. Attentive(v, d, sequence, latest)
  BY <1>1, <1>3, AnsweredAttentive
<1> QED
  BY <1>4 DEF d

(* A failed update keeps what it was to show, for the next pass.           *)
LEMMA UnsentAttentive ==
    ASSUME NEW v, NEW c \in ClientData, NEW n, NEW f, Attentive(v, c, n, f),
           c.need_update
    PROVE  Attentive(v, Unsent(c), n, f)
<1> DEFINE d == Unsent(c)
<1>1. /\ d.continuous_enabled = c.continuous_enabled /\ d.need_update = c.need_update
      /\ d.requested = Wanted(c) /\ d.last_sequence = c.last_sequence
      /\ d.sock = c.sock /\ d.pending_jpeg = c.pending_jpeg /\ d.view = c.view
  BY DEF Unsent, ClientData
<1>2. ToShow(d) = ToShow(c)
  BY <1>1 DEF ToShow, Writing
<1>3. Heeded(v, d)
  BY <1>1 DEF Attentive, Heeded
<1>4. ASSUME Regions \subseteq {Tiles} PROVE Prompt(v, d, n, f)
  <2>1. Prompt(v, c, n, f)
    BY <1>4 DEF Attentive
  <2>2. d.requested = Tiles
    BY <1>1, <2>1 DEF Prompt
  <2>3. Wanted(d) = Tiles
    BY <2>2 DEF Wanted
  <2> QED
    BY <1>1, <1>2, <2>1, <2>2, <2>3 DEF Prompt
<1> QED
  BY <1>3, <1>4 DEF Attentive

(* Pixels of the decoded frame: with the rest they are that frame.         *)
LEMMA SentAttentive ==
    ASSUME NEW v, NEW c, NEW sent, sent = Wanted(c) \cap Damage(c),
           Sound(v, c, previous), ~Writing(c), ~c.direct, c.need_update,
           Attentive(v, c, sequence, latest),
           pass.sequence \in 0 .. sequence, sequence \in Nat,
           previous \in Images, previous # NoFrame, framebuffer = previous,
           pass.sequence = sequence /\ latest # NoFrame => previous = latest.image
    PROVE  Attentive(v, Sent(c, sent), sequence, latest)
<1> DEFINE d == Sent(c, sent)
<1>0. c \in ClientData
  BY DEF Sound
<1>1. /\ d.continuous_enabled = c.continuous_enabled
      /\ d.need_update = c.continuous_enabled /\ d.requested = {}
      /\ d.last_sequence = pass.sequence /\ d.pending_jpeg = c.pending_jpeg
      /\ d.view = [t \in Tiles |-> IF t \in sent THEN framebuffer[t] ELSE c.view[t]]
  BY <1>0 DEF Sent, Updated, ClientData
<1>2. Heeded(v, d)
  BY <1>1 DEF Attentive, Heeded
<1>3. ASSUME Regions \subseteq {Tiles} PROVE Prompt(v, d, sequence, latest)
  <2>1. Wanted(c) = Tiles
    BY <1>3 DEF Attentive, Prompt
  <2>2. d.need_update => Wanted(d) = Tiles
    BY <1>1 DEF Wanted
  <2>3. ASSUME v \notin Switching PROVE d.view = previous
    <3>1. UpToDate(c, previous)
      BY <2>3 DEF Sound
    <3>2. \A t \in Tiles : t \notin sent => c.view[t] = previous[t]
      BY <2>1, <3>1 DEF UpToDate, Damage
    <3> QED
      BY <1>1, <3>2 DEF Images
  <2>4. ~Writing(d)
    BY <1>1 DEF Writing
  <2>5. ASSUME v \notin Switching, latest # NoFrame, d.last_sequence = sequence
        PROVE  ToShow(d) = latest.image
    BY <1>1, <2>3, <2>4, <2>5 DEF ToShow
  <2>6. d.last_sequence <= sequence /\ d.requested \in {{}, Tiles}
    BY <1>1
  <2> HIDE DEF d
  <2> QED
    BY <2>2, <2>5, <2>6 DEF Prompt
<1> QED
  BY <1>2, <1>3 DEF Attentive

(* Steps that leave the frame alone: one viewer changes, or all mildly.    *)
LEMMA OneAttentive ==
    ASSUME IInv, Attention, NEW v \in Viewers, NEW d,
           d # Absent => Attentive(v, d, sequence, latest),
           client' = [client EXCEPT ![v] = d],
           UNCHANGED <<sequence, latest>>,
           pass'.decoded => decoded' = pass'.sequence
    PROVE  Attention'
<1>1. ASSUME NEW w \in Viewers, client'[w] # Absent
      PROVE  Attentive(w, client'[w], sequence, latest)
  <2>1. client'[w] = IF w = v THEN d ELSE client[w]
    BY DEF IInv, ViewersInv
  <2> QED
    BY <1>1, <2>1 DEF Attention
<1> QED
  BY <1>1 DEF Attention

(* All viewers change mildly, or leave.                                    *)
LEMMA AllAttentive ==
    ASSUME IInv, Attention, UNCHANGED <<sequence, latest>>,
           pass'.decoded => decoded' = pass'.sequence,
           \A w \in Viewers : client'[w] # Absent =>
               client[w] # Absent /\ Mild(client[w], client'[w])
    PROVE  Attention'
<1>1. ASSUME NEW w \in Viewers, client'[w] # Absent
      PROVE  Attentive(w, client'[w], sequence, latest)
  BY <1>1, MildKeeps DEF Attention
<1> QED
  BY <1>1 DEF Attention

(* No viewer changes.                                                      *)
LEMMA SameAttentive ==
    ASSUME Attention, UNCHANGED <<client, sequence, latest>>,
           pass'.decoded => decoded' = pass'.sequence
    PROVE  Attention'
BY DEF Attention

(* The same for a viewer of the state, whether it stays or leaves.         *)
LEMMA FlushMild ==
    ASSUME IInv, NEW v \in Viewers, NEW o, Flushed(client[v], o) # Absent
    PROVE  client[v] # Absent /\ Mild(client[v], Flushed(client[v], o))
<1>1. client[v] # Absent
  BY DEF Flushed
<1>2. client[v] \in ClientData
  BY <1>1 DEF IInv, ViewersInv, Sound
<1> QED
  BY <1>1, <1>2, FlushedMild

(* Viewers' messages. *)
LEMMA MessageAttentive == ASSUME IInv, Attention, Message PROVE Attention'
<1>1. /\ pc = "parse" /\ UNCHANGED <<feed, screen, pass>>
  BY DEF Message, NewClient, ClientGone, EnableEncoding, FramebufferUpdateRequested,
     ContinuousHandleMessage
<1>2. /\ UNCHANGED <<sequence, latest>> /\ (pass'.decoded => decoded' = pass'.sequence)
      /\ sequence \in Nat
  BY <1>1 DEF feed, screen, Attention, IInv, Shared, ScreenType
<1>3. PICK v \in Viewers :
        \/ NewClient(v) \/ ClientGone(v) \/ EnableEncoding(v)
        \/ \E region \in Regions, incremental \in Incremental :
              FramebufferUpdateRequested(v, region, incremental)
        \/ \E enabled \in BOOLEAN : ContinuousHandleMessage(v, enabled)
  BY DEF Message
<1>4. CASE NewClient(v)
  <2>1. PICK direct \in Direct[v] : client' = [client EXCEPT ![v] = NewData(direct)]
    BY <1>4 DEF NewClient
  <2>2. Attentive(v, NewData(direct), sequence, latest)
    BY <1>2, NewDataAttentive DEF Attention
  <2> QED
    BY <1>2, <2>1, <2>2, OneAttentive
<1>5. CASE ClientGone(v)
  BY <1>2, <1>5, OneAttentive DEF ClientGone
<1>6. ASSUME Parsed(client[v])
      PROVE  client[v] \in ClientData /\ Attentive(v, client[v], sequence, latest)
  <2>1. client[v] # Absent
    BY <1>6 DEF Parsed
  <2> QED
    BY <2>1 DEF Attention, IInv, ViewersInv, Sound
<1>7. CASE EnableEncoding(v)
  <2>1. Parsed(client[v]) /\ client' = [client EXCEPT ![v] = Switched(client[v])]
    BY <1>7 DEF EnableEncoding
  <2>2. Attentive(v, Switched(client[v]), sequence, latest)
    BY <1>6, <2>1, OthersMild, MildKeeps
  <2> QED
    BY <1>2, <2>1, <2>2, OneAttentive
<1>8. ASSUME NEW region \in Regions, NEW incremental \in Incremental,
             FramebufferUpdateRequested(v, region, incremental)
      PROVE  Attention'
  <2>1. /\ Parsed(client[v])
        /\ client' = [client EXCEPT ![v] = Asking(client[v], region, incremental)]
    BY <1>8 DEF FramebufferUpdateRequested
  <2>2. Attentive(v, Asking(client[v], region, incremental), sequence, latest)
    BY <1>6, <2>1, AskingAttentive
  <2> QED
    BY <1>2, <2>1, <2>2, OneAttentive
<1>9. ASSUME NEW enabled \in BOOLEAN, ContinuousHandleMessage(v, enabled)
      PROVE  Attention'
  <2> DEFINE d == [client[v] EXCEPT !.continuous_enabled = enabled,
                                    !.need_update = enabled,
                                    !.force_update = enabled]
  <2>1. Parsed(client[v]) /\ v \in Continuous /\ client' = [client EXCEPT ![v] = d]
    BY <1>9 DEF ContinuousHandleMessage
  <2>2. Attentive(v, d, sequence, latest)
    BY <1>6, <2>1, ContinuedAttentive
  <2> HIDE DEF d
  <2> QED
    BY <1>2, <2>1, <2>2, OneAttentive
<1> QED
  BY <1>3, <1>4, <1>5, <1>7, <1>8, <1>9

(* A new frame is newer than what anybody was served with. *)
LEMMA SetFrameAttentive == ASSUME IInv, Attention, SetFrame PROVE Attention'
<1>1. /\ latest' \in Frames /\ sequence' = sequence + 1 /\ sequence \in Nat
      /\ UNCHANGED <<client, screen, pass>>
  BY DEF SetFrame, IInv, Shared, ScreenType
<1>2. latest' # NoFrame /\ sequence' # 0
  BY <1>1, FrameFacts
<1>3. ASSUME NEW v \in Viewers, client'[v] # Absent
      PROVE  Attentive(v, client'[v], sequence', latest')
  <2>1. client'[v] = client[v] /\ Attentive(v, client[v], sequence, latest)
    BY <1>1, <1>3 DEF Attention
  <2>2. client[v].last_sequence \in Nat
    BY <1>1, <1>3 DEF IInv, ViewersInv, Sound, ClientData
  <2>3. Prompt(v, client[v], sequence, latest) =>
           Prompt(v, client[v], sequence', latest')
    BY <1>1, <2>2 DEF Prompt
  <2> QED
    BY <2>1, <2>3 DEF Attentive
<1> QED
  BY <1>1, <1>2, <1>3 DEF Attention, screen

(* The steps of the loop outside of a pass. *)
LEMMA LoopAttentive ==
    ASSUME IInv, Attention,
           Poll \/ EndPoll \/ SyncSubscription \/ NothingToServe \/ Resize \/ BeginPass
           \/ EndPass \/ Time
    PROVE  Attention'
<1>1. CASE Poll
  <2>1. PICK outcome \in [Viewers -> Outcomes] :
           client' = [v \in Viewers |-> Reaped(Flushed(client[v], outcome[v]))]
    BY <1>1 DEF Poll
  <2>2. UNCHANGED <<sequence, latest, decoded, pass>>
    BY <1>1 DEF Poll, feed, screen
  <2>3. ASSUME NEW w \in Viewers, client'[w] # Absent
        PROVE  client[w] # Absent /\ Mild(client[w], client'[w])
    <3>1. client'[w] = Flushed(client[w], outcome[w])
      BY <2>1, <2>3 DEF Reaped
    <3> QED
      BY <2>3, <3>1, FlushMild
  <2> QED
    BY <2>2, <2>3, AllAttentive DEF Attention
<1>2. CASE EndPoll \/ NothingToServe \/ JPEGInterval \/ PixelsInterval
  BY <1>2, SameAttentive DEF EndPoll, NothingToServe, JPEGInterval, PixelsInterval, feed,
     screen, Attention
<1>3. CASE SyncSubscription
  <2>1. pc = "sync" /\ UNCHANGED <<client, pass>>
    BY <1>3 DEF SyncSubscription
  <2>2. pass.decoded = FALSE
    BY <2>1 DEF IInv, Shared, PassInv, NoPass
  <2>3. CASE ClearLatestFrame /\ Connected = {}
    BY <2>1, <2>2, <2>3 DEF ClearLatestFrame, Connected, Attention
  <2>4. CASE UNCHANGED <<latest, sequence, previous, decoded, clock>>
    BY <2>1, <2>2, <2>4 DEF Attention
  <2> QED
    BY <1>3, <2>3, <2>4 DEF SyncSubscription
<1>4. CASE Resize
  <2>1. /\ pc = "frame" /\ latest # NoFrame /\ UNCHANGED <<feed, pass>>
    BY <1>4 DEF Resize, Resizing
  <2>2. UNCHANGED <<sequence, latest>> /\ pass.decoded = FALSE /\ sequence \in Nat
        /\ sequence # 0
    BY <2>1 DEF feed, IInv, Shared, PassInv, NoPass, ScreenType, Attention
  <2>3. PICK told \in SUBSET (Connected \cap Resizable) :
           client' = [v \in Viewers |-> IF v \in told THEN Resized(client[v]) ELSE Absent]
    BY <1>4 DEF Resize
  <2>4. ASSUME NEW v \in Viewers, client'[v] # Absent
        PROVE  Attentive(v, client'[v], sequence, latest)
    <3>1. client'[v] = Resized(client[v]) /\ client[v] # Absent
      BY <2>3, <2>4 DEF Connected
    <3>2. client[v] \in ClientData /\ Attentive(v, client[v], sequence, latest)
      BY <3>1 DEF IInv, ViewersInv, Sound, Attention
    <3> QED
      BY <2>2, <3>1, <3>2, ResizedAttentive
  <2> QED
    BY <2>1, <2>2, <2>4 DEF Attention
<1>5. CASE BeginPass
  <2>1. UNCHANGED <<client, sequence, latest>> /\ pass'.decoded = FALSE
    BY <1>5 DEF BeginPass, NoPass, feed
  <2> QED
    BY <2>1, SameAttentive
<1>6. CASE EndPass
  <2>1. PICK outcome \in [Viewers -> Outcomes] :
           client' = [v \in Viewers |->
               IF v \in pass.doomed THEN Absent
               ELSE IF pass.sentJPEG THEN Flushed(client[v], outcome[v])
               ELSE client[v]]
    BY <1>6 DEF EndPass
  <2>2. UNCHANGED <<sequence, latest>> /\ pass'.decoded = FALSE
    BY <1>6 DEF EndPass, NoPass, feed
  <2>3. ASSUME NEW w \in Viewers, client'[w] # Absent
        PROVE  client[w] # Absent /\ Mild(client[w], client'[w])
    <3>1. client'[w] = Flushed(client[w], outcome[w]) \/ client'[w] = client[w]
      BY <2>1, <2>3
    <3>2. Mild(client[w], client[w])
      BY DEF Mild
    <3> QED
      BY <2>3, <3>1, <3>2, FlushMild
  <2> QED
    BY <2>2, <2>3, AllAttentive
<1>7. ASSUME NEW v \in Viewers, TwoSeconds(v) PROVE Attention'
  <2>1. /\ client[v] # Absent /\ client' = [client EXCEPT ![v] = [@ EXCEPT !.late = TRUE]]
        /\ UNCHANGED <<sequence, latest, decoded, pass>>
    BY <1>7 DEF TwoSeconds, feed, screen
  <2>2. client[v] \in ClientData /\ Attentive(v, client[v], sequence, latest)
    BY <2>1 DEF IInv, ViewersInv, Sound, Attention
  <2>3. Attentive(v, [client[v] EXCEPT !.late = TRUE], sequence, latest)
    BY <2>2, OthersMild, MildKeeps
  <2> QED
    BY <2>1, <2>3, OneAttentive DEF Attention
<1> QED
  BY <1>1, <1>2, <1>3, <1>4, <1>5, <1>6, <1>7 DEF Time

(* A pass: a viewer is served with its frame, or as before. *)
LEMMA PassAttentive ==
    ASSUME IInv, Present, Attention, NEW v \in Viewers,
           \/ Skip(v) \/ QueueJPEG(v) \/ RefuseJPEG(v)
           \/ DecodeLatestFrame(v) \/ DecodeFails(v)
           \/ SendFramebuffer(v) \/ SendFails(v)
    PROVE  Attention'
<1>1. /\ pc = "serve" /\ UNCHANGED <<sequence, latest>> /\ v \in pass.todo
  BY DEF Skip, QueueJPEG, RefuseJPEG, DecodeLatestFrame, DecodeFails, NeedsDecode,
     SendFramebuffer, SendFails, feed
<1>2. /\ client[v] # Absent /\ Sound(v, client[v], previous) /\ client[v] \in ClientData
      /\ Attentive(v, client[v], sequence, latest)
  BY <1>1 DEF Present, IInv, ViewersInv, Sound, Attention
<1>3. /\ pass.frame \in Frames /\ pass.sequence \in 0 .. sequence /\ sequence \in Nat
      /\ pass.sequence = sequence => pass.frame = latest
  BY <1>1 DEF IInv, Shared, PassInv, PassType, ScreenType
<1>4. ASSUME UNCHANGED decoded, pass'.decoded = pass.decoded,
             pass'.sequence = pass.sequence
      PROVE  pass'.decoded => decoded' = pass'.sequence
  BY <1>4 DEF Attention
<1>5. CASE Skip(v) \/ RefuseJPEG(v) \/ DecodeFails(v) \/ SendFails(v)
  <2>1. UNCHANGED <<client, decoded>>
    BY <1>5 DEF Skip, RefuseJPEG, DecodeFails, SendFails, screen
  <2>2. pass'.decoded = pass.decoded /\ pass'.sequence = pass.sequence
    BY <1>5, TypeOfPass DEF Skip, RefuseJPEG, DecodeFails, SendFails, Doom, IInv
  <2> QED
    BY <1>1, <1>4, <2>1, <2>2, SameAttentive
<1>6. CASE QueueJPEG(v)
  <2>1. /\ client' = [client EXCEPT ![v] = Queued(client[v])] /\ UNCHANGED decoded
    BY <1>6 DEF QueueJPEG, screen
  <2>2. pass'.decoded = pass.decoded /\ pass'.sequence = pass.sequence
    BY <1>6, TypeOfPass DEF QueueJPEG, IInv
  <2>3. Attentive(v, Queued(client[v]), sequence, latest)
    BY <1>2, <1>3, QueuedAttentive
  <2> QED
    BY <1>1, <1>4, <2>1, <2>2, <2>3, OneAttentive
<1>7. CASE DecodeLatestFrame(v)
  <2>1. pass'.decoded = TRUE /\ pass'.sequence = pass.sequence
    BY <1>7, TypeOfPass DEF DecodeLatestFrame, IInv
  <2>2. CASE Undecoded
    <3>1. decoded' = pass.sequence
      BY <1>7, <2>2 DEF DecodeLatestFrame
    <3>2. PICK dirty \in {Changed, Tiles} :
             client' = [w \in Viewers |->
                IF w \in Damaged THEN [client[w] EXCEPT !.modified = @ \cup dirty]
                                 ELSE client[w]]
      BY <1>7, <2>2 DEF DecodeLatestFrame
    <3>3. ASSUME NEW w \in Viewers, client'[w] # Absent
          PROVE  client[w] # Absent /\ Mild(client[w], client'[w])
      <4>1. w \in Damaged => client[w] # Absent
        BY DEF Damaged, Connected
      <4>2. client[w] # Absent
        BY <3>2, <3>3, <4>1
      <4>3. client[w] \in ClientData
        BY <4>2 DEF IInv, ViewersInv, Sound
      <4>4. Mild(client[w], client[w])
        BY DEF Mild
      <4>5. Mild(client[w], [client[w] EXCEPT !.modified = @ \cup dirty])
        BY <4>3, OthersMild
      <4> QED
        BY <3>2, <4>2, <4>4, <4>5
    <3> QED
      BY <1>1, <2>1, <3>1, <3>3, AllAttentive
  <2>3. CASE ~Undecoded
    <3>1. UNCHANGED <<client, decoded>> /\ decoded = pass.sequence
      BY <1>7, <2>3 DEF DecodeLatestFrame, Undecoded
    <3> QED
      BY <1>1, <2>1, <3>1, SameAttentive
  <2> QED
    BY <2>2, <2>3
<1>8. CASE SendFramebuffer(v)
  <2> DEFINE c == client[v]
             sent == Wanted(c) \cap Damage(c)
  <2>1. /\ pass.decoded /\ ~Skipped(c) /\ ~c.direct /\ UNCHANGED decoded
    BY <1>8 DEF SendFramebuffer, screen
  <2>2. ~Writing(c) /\ c.need_update
    BY <2>1 DEF Skipped, Busy
  <2>3. pass'.decoded = pass.decoded /\ pass'.sequence = pass.sequence
    BY <1>8, TypeOfPass DEF SendFramebuffer, IInv
  <2>4. CASE sent = {}
    <3>1. client' = [client EXCEPT ![v] = Unsent(c)]
      BY <1>8, <2>4 DEF SendFramebuffer
    <3>2. Attentive(v, Unsent(c), sequence, latest)
      BY <1>2, <2>2, UnsentAttentive
    <3> QED
      BY <1>1, <1>4, <2>1, <2>3, <3>1, <3>2, OneAttentive
  <2>5. CASE sent # {}
    <3>1. client' = [client EXCEPT ![v] = Sent(c, sent)]
      BY <1>8, <2>5 DEF SendFramebuffer
    <3>2. previous # NoFrame /\ framebuffer = previous /\ previous \in Images
      BY <1>1, <2>1 DEF IInv, Shared, CacheInv, ScreenType
    <3>3. pass.sequence = sequence /\ latest # NoFrame => previous = latest.image
      <4>1. decoded = pass.sequence
        BY <2>1 DEF Attention
      <4>2. latest # NoFrame => sequence > 0
        BY <1>3 DEF Attention
      <4>3. DecodedIsCurrent
        BY DEF IInv, Shared, CacheInv
      <4> QED
        BY <4>1, <4>2, <4>3 DEF DecodedIsCurrent
    <3>4. Attentive(v, Sent(c, sent), sequence, latest)
      BY <1>2, <1>3, <2>1, <2>2, <3>2, <3>3, SentAttentive
    <3> QED
      BY <1>1, <1>4, <2>1, <2>3, <3>1, <3>4, OneAttentive
  <2> QED
    BY <2>4, <2>5
<1> QED
  BY <1>5, <1>6, <1>7, <1>8

(* The viewers' requests are kept, from one state to every other. *)
LEMMA AlwaysAttentive == Spec => []Attention
<1>1. Init => Attention
  BY DEF Init, Attention, NoPass
<1>2. IInv /\ Present /\ Attention /\ [Next]_vars => Attention'
  <2> SUFFICES ASSUME IInv, Present, Attention, [Next]_vars PROVE Attention'
    OBVIOUS
  <2>1. CASE UNCHANGED vars
    BY <2>1 DEF vars, feed, screen, Attention
  <2> QED
    BY <2>1, MessageAttentive, SetFrameAttentive, LoopAttentive, PassAttentive
       DEF Next, Run, ProcessFrame
<1> QED
  BY <1>1, <1>2, Invariant, PTL DEF Spec

(* "Incremental requests stay pending" (README.md): whatever the pass did  *)
(* for others, and however many frames came meanwhile.                     *)
THEOREM RequestsKept == Spec => []NoRequestForgotten
<1>1. Attention => NoRequestForgotten
  <2> SUFFICES ASSUME Attention, NEW v \in Connected, Awaited(v), Outdated(v)
               PROVE  client[v].need_update
    BY DEF NoRequestForgotten
  <2>1. v \in Viewers /\ Heeded(v, client[v])
    BY DEF Attention, Attentive, Connected
  <2>2. Wanted(client[v]) # {}
    BY DEF Outdated
  <2>3. client[v].continuous_enabled \/ client[v].requested # {}
    BY <2>2 DEF Wanted
  <2> QED
    BY <2>1, <2>3 DEF Heeded, Awaited
<1> QED
  BY <1>1, AlwaysAttentive, PTL

(* Viewers that ask for the whole screen are not taken for up to date      *)
(* while they are not.                                                     *)
THEOREM AnswersDue ==
    ASSUME Regions \subseteq {Tiles}
    PROVE  Spec => []AnswerDue
<1>1. Attention => AnswerDue
  <2> SUFFICES ASSUME Attention, NEW v \in Connected, Awaited(v), Outdated(v),
                      ~Writing(client[v])
               PROVE  client[v].last_sequence # sequence
    BY DEF AnswerDue
  <2>1. Prompt(v, client[v], sequence, latest)
    BY DEF Attention, Attentive, Connected
  <2>2. client[v].view # latest.image /\ latest # NoFrame
    BY DEF Outdated
  <2> QED
    BY <2>1, <2>2 DEF Prompt, ToShow, Awaited
<1> QED
  BY <1>1, AlwaysAttentive, PTL
=============================================================================
