----------------------------- MODULE SharedRing -----------------------------
(***************************************************************************)
(* The shared-memory ring of protocol_ipc.cpp, by which OneKVM's core      *)
(* hands MJPEG frames to the media thread without copying them.            *)
(*                                                                         *)
(* The core (Claim, Write, Publish, Signal) is outside the repository: it  *)
(* is modelled from what TakeLatestFrame expects of it, a slot that is     *)
(* free or not yet taken, a sequence number, READY, then the flag and the  *)
(* eventfd.  Every access of TakeLatestFrame to the shared memory is an    *)
(* action of its own.  A frame that was taken is leased: latest_frame_,    *)
(* the pass of ProcessFrame that works on it and the pending JPEG output   *)
(* of the viewers share the lease, and the slot is free again when the     *)
(* last of them lets go of it.                                             *)
(***************************************************************************)
EXTENDS Integers, FiniteSets

CONSTANTS SlotCount,    (* slot_count                                       *)
          Viewers,      (* viewers that take JPEG                           *)
          Validity,     (* whether frames have a valid header: BOOLEANs     *)
          MaxFrames     (* bound on the frames that are published           *)

ASSUME RingAssumption ==
    /\ SlotCount \in Nat /\ SlotCount >= 2      \* ReceiveSharedRing
    /\ Validity \subseteq BOOLEAN
    /\ MaxFrames \in Nat

VARIABLES
    slots,        (* per slot: its state, sequence number and header        *)
    notified,     (* the flag beside the ring: a signal is on its way       *)
    event,        (* the eventfd can be read                                *)
    core, target, (* what the core does next, and to which slot             *)
    published,    (* sequence number of the newest frame in a slot          *)
    pc, index,    (* where the media thread is, and in which slot           *)
    selected, newest,     (* TakeLatestFrame's locals                       *)
    latest,       (* the slot latest_frame_ leases, or None                 *)
    frame,        (* the slot a pass of ProcessFrame leases, or None        *)
    pending,      (* per viewer: the slot pending_jpeg leases, or None      *)
    leased        (* history: the frame each lease was taken for            *)

ring     == <<slots, notified, event>>
producer == <<core, target, published>>
take     == <<pc, index, selected, newest>>
leases   == <<latest, frame, pending, leased>>
vars     == <<ring, producer, take, leases>>

Slots == 1 .. SlotCount
None  == 0

Leased(s) == latest = s \/ frame = s \/ \E v \in Viewers : pending[v] = s
Taken(s)  == pc \in {"discard", "check"} /\ selected = s   \* not yet delivered

Init ==
    /\ slots = [s \in Slots |-> [state |-> "free", sequence |-> 0, valid |-> TRUE]]
    /\ notified = FALSE /\ event = FALSE
    /\ core = "idle" /\ target = None /\ published = 0
    /\ pc = "poll" /\ index = 1 /\ selected = None /\ newest = 0
    /\ latest = None /\ frame = None /\ pending = [v \in Viewers |-> None]
    /\ leased = [s \in Slots |-> 0]

-----------------------------------------------------------------------------
(* The core. *)

Claim(s) ==
    /\ core = "idle" /\ published < MaxFrames
    /\ slots[s].state \in {"free", "ready"}
    /\ slots' = [slots EXCEPT ![s].state = "writing"]
    /\ core' = "write" /\ target' = s
    /\ UNCHANGED <<notified, event, published, take, leases>>

Write ==
    /\ core = "write"
    /\ \E valid \in Validity :
          slots' = [slots EXCEPT ![target] =
                       [@ EXCEPT !.sequence = published + 1, !.valid = valid]]
    /\ core' = "publish"
    /\ UNCHANGED <<notified, event, target, published, take, leases>>

Publish ==
    /\ core = "publish"
    /\ slots' = [slots EXCEPT ![target].state = "ready"]
    /\ published' = published + 1
    /\ core' = "signal" /\ target' = None
    /\ UNCHANGED <<notified, event, take, leases>>

(* Only the first signal since the flag was cleared needs the eventfd. *)
Signal ==
    /\ core = "signal"
    /\ notified' = TRUE
    /\ event' = (event \/ ~notified)
    /\ core' = "idle"
    /\ UNCHANGED <<slots, target, published, take, leases>>

-----------------------------------------------------------------------------
(* The media thread: MediaSubscription::Run and TakeLatestFrame. *)

Poll ==
    /\ pc = "poll" /\ event
    /\ event' = FALSE
    /\ pc' = "clear"
    /\ UNCHANGED <<slots, notified, producer, index, selected, newest, leases>>

KeepNotified  == UNCHANGED notified      \* faulty variant: never cleared
ClearNotified == notified' = FALSE

Clear ==
    /\ pc = "clear"
    /\ ClearNotified
    /\ pc' = "scan" /\ index' = 1 /\ selected' = None /\ newest' = 0
    /\ UNCHANGED <<slots, event, producer, leases>>

Returned == pc' = "poll" /\ index' = 1 /\ selected' = None /\ newest' = 0

(* The next slot of a loop, or what follows the loop. *)
Advance(loop, next) ==
    IF index < SlotCount THEN pc' = loop /\ index' = index + 1
                         ELSE pc' = next /\ index' = 1

MoreRecent(sequence) == selected = None \/ sequence > newest

(* One slot of the scan: its state, ... *)
Scan ==
    /\ pc = "scan"
    /\ IF slots[index].state = "ready"
       THEN pc' = "compare" /\ UNCHANGED index
       ELSE Advance("scan", "claim")
    /\ UNCHANGED <<ring, producer, selected, newest, leases>>

(* ... and its sequence number, which the core may be changing by then. *)
Compare ==
    /\ pc = "compare"
    /\ IF MoreRecent(slots[index].sequence)
       THEN selected' = index /\ newest' = slots[index].sequence
       ELSE UNCHANGED <<selected, newest>>
    /\ Advance("scan", "claim")
    /\ UNCHANGED <<ring, producer, leases>>

(* The compare-exchange from READY to READING, if there is a slot. *)
Select ==
    /\ pc = "claim"
    /\ IF selected # None /\ slots[selected].state = "ready"
       THEN /\ slots' = [slots EXCEPT ![selected].state = "reading"]
            /\ leased' = [leased EXCEPT ![selected] = slots[selected].sequence]
            /\ pc' = "discard" /\ index' = 1
            /\ UNCHANGED <<selected, newest>>
       ELSE Returned /\ UNCHANGED <<slots, leased>>
    /\ UNCHANGED <<notified, event, producer, latest, frame, pending>>

(* The other frames are superseded: READY to FREE, one slot after another. *)
KeptReady(s)   == FALSE                        \* faulty variants: older ones
FreedAnyway(s) == slots[s].state # "writing"   \* stay; no exchange
Superseded(s)  == slots[s].state = "ready"

Discard ==
    /\ pc = "discard"
    /\ IF index # selected /\ Superseded(index)
       THEN slots' = [slots EXCEPT ![index].state = "free"]
       ELSE UNCHANGED slots
    /\ Advance("discard", "check")
    /\ UNCHANGED <<notified, event, producer, selected, newest, leases>>

(* RingLease's destructor: the slot is free once nobody holds the lease.   *)
FreedWhenReplaced(s) == Leased(s) /\ latest' # s     \* faulty variants: too
NeverFreed(s)        == FALSE                        \* early, and never
Released(s)          == Leased(s) /\ ~Leased(s)'
LetGo ==
    slots' = [s \in Slots |-> IF Released(s) THEN [slots[s] EXCEPT !.state = "free"]
                                             ELSE slots[s]]

(* A frame whose header is invalid goes back at once. *)
Refuse ==
    /\ pc = "check" /\ ~slots[selected].valid
    /\ slots' = [slots EXCEPT ![selected].state = "free"]
    /\ Returned
    /\ UNCHANGED <<notified, event, producer, leases>>

(* SetFrame: the new frame replaces latest_frame_, which lets go of its.   *)
Deliver ==
    /\ pc = "check" /\ slots[selected].valid
    /\ latest' = selected
    /\ UNCHANGED <<notified, event, producer, frame, pending, leased>>
    /\ LetGo
    /\ Returned

-----------------------------------------------------------------------------
(* The foreground thread's leases. *)

(* ProcessFrame copies latest_frame_ and keeps the copy while it decodes   *)
(* and queues, also when SetFrame replaces the original.                   *)
BeginPass ==
    /\ frame = None /\ latest # None
    /\ frame' = latest
    /\ UNCHANGED <<ring, producer, take, latest, pending, leased>>

(* QueueJPEG: the viewer's output keeps the frame. *)
QueueJPEG(v) ==
    /\ frame # None /\ pending[v] = None
    /\ pending' = [pending EXCEPT ![v] = frame]
    /\ UNCHANGED <<ring, producer, take, latest, frame, leased>>

EndPass ==
    /\ frame # None
    /\ frame' = None
    /\ UNCHANGED <<notified, event, producer, take, latest, pending, leased>>
    /\ LetGo

(* FlushJPEGWrites, in a pass or between two: the output is complete, or   *)
(* given up after two seconds; or the viewer has gone.                     *)
FinishJPEG(v) ==
    /\ pending[v] # None
    /\ pending' = [pending EXCEPT ![v] = None]
    /\ UNCHANGED <<notified, event, producer, take, latest, frame, leased>>
    /\ LetGo

-----------------------------------------------------------------------------
CoreGoesOn == Write \/ Publish \/ Signal

MediaThread ==
    \/ Poll \/ Clear \/ Scan \/ Compare \/ Select \/ Discard \/ Refuse \/ Deliver

Next ==
    \/ \E s \in Slots : Claim(s)
    \/ CoreGoesOn \/ MediaThread \/ BeginPass \/ EndPass
    \/ \E v \in Viewers : QueueJPEG(v) \/ FinishJPEG(v)

Spec == Init /\ [][Next]_vars

(* The core finishes the frame it has begun, the media thread goes on and  *)
(* no output takes for ever; the core need not publish another frame.      *)
FairSpec ==
    /\ Spec /\ WF_vars(CoreGoesOn) /\ WF_vars(MediaThread)
    /\ WF_vars(EndPass) /\ \A v \in Viewers : WF_vars(FinishJPEG(v))

-----------------------------------------------------------------------------
(* Properties. *)

(* The type invariant: the loops over the slots stay inside the mapping.   *)
TypeOK ==
    /\ slots \in [Slots -> [state : {"free", "writing", "ready", "reading"},
                            sequence : 0 .. MaxFrames, valid : BOOLEAN]]
    /\ notified \in BOOLEAN /\ event \in BOOLEAN
    /\ core \in {"idle", "write", "publish", "signal"}
    /\ target \in Slots \cup {None} /\ published \in 0 .. MaxFrames
    /\ pc \in {"poll", "clear", "scan", "compare", "claim", "discard", "check"}
    /\ index \in Slots /\ selected \in Slots \cup {None}
    /\ newest \in 0 .. MaxFrames
    /\ latest \in Slots \cup {None} /\ frame \in Slots \cup {None}
    /\ pending \in [Viewers -> Slots \cup {None}]
    /\ leased \in [Slots -> 0 .. MaxFrames]

(* A frame that somebody holds stays where it is, unchanged: neither the   *)
(* core nor a later TakeLatestFrame may touch a slot that is leased.       *)
LeaseIntact ==
    \A s \in Slots :
        Leased(s) \/ Taken(s) =>
            slots[s].state = "reading" /\ slots[s].sequence = leased[s]

(* No slot is lost to the ring: one that is being read has a holder, who   *)
(* will give it back.                                                      *)
NoSlotLost ==
    \A s \in Slots :
        slots[s].state = "reading" => Leased(s) \/ Taken(s)

(* The ring is as good as copying: seen from latest_frame_, a pass or a    *)
(* viewer's output, which read the frames where the core wrote them, it is *)
(* a mailbox that hands over frames as values, never an older one after a  *)
(* newer one (TakeLatestFrame, RingLease, SetFrame, ProcessFrame).         *)
Waiting == {s \in Slots : slots[s].state = "ready" \/ Taken(s)}
Seen(s) == IF s = None THEN 0 ELSE slots[s].sequence

Mailbox == INSTANCE FrameMailbox WITH
    offered <- {slots[s].sequence : s \in Waiting},
    latest  <- Seen(latest),
    frame   <- Seen(frame),
    pending <- [v \in Viewers |-> Seen(pending[v])]

ImplementsMailbox == Mailbox!Spec

(* No frame stays in the ring unseen: the flag is cleared before the scan, *)
(* so a frame that the scan missed signals again.                          *)
FramesAreTaken ==
    (\E s \in Slots : slots[s].state = "ready") ~>
        (\A s \in Slots : slots[s].state # "ready")

(* The newest frame reaches latest_frame_, also when the core has none to  *)
(* publish after it.                                                       *)
NewestArrives ==
    \A n \in 1 .. MaxFrames :
        published = n ~> (published > n \/ (latest # None /\ leased[latest] = n))
=============================================================================
