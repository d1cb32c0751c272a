---------------------------- MODULE FrameMailbox ----------------------------
(***************************************************************************)
(* What the shared ring promises the viewers, without slots, leases or     *)
(* memory that two processes use: a mailbox for frames, which are handed   *)
(* over as values.  A frame that was offered may be withdrawn; the one     *)
(* that arrives is older than all that are still offered, so what arrives  *)
(* after it is newer; and who has taken a frame keeps it, unchanged, for   *)
(* as long as it likes.                                                    *)
(***************************************************************************)
EXTENDS Integers

CONSTANTS Viewers,     (* viewers that take JPEG                            *)
          MaxFrames    (* bound on the frames that are published            *)

VARIABLES published,   (* how many frames there were; they are numbers      *)
          offered,     (* frames published, not yet arrived nor withdrawn   *)
          latest,      (* the frame that arrived last, or 0                 *)
          frame,       (* the frame that a pass works on, or 0              *)
          pending      (* per viewer: the frame it is being sent, or 0      *)

vars == <<published, offered, latest, frame, pending>>

Init == /\ published = 0 /\ offered = {}
        /\ latest = 0 /\ frame = 0 /\ pending = [v \in Viewers |-> 0]

Publish == /\ published < MaxFrames
           /\ published' = published + 1
           /\ offered' = offered \cup {published + 1}
           /\ UNCHANGED <<latest, frame, pending>>

(* Overwritten, superseded, or refused for its header. *)
Withdraw == /\ offered' \in SUBSET offered
            /\ UNCHANGED <<published, latest, frame, pending>>

Arrive(n) == /\ n \in offered /\ n > latest
             /\ \A m \in offered : n <= m
             /\ latest' = n
             /\ offered' = offered \ {n}
             /\ UNCHANGED <<published, frame, pending>>

BeginPass == /\ frame = 0 /\ latest # 0
             /\ frame' = latest
             /\ UNCHANGED <<published, offered, latest, pending>>

QueueJPEG(v) == /\ frame # 0 /\ pending[v] = 0
                /\ pending' = [pending EXCEPT ![v] = frame]
                /\ UNCHANGED <<published, offered, latest, frame>>

EndPass == /\ frame # 0
           /\ frame' = 0
           /\ UNCHANGED <<published, offered, latest, pending>>

FinishJPEG(v) == /\ pending[v] # 0
                 /\ pending' = [pending EXCEPT ![v] = 0]
                 /\ UNCHANGED <<published, offered, latest, frame>>

Next == \/ Publish \/ Withdraw \/ BeginPass \/ EndPass
        \/ \E n \in offered : Arrive(n)
        \/ \E v \in Viewers : QueueJPEG(v) \/ FinishJPEG(v)

Spec == Init /\ [][Next]_vars
=============================================================================
