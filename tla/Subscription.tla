---------------------------- MODULE Subscription ----------------------------
(***************************************************************************)
(* protocol_ipc.cpp: the connections to the core that the video, the audio *)
(* and the capability subscription keep, each with a thread of its own     *)
(* (Run), and how the foreground thread ends one (Stop).                   *)
(*                                                                         *)
(* A descriptor is a number that the process reuses, the lowest free one   *)
(* first, so the threads share the table "file" without knowing it.  What  *)
(* is received is left out (SharedRing, AudioDelivery and FrameDelivery    *)
(* have it): here the core answers, is silent, or ends a connection.       *)
(***************************************************************************)
EXTENDS Integers, FiniteSets

CONSTANTS Subs,         (* the subscriptions there are                       *)
          Fds,          (* descriptor numbers                                *)
          MaxFaults,    (* bound on what the core does wrong                 *)
          NoFile        (* what a free descriptor refers to                  *)

ASSUME SubscriptionAssumption ==
    /\ Subs \subseteq {"media", "audio", "capability"} /\ "capability" \in Subs
    /\ Fds \subseteq Nat /\ IsFiniteSet(Fds) /\ Cardinality(Fds) >= Cardinality(Subs)
    /\ NoFile \notin [owner : Subs, shut : BOOLEAN, gone : BOOLEAN]
    /\ MaxFaults \in Nat

None == -1

VARIABLES
    thread,       (* per subscription: where its thread is, and its locals   *)
    stopping, socket_fd,        (* the atomics shared with the foreground    *)
    file,         (* per descriptor: whose connection it is and its state    *)
    foreground,   (* where the foreground thread is in Stop                  *)
    core,         (* what the core supports                                  *)
    faults,       (* what went wrong so far                                  *)
    failed        (* history: whose doing it was that failed_ was called     *)

vars == <<thread, stopping, socket_fd, file, foreground, core, faults, failed>>

Steps == {"none", "top", "store", "recheck", "request", "handshake", "check",
          "reading", "release", "close", "report", "done"}

(* "again": Run goes round its loop after closing; "ring" and "events" are *)
(* shared_ring_supported and events_supported_; "cause" ended a connection.*)
Idle == [at |-> "none", fd |-> None, again |-> TRUE, ring |-> TRUE,
         events |-> FALSE, cause |-> "none"]

Started(s) == [Idle EXCEPT !.at = "top", !.events = s = "capability" /\ core.events]

(* main starts the capability subscription before it runs the server.      *)
Init ==
    /\ core \in [ring : BOOLEAN, events : BOOLEAN]
    /\ thread = [s \in Subs |-> IF s = "capability" THEN Started(s) ELSE Idle]
    /\ stopping = [s \in Subs |-> FALSE] /\ socket_fd = [s \in Subs |-> None]
    /\ file = [f \in Fds |-> NoFile]
    /\ foreground = [at |-> "run", sub |-> "capability", fd |-> None]
    /\ faults = 0 /\ failed = {}

Goes(s, at)   == thread' = [thread EXCEPT ![s].at = at]
Own(s)        == file[thread[s].fd]
Ended(s)      == Own(s).shut \/ Own(s).gone
AtFault(s)    == IF Own(s).gone THEN "core" ELSE "process"
EndsFor(s, c) == thread' = [thread EXCEPT ![s].at = "release", ![s].cause = c,
                                          ![s].again = s # "capability"]
Fault         == faults < MaxFaults /\ faults' = faults + 1

-----------------------------------------------------------------------------
(* Run, one step of a thread at a time. *)

Free == {f \in Fds : file[f] = NoFile}

(* The loop's condition and ConnectUnix.  A connection that cannot be made *)
(* is tried again later, or reported.                                      *)
Connect(s) ==
    /\ thread[s].at = "top" /\ ~stopping[s]
    /\ \E f \in Free :
          /\ \A g \in Free : f <= g
          /\ file' = [file EXCEPT ![f] = [owner |-> s, shut |-> FALSE, gone |-> FALSE]]
          /\ thread' = [thread EXCEPT ![s].at = "store", ![s].fd = f,
                                      ![s].again = TRUE]
    /\ UNCHANGED <<stopping, socket_fd, foreground, core, faults, failed>>

Refused(s) ==
    /\ thread[s].at = "top" /\ ~stopping[s] /\ Fault
    /\ thread' = IF s # "capability" THEN thread
                 ELSE [thread EXCEPT ![s].at = "report", ![s].cause = "core"]
    /\ UNCHANGED <<stopping, socket_fd, file, foreground, core, failed>>

Return(s) ==
    /\ thread[s].at = "top" /\ stopping[s] /\ Goes(s, "done")
    /\ UNCHANGED <<stopping, socket_fd, file, foreground, core, faults, failed>>

Store(s) ==
    /\ thread[s].at = "store"
    /\ socket_fd' = [socket_fd EXCEPT ![s] = thread[s].fd]
    /\ Goes(s, IF s = "capability" THEN "recheck" ELSE "request")
    /\ UNCHANGED <<stopping, file, foreground, core, faults, failed>>

(* The capability thread looks once more before it sends anything. *)
Recheck(s) ==
    /\ thread[s].at = "recheck"
    /\ IF stopping[s] THEN EndsFor(s, "none") ELSE Goes(s, "request")
    /\ UNCHANGED <<stopping, socket_fd, file, foreground, core, faults, failed>>

(* WriteAll; the shared ring is asked for as long as it may be supported.  *)
Request(s) ==
    /\ thread[s].at = "request"
    /\ IF Ended(s) THEN EndsFor(s, AtFault(s))
       ELSE Goes(s, IF s = "media" /\ thread[s].ring THEN "handshake" ELSE "check")
    /\ UNCHANGED <<stopping, socket_fd, file, foreground, core, faults, failed>>

(* ReceiveSharedRing waits for the answer.  Without a ring the thread      *)
(* connects once more and asks for framed messages.                        *)
StillRing(r) == r                        \* faulty variant: asks again
Legacy(r)    == FALSE

NoRing(s) == thread' = [thread EXCEPT ![s].at = "release",
                                      ![s].ring = Legacy(@)]

Handshake(s) ==
    /\ thread[s].at = "handshake"
    /\ \/ ~Ended(s) /\ core.ring /\ Goes(s, "check") /\ UNCHANGED faults
       \/ (Ended(s) \/ ~core.ring) /\ NoRing(s) /\ UNCHANGED faults
       \/ ~Ended(s) /\ core.ring /\ Fault /\ NoRing(s)
    /\ UNCHANGED <<stopping, socket_fd, file, foreground, core, failed>>

Check(s) ==
    /\ thread[s].at = "check"
    /\ IF stopping[s] THEN EndsFor(s, "none") ELSE Goes(s, "reading")
    /\ UNCHANGED <<stopping, socket_fd, file, foreground, core, faults, failed>>

(* Blocked in poll or recv: the connection ended, ... *)
ReadsEnd(s) ==
    /\ thread[s].at = "reading" /\ Ended(s)
    /\ EndsFor(s, AtFault(s))
    /\ UNCHANGED <<stopping, socket_fd, file, foreground, core, faults, failed>>

(* ... or the core sent something.  A core that has no events sends one    *)
(* message a connection, and that message says whether it has them now.    *)
Reads(s) ==
    /\ thread[s].at = "reading" /\ ~Ended(s)
    /\ thread' = IF s = "capability" /\ ~thread[s].events
                 THEN [thread EXCEPT ![s].at = "release", ![s].events = core.events]
                 ELSE [thread EXCEPT ![s].at = "check"]
    /\ UNCHANGED <<stopping, socket_fd, file, foreground, core, faults, failed>>

(* Nothing for five seconds, or something that is not as agreed: the video *)
(* thread's owner is told (fatal_callback_), and the thread stops itself.  *)
ReadsWrong(s) ==
    /\ thread[s].at = "reading" /\ ~Ended(s) /\ Fault
    /\ EndsFor(s, "core")
    /\ stopping' \in {stopping} \cup
          IF s = "media" /\ ~thread[s].ring
          THEN {[stopping EXCEPT ![s] = TRUE]} ELSE {}
    /\ UNCHANGED <<socket_fd, file, foreground, core, failed>>

(* CloseOwnedSocket. *)
KeepPublished(fd) == fd                  \* faulty variant: only closes
Withdrawn(fd)     == None

Release(s) ==
    /\ thread[s].at = "release" /\ socket_fd[s] = thread[s].fd
    /\ socket_fd' = [socket_fd EXCEPT ![s] = Withdrawn(@)]
    /\ Goes(s, "close")
    /\ UNCHANGED <<stopping, file, foreground, core, faults, failed>>

LeaveOpen(entry) == entry                \* faulty variant: not closed
Closed(entry)    == NoFile

Close(s) ==
    /\ thread[s].at = "close"
    /\ file' = [file EXCEPT ![thread[s].fd] = Closed(@)]
    /\ thread' = [thread EXCEPT ![s].fd = None,
                    ![s].at = IF thread[s].again THEN "top" ELSE "report"]
    /\ UNCHANGED <<stopping, socket_fd, foreground, core, faults, failed>>

(* failed_, which ends the service, unless Stop was called. *)
Report(s) ==
    /\ thread[s].at = "report" /\ Goes(s, "done")
    /\ failed' = IF stopping[s] THEN failed ELSE failed \cup {thread[s].cause}
    /\ UNCHANGED <<stopping, socket_fd, file, foreground, core, faults>>

(* The core ends a connection. *)
HangUp(f) ==
    /\ file[f] # NoFile /\ ~file[f].gone /\ Fault
    /\ file' = [file EXCEPT ![f].gone = TRUE]
    /\ UNCHANGED <<thread, stopping, socket_fd, foreground, core, failed>>

-----------------------------------------------------------------------------
(* The foreground thread.  SyncSubscription and SyncAudioSubscription      *)
(* start and stop video and audio; main stops the capability subscription  *)
(* once, when the server has run.                                          *)
Start(s) ==
    /\ foreground.at = "run" /\ s # "capability"
    /\ thread[s].at = "none" /\ thread["capability"].at # "none"
    /\ stopping' = [stopping EXCEPT ![s] = FALSE]
    /\ thread' = [thread EXCEPT ![s] = Started(s)]
    /\ UNCHANGED <<socket_fd, file, foreground, core, faults, failed>>

Stop(s) ==
    /\ foreground.at = "run" /\ thread[s].at # "none"
    /\ stopping' = [stopping EXCEPT ![s] = TRUE]
    /\ foreground' = [at |-> "load", sub |-> s, fd |-> None]
    /\ UNCHANGED <<thread, socket_fd, file, core, faults, failed>>

StopLoads ==
    /\ foreground.at = "load"
    /\ foreground' = [foreground EXCEPT !.fd = socket_fd[foreground.sub],
                                        !.at = "shutdown"]
    /\ UNCHANGED <<thread, stopping, socket_fd, file, core, faults, failed>>

(* shutdown acts on whatever the number refers to by now. *)
Unheard(entry) == entry                  \* faulty variant: no shutdown
Shut(entry)    == IF entry = NoFile THEN NoFile ELSE [entry EXCEPT !.shut = TRUE]

StopShuts ==
    /\ foreground.at = "shutdown"
    /\ file' = IF foreground.fd = None THEN file
               ELSE [file EXCEPT ![foreground.fd] = Shut(@)]
    /\ foreground' = [foreground EXCEPT !.at = "join"]
    /\ UNCHANGED <<thread, stopping, socket_fd, core, faults, failed>>

StopJoins ==
    /\ foreground.at = "join" /\ thread[foreground.sub].at = "done"
    /\ thread' = [thread EXCEPT ![foreground.sub] = Idle]
    /\ foreground' = [at |-> "run", sub |-> "capability", fd |-> None]
    /\ UNCHANGED <<stopping, socket_fd, file, core, faults, failed>>

-----------------------------------------------------------------------------
Runs(s) == \/ Connect(s) \/ Return(s) \/ Store(s) \/ Recheck(s) \/ Request(s)
           \/ Handshake(s) \/ Check(s) \/ ReadsEnd(s) \/ Release(s) \/ Close(s)
           \/ Report(s)

Stops == StopLoads \/ StopShuts \/ StopJoins

Next == \/ \E s \in Subs : \/ Runs(s) \/ Refused(s) \/ Reads(s) \/ ReadsWrong(s)
                           \/ Start(s) \/ Stop(s)
        \/ Stops
        \/ \E f \in Fds : HangUp(f)

Spec == Init /\ [][Next]_vars

(* The scheduler runs every thread.  The core accepts connections and      *)
(* answers a request for the ring, one way or the other; it need not send  *)
(* anything afterwards, and nobody has to start or stop a subscription.    *)
FairSpec ==
    Spec /\ WF_vars(Stops) /\ \A s \in Subs : WF_vars(Runs(s))

-----------------------------------------------------------------------------
(* Type invariant. *)
TypeOK ==
    /\ thread \in [Subs -> [at : Steps, fd : Fds \cup {None}, again : BOOLEAN,
                            ring : BOOLEAN, events : BOOLEAN,
                            cause : {"none", "core", "process"}]]
    /\ stopping \in [Subs -> BOOLEAN] /\ socket_fd \in [Subs -> Fds \cup {None}]
    /\ file \in [Fds -> [owner : Subs, shut : BOOLEAN, gone : BOOLEAN] \cup {NoFile}]
    /\ foreground \in [at : {"run", "load", "shutdown", "join"}, sub : Subs,
                       fd : Fds \cup {None}]
    /\ core \in [ring : BOOLEAN, events : BOOLEAN]
    /\ faults \in 0..MaxFaults /\ failed \subseteq {"none", "core", "process"}

(* A number that Stop can see refers to the subscription's own connection  *)
(* (CloseOwnedSocket withdraws it before it is closed), and a thread never *)
(* reads, writes or closes another's.                                      *)
PublishedIsOpen ==
    /\ \A s \in Subs : thread[s].fd # None =>
          file[thread[s].fd] # NoFile /\ Own(s).owner = s
    /\ \A s \in Subs : socket_fd[s] # None =>
          file[socket_fd[s]] # NoFile /\ file[socket_fd[s]].owner = s

(* tests/capability_subscription_test.cpp:103, of all three: once Stop has *)
(* returned no connection is left, and while a thread runs it has only the *)
(* one it uses.                                                            *)
NothingRetained ==
    \A f \in Fds : file[f] # NoFile => thread[file[f].owner].fd = f

(* Stop returns: wherever the thread is when stopping_ is set, it ends.    *)
StopReturns == foreground.at # "run" ~> foreground.at = "run"

(* A subscription that is not stopped comes to read from the core, with or *)
(* without the ring, and does so again after its connection has ended.     *)
Resubscribed ==
    \A s \in Subs \ {"capability"} :
        thread[s].at = "top" ~> (stopping[s] \/ thread[s].at = "reading")

(* README.md:71, "one persistent authenticated IPC connection": only the   *)
(* core ends the capability subscription, never the process itself.        *)
CapabilityPersists == "process" \notin failed
=============================================================================
