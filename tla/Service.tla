------------------------------ MODULE Service ------------------------------
(***************************************************************************)
(* main.cpp and what it starts: the process from the first connection to   *)
(* its exit, the thread that watches the core's capabilities, and the      *)
(* sessions it reports to the core.                                        *)
(*                                                                         *)
(* A process that is activated is given the listening socket, which stays  *)
(* with the service manager when it ends; the manager starts it again for  *)
(* a connection in the backlog, or with another service ("a dependency     *)
(* restart", socket_activation.hpp:69).  Otherwise the process listens     *)
(* itself.  The manager and the core are outside the repository.           *)
(***************************************************************************)
EXTENDS Integers, Sequences

CONSTANTS Viewers,
          MaxChanges,   (* bound on changes of the audio setting            *)
          MaxRestarts,  (* bound on restarts of the core                    *)
          MaxFaults     (* bound on faults, and on signals to end           *)

ASSUME ServiceAssumption ==
    MaxChanges \in Nat /\ MaxRestarts \in Nat /\ MaxFaults \in Nat

VARIABLES
    activated,    (* the process takes its listener from the manager         *)
    pc,           (* where main is; "none": there is no process              *)
    viewer,       (* per viewer: away, in the backlog, or a client           *)
    reporter,     (* clients with a session_reporter                         *)
    info,         (* audio_available as QueryVideoInfo returned it           *)
    quiet,        (* thirty seconds have passed since last_active_           *)
    flags,        (* exit_flag, fatal_, audio_capability_changed and         *)
                  (* capability_subscription_failed                          *)
    ran,          (* what VNCServer::Run returned                            *)
    monitor,      (* where the capability thread is, and events_supported_   *)
    link, news,   (* its connection, and what is unread on it                *)
    core,         (* whether the core runs, has audio, and sends events      *)
    known,        (* the sessions it knows of                                *)
    changes, restarts, faults

main    == <<pc, info, quiet, ran>>
clients == <<viewer, reporter>>
watch   == <<monitor, link, news>>
bounds  == <<changes, restarts, faults>>
vars    == <<activated, main, clients, flags, watch, core, known, bounds>>

Clients == {v \in Viewers : viewer[v] = "client"}
Queued  == {v \in Viewers : viewer[v] = "queued"}
Serving == pc \in {"loop", "poll", "rest", "stop"}
Fault   == faults < MaxFaults /\ faults' = faults + 1

NoMonitor == [at |-> "none", events |-> FALSE]

Init ==
    /\ activated \in BOOLEAN
    /\ pc = "none" /\ info = FALSE /\ quiet = FALSE /\ ran = TRUE /\ flags = {}
    /\ monitor = NoMonitor /\ link = "none" /\ news = <<>>
    /\ viewer = [v \in Viewers |-> "away"] /\ reporter = {}
    /\ core \in [up : {TRUE}, audio : BOOLEAN, events : BOOLEAN] /\ known = {}
    /\ changes = 0 /\ restarts = 0 /\ faults = 0

-----------------------------------------------------------------------------
(* Run of main.cpp. *)

(* The manager starts the process: for a connection, or for no reason the  *)
(* process knows of.                                                       *)
Begin ==
    /\ pc = "none"
    /\ pc' = "start"
    /\ UNCHANGED <<activated, info, quiet, ran, clients, flags, watch, core,
                   known, bounds>>

(* The process ends, and its sockets with it; without activation that is   *)
(* the listener too.                                                       *)
Exit ==
    /\ pc' = "none" /\ info' = FALSE /\ quiet' = FALSE /\ ran' = TRUE /\ flags' = {}
    /\ monitor' = NoMonitor /\ link' = "none" /\ news' = <<>>
    /\ reporter' = {} /\ known' = {}
    /\ viewer' = [v \in Viewers |->
          IF viewer[v] = "client" \/ ~activated THEN "away" ELSE viewer[v]]
    /\ UNCHANGED <<activated, core, changes, restarts>>

(* TakeListener and CheckPendingConnection. *)
Never   == FALSE                         \* faulty variant: polls for output
Pending == Queued # {}

Activate ==
    /\ pc = "start"
    /\ IF activated /\ ~Pending THEN Exit
       ELSE /\ pc' = "query"
            /\ UNCHANGED <<activated, info, quiet, ran, clients, flags, watch,
                           core, known, changes, restarts>>
    /\ UNCHANGED faults

(* LoadIdentity and QueryVideoInfo. *)
Query ==
    /\ pc = "query" /\ core.up
    /\ info' = core.audio
    /\ monitor' = [monitor EXCEPT !.events = core.events]
    /\ pc' = "construct"
    /\ UNCHANGED <<activated, quiet, ran, clients, flags, link, news, core,
                   known, bounds>>

QueryFails == pc = "query" /\ ~core.up /\ Exit /\ UNCHANGED faults

(* VNCServer's constructor, and Start of the capability subscription.      *)
Construct ==
    /\ pc = "construct"
    /\ quiet' = FALSE
    /\ monitor' = [monitor EXCEPT !.at = "connect"]
    /\ pc' = "loop"
    /\ UNCHANGED <<activated, info, ran, clients, flags, link, news, core,
                   known, bounds>>

(* Anything before the loop that fails ends the process. *)
StartFails == pc \in {"start", "query", "construct"} /\ Fault /\ Exit

(* A signal, which the process only handles from here on. *)
Signal ==
    /\ pc # "none" /\ Fault
    /\ IF pc \in {"start", "query"} THEN Exit
       ELSE /\ flags' = flags \cup {"exit"}
            /\ UNCHANGED <<activated, main, clients, watch, core, known,
                           changes, restarts>>

-----------------------------------------------------------------------------
(* VNCServer::Run. *)

Check ==
    /\ pc = "loop"
    /\ pc' = IF flags \cap {"exit", "fatal"} = {} THEN "poll" ELSE "stop"
    /\ ran' = ("fatal" \notin flags)
    /\ UNCHANGED <<activated, info, quiet, clients, flags, watch, core, known, bounds>>

EndSession(v) == reporter' = reporter \ {v} /\ known' = known \ {v}

(* PollClientEvents: connections, departures and update requests. *)
NewClient(v) ==
    /\ pc = "poll" /\ viewer[v] = "queued"
    /\ viewer' = [viewer EXCEPT ![v] = "client"]
    /\ UNCHANGED <<activated, main, reporter, flags, watch, core, known, bounds>>

ClientGone(v) ==
    /\ pc = "poll" /\ viewer[v] = "client"
    /\ viewer' = [viewer EXCEPT ![v] = "away"]
    /\ EndSession(v)
    /\ UNCHANGED <<activated, main, flags, watch, core, bounds>>

(* FramebufferUpdateRequested: a session that was reported stays reported, *)
(* as far as the process knows.                                            *)
FramebufferUpdateRequested(v) ==
    /\ pc = "poll" /\ viewer[v] = "client" /\ v \notin reporter /\ core.up
    /\ reporter' = reporter \cup {v} /\ known' = known \cup {v}
    /\ UNCHANGED <<activated, main, viewer, flags, watch, core, bounds>>

EndPoll ==
    /\ pc = "poll"
    /\ pc' = "rest"
    /\ UNCHANGED <<activated, info, quiet, ran, clients, flags, watch, core,
                   known, bounds>>

(* SetFatal, by the media subscription: it runs while there are clients.   *)
SetFatal ==
    /\ Serving /\ Clients # {} /\ Fault
    /\ flags' = flags \cup {"fatal"}
    /\ UNCHANGED <<activated, main, clients, watch, core, known, changes, restarts>>

(* ProcessAudio and ProcessFrame may fail. *)
Fails ==
    /\ pc = "rest" /\ Fault
    /\ ran' = FALSE /\ pc' = "stop"
    /\ UNCHANGED <<activated, info, quiet, clients, flags, watch, core, known,
                   changes, restarts>>

(* Expired of IdleTimeout, which is only asked of an activated process.    *)
ExpiredAnyway(active) == quiet           \* faulty variant: ignores clients
JustReset(active)     == FALSE           \* faulty variant: resets, then compares
Expired(active)       == ~active /\ quiet

Rest ==
    /\ pc = "rest"
    /\ pc' = IF activated /\ Expired(Clients # {}) THEN "stop" ELSE "loop"
    /\ quiet' = (quiet /\ ~(activated /\ Clients # {}))
    /\ UNCHANGED <<activated, info, ran, clients, flags, watch, core, known, bounds>>

ThirtySeconds ==
    /\ pc \in {"loop", "poll", "rest"} /\ ~quiet
    /\ quiet' = TRUE
    /\ UNCHANGED <<activated, pc, info, ran, clients, flags, watch, core,
                   known, bounds>>

(* Stop has joined the thread; ~VNCServer. *)
Return == pc = "stop" /\ monitor.at = "done" /\ Exit /\ UNCHANGED faults

-----------------------------------------------------------------------------
(* CapabilitySubscription::Run. *)

Stopping == pc = "stop"

StaysAsleep == FALSE                     \* faulty variant: nothing wakes it
Woken       == Stopping

ToMain(flag) == flags' = flags \cup {flag, "exit"}      \* kill(getpid(), SIGTERM)

Offer == [audio |-> core.audio, events |-> core.events]

(* The core sends its state; one that was replaced by an older one after   *)
(* QueryVideoInfo does not know the request and ends the connection.       *)
Connect ==
    /\ monitor.at = "connect" /\ ~Stopping /\ core.up
    /\ monitor' = [monitor EXCEPT !.at = "read"]
    /\ IF monitor.events => core.events THEN link' = "open" /\ news' = <<Offer>>
                                        ELSE link' = "broken" /\ news' = <<>>
    /\ UNCHANGED <<activated, main, clients, flags, core, known, bounds>>

ConnectFails ==
    /\ monitor.at = "connect" /\ ~Stopping /\ ~core.up
    /\ ToMain("failed")
    /\ monitor' = [monitor EXCEPT !.at = "done"]
    /\ UNCHANGED <<activated, main, clients, link, news, core, known, bounds>>

(* The callback, and without events the end of the connection. *)
GoesOn == "done"                         \* faulty variant: probes once
Again  == "wait"

Read ==
    /\ monitor.at = "read" /\ ~Stopping /\ news # <<>>
    /\ LET m == Head(news)
       IN /\ IF m.audio # info THEN ToMain("changed") ELSE UNCHANGED flags
          /\ IF monitor.events
             THEN news' = Tail(news) /\ UNCHANGED <<monitor, link>>
             ELSE /\ monitor' = [at |-> Again, events |-> m.events]
                  /\ link' = "none" /\ news' = <<>>
    /\ UNCHANGED <<activated, main, clients, core, known, bounds>>

Reconnects == UNCHANGED flags            \* faulty variant: not reported
Report     == ToMain("failed")

GivesUp ==
    /\ monitor.at = "read" /\ ~Stopping
    /\ Report
    /\ monitor' = [monitor EXCEPT !.at = "done"]
    /\ link' = "none" /\ news' = <<>>
    /\ UNCHANGED <<activated, main, clients, core, known, changes, restarts>>

(* The connection ended; the core sent nothing for five seconds, or what   *)
(* is not valid.                                                           *)
ReadFails  == link = "broken" /\ news = <<>> /\ GivesUp /\ UNCHANGED faults
ReadsWrong == Fault /\ GivesUp

(* A second has passed. *)
Probe ==
    /\ monitor.at = "wait" /\ ~Stopping
    /\ monitor' = [monitor EXCEPT !.at = "connect"]
    /\ UNCHANGED <<activated, main, clients, flags, link, news, core, known, bounds>>

(* Stop wakes it wherever it is; a message that has come may be handled.   *)
Finish ==
    /\ monitor.at \in {"connect", "read", "wait"} /\ Woken
    /\ \/ UNCHANGED flags
       \/ news # <<>> /\ Head(news).audio # info /\ ToMain("changed")
    /\ monitor' = [monitor EXCEPT !.at = "done"]
    /\ link' = "none" /\ news' = <<>>
    /\ UNCHANGED <<activated, main, clients, core, known, bounds>>

-----------------------------------------------------------------------------
(* Outside: viewers, and the core. *)

Arrive(v) ==
    /\ viewer[v] = "away" /\ (activated \/ Serving)
    /\ viewer' = [viewer EXCEPT ![v] = "queued"]
    /\ UNCHANGED <<activated, main, reporter, flags, watch, core, known, bounds>>

AudioChanges ==
    /\ changes < MaxChanges /\ changes' = changes + 1
    /\ core' = [core EXCEPT !.audio = ~@]
    /\ news' = IF link = "open" /\ monitor.events
               THEN Append(news, [audio |-> ~core.audio, events |-> core.events])
               ELSE news
    /\ UNCHANGED <<activated, main, clients, flags, monitor, link, known,
                   restarts, faults>>

CoreStops ==
    /\ core.up /\ restarts < MaxRestarts /\ restarts' = restarts + 1
    /\ core' = [core EXCEPT !.up = FALSE] /\ known' = {}
    /\ link' = IF link = "open" THEN "broken" ELSE link
    /\ UNCHANGED <<activated, main, clients, flags, monitor, news, changes, faults>>

(* It may have been updated, or an older one installed. *)
CoreStarts ==
    /\ ~core.up
    /\ \E events \in BOOLEAN :
          core' = [core EXCEPT !.up = TRUE, !.events = events]
    /\ UNCHANGED <<activated, main, clients, flags, watch, known, bounds>>

-----------------------------------------------------------------------------
Main == \/ Activate \/ Query \/ QueryFails \/ Construct \/ Check \/ EndPoll
        \/ Rest \/ Return

Monitor == Connect \/ ConnectFails \/ Read \/ ReadFails \/ Probe \/ Finish

Client(v) == NewClient(v) \/ ClientGone(v) \/ FramebufferUpdateRequested(v)

Outside == \/ Begin \/ Signal \/ StartFails \/ SetFatal \/ Fails \/ ReadsWrong
           \/ ThirtySeconds \/ AudioChanges \/ CoreStops \/ CoreStarts \/ \E v \in Viewers : Arrive(v)

Next == Main \/ Monitor \/ Outside \/ \E v \in Viewers : Client(v)

Spec == Init /\ [][Next]_vars

(* main and the thread go on, time passes, and a core that has stopped is  *)
(* started.  The manager starts the process for a connection that waits    *)
(* (socket activation), and every pass of the loop looks at the listener.  *)
FairSpec ==
    /\ Spec /\ WF_vars(Main) /\ WF_vars(Monitor)
    /\ WF_vars(ThirtySeconds) /\ WF_vars(CoreStarts)
    /\ WF_vars(activated /\ Queued # {} /\ Begin)
    /\ \A v \in Viewers : SF_vars(NewClient(v))

-----------------------------------------------------------------------------
(* Properties. *)

(* The type invariant. *)
TypeOK ==
    /\ activated \in BOOLEAN
    /\ pc \in {"none", "start", "query", "construct", "loop", "poll", "rest", "stop"}
    /\ viewer \in [Viewers -> {"away", "queued", "client"}]
    /\ known \subseteq reporter /\ reporter \subseteq Clients
    /\ info \in BOOLEAN /\ quiet \in BOOLEAN /\ ran \in BOOLEAN
    /\ flags \subseteq {"exit", "fatal", "changed", "failed"}
    /\ monitor \in [at : {"none", "connect", "read", "wait", "done"}, events : BOOLEAN]
    /\ link \in {"none", "open", "broken"}
    /\ news \in Seq([audio : BOOLEAN, events : BOOLEAN])
    /\ core \in [up : BOOLEAN, audio : BOOLEAN, events : BOOLEAN]
    /\ changes \in 0 .. MaxChanges /\ restarts \in 0 .. MaxRestarts
    /\ faults \in 0 .. MaxFaults

(* "The first TCP connection starts the protocol process" and "the next    *)
(* connection starts it again" (README.md:36-39): one that comes while the *)
(* process is about to end, or fails to start, is served by the next one.  *)
Served == \A v \in Viewers :
    activated /\ viewer[v] = "queued" ~> viewer[v] # "queued"

(* "Only the listener remains while idle" (README.md:35): without clients  *)
(* the process ends, also one that was started for nobody.                 *)
OnlyListenerRemains ==
    activated /\ pc # "none" /\ Clients = {} ~> pc = "none" \/ Clients # {}

(* The process never ends under a client because of the idle timeout, but  *)
(* for one of the reasons it reports (main.cpp:132-144).                   *)
DroppedForCause ==
    [][Clients # {} /\ pc' = "none" => flags # {} \/ ~ran]_vars

(* "Audio setting changes trigger the existing extension restart path"     *)
(* (README.md:72): a process whose audio_available_ is not the core's      *)
(* ends or the core's changes back, however the change falls between the   *)
(* query, the subscription's connection and the probes of an older core.   *)
Stale == Serving /\ core.up /\ info # core.audio
AudioFollows == Stale ~> ~Stale

(* A core that stops forgets the sessions, which are reported only once    *)
(* (session_reporter).  With events, one that stops while it is connected  *)
(* takes the service with it, so that no session stays unreported; one     *)
(* that stops while the thread is not connected does so too, unless it     *)
(* has restarted when the thread connects: a restart that nobody saw, and  *)
(* the sessions then stay unreported.  So they may without events.         *)
Forgotten(v) == v \in reporter \ known
SessionsFollow == \A v \in Viewers :
    /\ (Forgotten(v) /\ monitor.events /\ link = "broken") ~> ~Forgotten(v)
    /\ (Forgotten(v) /\ monitor.events /\ link = "none")
          ~> (~Forgotten(v) \/ link = "open")

(* "Disabling the extension ... terminates its clients" (README.md:39-40): *)
(* a signal ends the process, wherever the capability thread waits.        *)
SignalEnds == "exit" \in flags /\ Serving ~> pc = "none"
=============================================================================
