--------------------------- MODULE ServiceProofs ---------------------------
(***************************************************************************)
(* Proofs about Service: its type invariant, that a client is never        *)
(* dropped without a cause, and what its liveness properties rest on: a    *)
(* process in use is watched, and what it was told is not forgotten.       *)
(***************************************************************************)
EXTENDS Service, TLAPS

(* Nobody is a client before the loop, and with clients the loop is only   *)
(* left for a cause.                                                       *)
NoneYet   == pc \in {"none", "start", "query", "construct"} => Clients = {}
LeftForCause == pc = "stop" /\ Clients # {} => flags # {} \/ ~ran

IInv == TypeOK /\ NoneYet /\ LeftForCause

Message == [audio : BOOLEAN, events : BOOLEAN]

(* What is unread on the connection, as a sequence of messages. *)
LEMMA NewsTyped == ASSUME IInv PROVE news \in Seq(Message)
BY DEF IInv, TypeOK, Message

(* The initial states. *)
LEMMA InitInv == Init => IInv
<1> SUFFICES ASSUME Init PROVE IInv
  OBVIOUS
<1>1. Clients = {} /\ known = {} /\ reporter = {}
  BY DEF Init, Clients
<1>2. viewer \in [Viewers -> {"away", "queued", "client"}]
  BY DEF Init
<1>3. core \in [up : BOOLEAN, audio : BOOLEAN, events : BOOLEAN]
  BY DEF Init
<1>7. news \in Seq(Message)
  BY DEF Init
<1>4. monitor \in [at : {"none", "connect", "read", "wait", "done"}, events : BOOLEAN]
  BY DEF Init, NoMonitor
<1>5. changes \in 0 .. MaxChanges /\ restarts \in 0 .. MaxRestarts /\ faults \in 0 .. MaxFaults
  BY ServiceAssumption DEF Init
<1>6. TypeOK
  BY <1>1, <1>2, <1>3, <1>4, <1>5, <1>7 DEF Init, TypeOK, Message
<1> QED
  BY <1>1, <1>6 DEF IInv, NoneYet, LeftForCause

(* The end of the process, for whatever reason. *)
LEMMA ExitKeeps == ASSUME IInv, Exit, faults' \in 0 .. MaxFaults PROVE IInv'
<1>1. viewer' \in [Viewers -> {"away", "queued", "client"}]
  BY DEF Exit, IInv, TypeOK
<1>2. Clients' = {}
  BY DEF Exit, Clients, IInv, TypeOK
<1>3. monitor' \in [at : {"none", "connect", "read", "wait", "done"}, events : BOOLEAN]
  BY DEF Exit, NoMonitor
<1>4. news' \in Seq(Message)
  BY DEF Exit
<1>5. known' \subseteq reporter' /\ reporter' \subseteq Clients'
  BY DEF Exit
<1>6. TypeOK'
  BY <1>1, <1>3, <1>4, <1>5 DEF Exit, IInv, TypeOK, Message
<1> QED
  BY <1>2, <1>6 DEF IInv, NoneYet, LeftForCause

(* A fault stays within its bound. *)
LEMMA FaultBounded == ASSUME IInv, Fault PROVE faults' \in 0 .. MaxFaults
BY ServiceAssumption DEF IInv, TypeOK, Fault

(* The steps that leave main, its clients and its flags alone, and with    *)
(* them everything but the connection and the core.                        *)
LEMMA AsideKeeps ==
    ASSUME IInv, UNCHANGED <<activated, main, viewer, reporter>>,
           flags \subseteq flags',
           flags' \subseteq {"exit", "fatal", "changed", "failed"},
           known' \subseteq known,
           monitor' \in [at : {"none", "connect", "read", "wait", "done"}, events : BOOLEAN],
           link' \in {"none", "open", "broken"},
           news' \in Seq(Message),
           core' \in [up : BOOLEAN, audio : BOOLEAN, events : BOOLEAN],
           changes' \in 0 .. MaxChanges, restarts' \in 0 .. MaxRestarts,
           faults' \in 0 .. MaxFaults
    PROVE  IInv'
<1>1. Clients' = Clients
  BY DEF Clients
<1>2. TypeOK'
  BY <1>1 DEF IInv, TypeOK, Message, main
<1> QED
  BY <1>1, <1>2 DEF IInv, NoneYet, LeftForCause, main

(* Every step keeps the invariant. *)
LEMMA StepInv == IInv /\ [Next]_vars => IInv'
<1> SUFFICES ASSUME IInv, [Next]_vars PROVE IInv'
  OBVIOUS
<1> USE ServiceAssumption
<1>1. CASE Activate
  <2>1. CASE activated /\ ~Pending
    BY <1>1, <2>1, ExitKeeps DEF Activate, IInv, TypeOK
  <2>2. CASE ~(activated /\ ~Pending)
    BY <1>1, <2>2 DEF Activate, IInv, NoneYet, LeftForCause, TypeOK, Clients,
       main, clients, watch, bounds
  <2> QED
    BY <2>1, <2>2
<1>2. CASE Query
  BY <1>2 DEF Query, IInv, NoneYet, LeftForCause, TypeOK, Clients, main,
     clients, watch, bounds
<1>3. CASE QueryFails
  BY <1>3, ExitKeeps DEF QueryFails, IInv, TypeOK
<1>4. CASE Construct
  BY <1>4 DEF Construct, IInv, NoneYet, LeftForCause, TypeOK, Clients, main,
     clients, watch, bounds
<1>5. CASE Check
  BY <1>5 DEF Check, IInv, NoneYet, LeftForCause, TypeOK, Clients, main,
     clients, watch, bounds
<1>6. CASE EndPoll
  BY <1>6 DEF EndPoll, IInv, NoneYet, LeftForCause, TypeOK, Clients, main,
     clients, watch, bounds
<1>7. CASE Rest
  BY <1>7 DEF Rest, Expired, IInv, NoneYet, LeftForCause, TypeOK, Clients,
     main, clients, watch, bounds
<1>8. CASE Return
  BY <1>8, ExitKeeps DEF Return, IInv, TypeOK
<1>9. CASE Connect
  <2>1. monitor' \in [at : {"none", "connect", "read", "wait", "done"}, events : BOOLEAN]
    BY <1>9 DEF Connect, IInv, TypeOK
  <2>2. Offer \in Message
    BY DEF Offer, IInv, TypeOK, Message
  <2>3. news' = <<Offer>> \/ news' = <<>>
    BY <1>9 DEF Connect
  <2>4. <<Offer>> \in Seq(Message) /\ <<>> \in Seq(Message)
    BY <2>2
  <2>5. news' \in Seq(Message)
    BY <2>3, <2>4
  <2>6. link' \in {"none", "open", "broken"}
    BY <1>9 DEF Connect
  <2> QED
    BY <1>9, <2>1, <2>2, <2>3, <2>4, <2>5, <2>6, AsideKeeps DEF Connect, IInv,
       TypeOK, Message, main, clients, watch, bounds
<1>10. CASE ConnectFails
  BY <1>10 DEF ConnectFails, ToMain, Stopping, IInv, NoneYet, LeftForCause,
     TypeOK, Clients, main, clients, watch, bounds
<1>11. CASE Read
  <2>1. flags' \in SUBSET {"exit", "fatal", "changed", "failed"} /\ flags \subseteq flags'
    BY <1>11 DEF Read, ToMain, IInv, TypeOK
  <2>2. Head(news) \in Message
    BY <1>11, NewsTyped DEF Read
  <2>3. monitor' \in [at : {"none", "connect", "read", "wait", "done"}, events : BOOLEAN]
    BY <1>11, <2>2 DEF Read, Again, IInv, TypeOK, Message
  <2>4. news' = Tail(news) \/ news' = news \/ news' = <<>>
    BY <1>11 DEF Read, watch
  <2>5. news # <<>>
    BY <1>11 DEF Read
  <2>6. Tail(news) \in Seq(Message) /\ <<>> \in Seq(Message)
    BY <2>5, NewsTyped
  <2>7. news' \in Seq(Message)
    BY <2>4, <2>6, NewsTyped
  <2>8. link' \in {"none", "open", "broken"}
    BY <1>11 DEF Read, IInv, TypeOK
  <2> QED
    BY <1>11, <2>1, <2>2, <2>3, <2>4, <2>5, <2>6, <2>7, <2>8,
       AsideKeeps DEF Read, IInv, TypeOK, Message, main, clients, watch, bounds
<1>12. CASE ReadFails
  BY <1>12 DEF ReadFails, GivesUp, Report, ToMain, Stopping, IInv, NoneYet,
     LeftForCause, TypeOK, Clients, main, clients, watch, bounds
<1>13. CASE Probe
  BY <1>13 DEF Probe, Stopping, IInv, NoneYet, LeftForCause, TypeOK, Clients,
     main, clients, watch, bounds
<1>14. CASE Finish
  BY <1>14 DEF Finish, ToMain, Woken, Stopping, IInv, NoneYet, LeftForCause,
     TypeOK, Clients, main, clients, watch, bounds
<1>15. CASE Begin
  BY <1>15 DEF Begin, IInv, NoneYet, LeftForCause, TypeOK, Clients, main,
     clients, watch, bounds
<1>16. CASE Signal
  <2>0. faults' \in 0 .. MaxFaults
    BY <1>16, FaultBounded DEF Signal
  <2>1. CASE pc \in {"start", "query"}
    BY <1>16, <2>0, <2>1, ExitKeeps DEF Signal
  <2>2. CASE pc \notin {"start", "query"}
    BY <1>16, <2>0, <2>2, ZenonT(40) DEF Signal, IInv, NoneYet, LeftForCause, TypeOK,
       Clients, main, clients, watch, bounds
  <2> QED
    BY <2>1, <2>2
<1>17. CASE StartFails
  BY <1>17, ExitKeeps, FaultBounded DEF StartFails
<1>18. CASE SetFatal
  BY <1>18 DEF SetFatal, Fault, Serving, IInv, NoneYet, LeftForCause, TypeOK,
     Clients, main, clients, watch, bounds
<1>19. CASE Fails
  <2>0. faults' \in 0 .. MaxFaults
    BY <1>19, FaultBounded DEF Fails
  <2> QED
    BY <1>19, <2>0, ZenonT(40) DEF Fails, IInv, NoneYet, LeftForCause, TypeOK, Clients,
       main, clients, watch, bounds
<1>20. CASE ReadsWrong
  BY <1>20 DEF ReadsWrong, GivesUp, Report, ToMain, Fault, Stopping, IInv,
     NoneYet, LeftForCause, TypeOK, Clients, main, clients, watch, bounds
<1>21. CASE ThirtySeconds
  BY <1>21 DEF ThirtySeconds, IInv, NoneYet, LeftForCause, TypeOK, Clients,
     main, clients, watch, bounds
<1>22. CASE AudioChanges
  <2>1. core' \in [up : BOOLEAN, audio : BOOLEAN, events : BOOLEAN]
    BY <1>22 DEF AudioChanges, IInv, TypeOK
  <2>2. [audio |-> ~core.audio, events |-> core.events] \in Message
    BY DEF IInv, TypeOK, Message
  <2>3. news' \in Seq(Message)
    BY <1>22, <2>2, NewsTyped DEF AudioChanges
  <2>4. changes' \in 0 .. MaxChanges
    BY <1>22, ServiceAssumption DEF AudioChanges, IInv, TypeOK
  <2> QED
    BY <1>22, <2>1, <2>2, <2>3, <2>4, AsideKeeps DEF AudioChanges, IInv,
       TypeOK, Message, main, clients, watch, bounds
<1>23. CASE CoreStops
  <2>1. core' \in [up : BOOLEAN, audio : BOOLEAN, events : BOOLEAN]
    BY <1>23 DEF CoreStops, IInv, TypeOK
  <2>2. restarts' \in 0 .. MaxRestarts
    BY <1>23, ServiceAssumption DEF CoreStops, IInv, TypeOK
  <2>3. link' \in {"none", "open", "broken"}
    BY <1>23 DEF CoreStops, IInv, TypeOK
  <2> QED
    BY <1>23, <2>1, <2>2, <2>3, AsideKeeps DEF CoreStops, IInv, TypeOK,
       Message, main, clients, watch, bounds
<1>24. CASE CoreStarts
  <2>1. core' \in [up : BOOLEAN, audio : BOOLEAN, events : BOOLEAN]
    BY <1>24 DEF CoreStarts, IInv, TypeOK
  <2> QED
    BY <1>24, <2>1, AsideKeeps DEF CoreStarts, IInv, TypeOK, Message, main,
       clients, watch, bounds
<1>25. ASSUME NEW v \in Viewers, Arrive(v) PROVE IInv'
  BY <1>25 DEF Arrive, Serving, IInv, NoneYet, LeftForCause, TypeOK, Clients,
     main, clients, watch, bounds
<1>26. ASSUME NEW v \in Viewers, NewClient(v) PROVE IInv'
  BY <1>26 DEF NewClient, IInv, NoneYet, LeftForCause, TypeOK, Clients, main,
     clients, watch, bounds
<1>27. ASSUME NEW v \in Viewers, ClientGone(v) PROVE IInv'
  BY <1>27 DEF ClientGone, EndSession, IInv, NoneYet, LeftForCause, TypeOK,
     Clients, main, clients, watch, bounds
<1>28. ASSUME NEW v \in Viewers, FramebufferUpdateRequested(v) PROVE IInv'
  BY <1>28 DEF FramebufferUpdateRequested, IInv, NoneYet, LeftForCause,
     TypeOK, Clients, main, clients, watch, bounds
<1>29. CASE UNCHANGED vars
  BY <1>29 DEF vars, IInv, NoneYet, LeftForCause, TypeOK, Clients, main,
     clients, watch, bounds
<1> QED
  BY <1>1, <1>2, <1>3, <1>4, <1>5, <1>6, <1>7, <1>8, <1>9, <1>10, <1>11,
     <1>12, <1>13, <1>14, <1>15, <1>16, <1>17, <1>18, <1>19, <1>20, <1>21,
     <1>22, <1>23, <1>24, <1>25, <1>26, <1>27, <1>28, <1>29 DEF Next, Main,
     Monitor, Outside, Client

(* The inductive invariant holds in every reachable state. *)
THEOREM Invariant == Spec => []IInv
BY InitInv, StepInv, PTL DEF Spec

(* Every reachable state is of its type: a session is only ever reported   *)
(* for a client that is connected (SessionReporter, ClientGone).           *)
THEOREM TypeCorrect == Spec => []TypeOK
<1>1. IInv => TypeOK
  BY DEF IInv
<1> QED
  BY <1>1, Invariant, PTL

(* The process never ends under a client without a cause (Run, IdleTimeout *)
(* and main.cpp's exit).                                                   *)
THEOREM NeverDropped == Spec => DroppedForCause
<1>1. ASSUME IInv, [Next]_vars, Clients # {}, pc' = "none"
      PROVE  flags # {} \/ ~ran
  <2>1. CASE Return
    BY <1>1, <2>1 DEF Return, IInv, LeftForCause
  <2>2. CASE Signal
    <3>1. pc \in {"start", "query"}
      BY <1>1, <2>2 DEF Signal, main
    <3> QED
      BY <1>1, <3>1 DEF IInv, NoneYet
  <2>3. pc \in {"none", "start", "query", "construct"} \/ Return \/ Signal
    <3>1. pc # "none" => pc' # pc
      BY <1>1
    <3>2. CASE pc # "none" /\ Main
      BY <1>1, <3>2 DEF Main, Activate, Query, QueryFails, Construct, Check,
         EndPoll, Rest
    <3>3. CASE pc # "none" /\ Monitor
      BY <1>1, <3>1, <3>3 DEF Monitor, Connect, ConnectFails, Read, ReadFails,
         GivesUp, Probe, Finish, main
    <3>4. CASE pc # "none" /\ Outside
      BY <1>1, <3>1, <3>4 DEF Outside, Begin, StartFails, SetFatal, Fails,
         ReadsWrong, GivesUp,
         ThirtySeconds, AudioChanges, CoreStops, CoreStarts, Arrive, main
    <3>5. CASE pc # "none" /\ \E v \in Viewers : Client(v)
      BY <1>1, <3>1, <3>5 DEF Client, NewClient, ClientGone,
         FramebufferUpdateRequested, main
    <3>6. CASE pc # "none" /\ UNCHANGED vars
      BY <1>1, <3>1, <3>6 DEF vars, main
    <3> QED
      BY <1>1, <3>2, <3>3, <3>4, <3>5, <3>6 DEF Next
  <2> QED
    BY <1>1, <2>1, <2>2, <2>3 DEF IInv, NoneYet
<1>2. IInv /\ [Next]_vars => [Clients # {} /\ pc' = "none" => flags # {} \/ ~ran]_vars
  BY <1>1
<1> QED
  BY <1>2, Invariant, PTL DEF Spec, DroppedForCause

-----------------------------------------------------------------------------
(* The capability thread: the safety halves of AudioFollows and SignalEnds.*)

(* The service never outlives the thread that watches the core: while main *)
(* serves, the thread is there for Stop to join, and one that has ended    *)
(* has told main to end (main.cpp:126).                                  *)
NeverUnwatched ==
    Serving => /\ monitor.at # "none"
               /\ monitor.at = "done" => pc = "stop" \/ "exit" \in flags

(* A process whose audio setting is not the core's has been told to end,   *)
(* or the thread is about to learn of it: it will be sent the core's state *)
(* when it connects, its connection has ended, or what it has yet to read  *)
(* ends with the core's setting.  Without events what it has yet to read   *)
(* may be older, and the next probe follows it.                            *)
StaleIsNoticed ==
    Stale =>
        \/ pc = "stop" \/ "exit" \in flags
        \/ monitor.at \in {"connect", "wait"}
        \/ /\ monitor.at = "read"
           /\ \/ link = "broken"
              \/ news # <<>> /\ (monitor.events => news[Len(news)].audio = core.audio)

(* Why: nothing is open or unread but while the thread reads, what is      *)
(* unread on a connection with events is up to date, and with nothing      *)
(* unread main's setting is, or main has been told.                        *)
UpToDate ==
    IF news = <<>> THEN core.audio = info \/ "exit" \in flags
                   ELSE news[Len(news)].audio = core.audio

Watching ==
    /\ monitor.at = "none" <=> ~Serving
    /\ monitor.at = "done" => pc = "stop" \/ "exit" \in flags
    /\ IF monitor.at = "read" THEN link \in {"open", "broken"}
                              ELSE link = "none" /\ news = <<>>
    /\ link = "open" => IF monitor.events THEN UpToDate ELSE news # <<>>

(* A step that changes neither main, nor the thread, its connection or     *)
(* what is unread, nor the audio setting, keeps it: flags only grow.       *)
LEMMA WatchingUntouched ==
    ASSUME Watching, UNCHANGED <<watch, info>>, core'.audio = core.audio,
           Serving' <=> Serving, pc = "stop" => pc' = "stop",
           "exit" \in flags => "exit" \in flags'
    PROVE  Watching'
<1>1. UNCHANGED <<monitor, link, news, info>>
  BY DEF watch
<1>2. UpToDate => UpToDate'
  BY <1>1 DEF UpToDate
<1> QED
  BY <1>1, <1>2 DEF Watching

(* With the process goes the thread.                                       *)
LEMMA ExitEndsWatch == ASSUME Exit PROVE Watching'
BY DEF Exit, NoMonitor, Watching, Serving

(* The last message that is unread: after the core has sent one, after the *)
(* thread has read one, and on a connection that is new.                   *)
LEMMA LastUnread ==
    ASSUME NEW q \in Seq(Message)
    PROVE  /\ \A m \in Message : /\ Append(q, m) # <<>>
                                 /\ Append(q, m)[Len(Append(q, m))] = m
                                 /\ <<m>> # <<>> /\ <<m>>[Len(<<m>>)] = m
           /\ q # <<>> => /\ Head(q) \in Message
                          /\ Tail(q) = <<>> => Head(q) = q[Len(q)]
                          /\ Tail(q) # <<>> => Tail(q)[Len(Tail(q))] = q[Len(q)]
<1>1. ASSUME NEW m \in Message
      PROVE  /\ Append(q, m) # <<>> /\ Append(q, m)[Len(Append(q, m))] = m
             /\ <<m>> # <<>> /\ <<m>>[Len(<<m>>)] = m
  <2>1. Len(Append(q, m)) = Len(q) + 1 /\ Append(q, m)[Len(q) + 1] = m
    OBVIOUS
  <2>2. Len(<<m>>) = 1 /\ <<m>>[1] = m
    OBVIOUS
  <2> QED
    BY <2>1, <2>2
<1>2. ASSUME q # <<>>
      PROVE  /\ Head(q) \in Message
             /\ Tail(q) = <<>> => Head(q) = q[Len(q)]
             /\ Tail(q) # <<>> => Tail(q)[Len(Tail(q))] = q[Len(q)]
  <2>1. /\ Head(q) \in Message /\ Head(q) = q[1] /\ Len(q) \in Nat /\ Len(q) > 0
        /\ Tail(q) \in Seq(Message) /\ Len(Tail(q)) = Len(q) - 1
        /\ \A i \in 1 .. Len(q) - 1 : Tail(q)[i] = q[i + 1]
    BY <1>2
  <2>2. ASSUME Tail(q) = <<>> PROVE Head(q) = q[Len(q)]
    <3>1. Len(Tail(q)) = 0
      <4>1. Len(<<>>) = 0
        OBVIOUS
      <4> QED
        BY <2>2, <4>1, Zenon
    <3>2. Len(q) = 1
      <4>1. \A n \in Nat : n - 1 = 0 => n = 1
        OBVIOUS
      <4> QED
        BY <2>1, <3>1, <4>1, Zenon
    <3> QED
      BY <2>1, <3>2
  <2>3. ASSUME Tail(q) # <<>> PROVE Tail(q)[Len(Tail(q))] = q[Len(q)]
    <3>1. Len(Tail(q)) # 0
      <4>1. \A s \in Seq(Message) : Len(s) = 0 => s = <<>>
        OBVIOUS
      <4> QED
        BY <2>1, <2>3, <4>1
    <3>2. Len(q) - 1 \in 1 .. Len(q) - 1
      BY <2>1, <3>1
    <3> QED
      BY <2>1, <3>2
  <2> QED
    BY <2>1, <2>2, <2>3
<1> QED
  BY <1>1, <1>2

(* The thread's own steps.                                                 *)
LEMMA MonitorWatches ==
    ASSUME IInv, Watching,
           \/ Connect \/ ConnectFails \/ Read \/ ReadFails \/ ReadsWrong
           \/ Probe \/ Finish
    PROVE  Watching'
<1>1. /\ monitor \in [at : {"none", "connect", "read", "wait", "done"}, events : BOOLEAN]
      /\ core \in [up : BOOLEAN, audio : BOOLEAN, events : BOOLEAN]
  BY DEF IInv, TypeOK
<1>2. CASE Connect
  <2>1. /\ monitor.at = "connect" /\ monitor'.at = "read" /\ monitor'.events = monitor.events
        /\ UNCHANGED <<pc, core, info, flags>>
    BY <1>1, <1>2 DEF Connect, main
  <2>2. Serving' /\ (monitor.at = "none" <=> ~Serving)
    BY <2>1 DEF Watching, Serving
  <2>3. CASE link' = "broken"
    BY <2>1, <2>2, <2>3 DEF Watching
  <2>4. CASE link' # "broken"
    <3>1. link' = "open" /\ news' = <<Offer>>
      BY <1>2, <2>4 DEF Connect
    <3>2. Offer \in Message /\ Offer.audio = core.audio
      BY <1>1 DEF Offer, Message
    <3>3. <<Offer>> # <<>> /\ <<Offer>>[Len(<<Offer>>)] = Offer
      BY <3>2, LastUnread, NewsTyped
    <3>4. UpToDate' /\ news' # <<>>
      BY <2>1, <3>1, <3>2, <3>3 DEF UpToDate
    <3> QED
      BY <2>1, <2>2, <3>1, <3>4 DEF Watching
  <2> QED
    BY <2>3, <2>4
<1>3. CASE ConnectFails
  <2>1. /\ monitor.at = "connect" /\ monitor'.at = "done" /\ "exit" \in flags'
        /\ UNCHANGED <<pc, link, news>>
    BY <1>1, <1>3 DEF ConnectFails, ToMain, main
  <2> QED
    BY <2>1 DEF Watching, Serving
<1>4. CASE Read
  <2> DEFINE m == Head(news)
  <2>1. /\ monitor.at = "read" /\ news # <<>> /\ UNCHANGED <<pc, core, info>>
        /\ "exit" \in flags => "exit" \in flags'
        /\ m.audio # info => "exit" \in flags'
    BY <1>4 DEF Read, ToMain, main
  <2>2. Serving' /\ link \in {"open", "broken"}
    BY <2>1 DEF Watching, Serving
  <2>3. CASE monitor.events
    <3>1. UNCHANGED <<monitor, link>> /\ news' = Tail(news)
      BY <1>4, <2>3 DEF Read
    <3>2. /\ Tail(news) = <<>> => m = news[Len(news)]
          /\ Tail(news) # <<>> => Tail(news)[Len(Tail(news))] = news[Len(news)]
      BY <2>1, LastUnread, NewsTyped
    <3> HIDE DEF m
    <3>3. link = "open" => news[Len(news)].audio = core.audio
      BY <2>1, <2>3 DEF Watching, UpToDate
    <3>4. link = "open" => UpToDate'
      BY <2>1, <3>1, <3>2, <3>3 DEF UpToDate
    <3> QED
      BY <2>1, <2>2, <2>3, <3>1, <3>4 DEF Watching
  <2>4. CASE ~monitor.events
    <3>1. monitor'.at = "wait" /\ link' = "none" /\ news' = <<>>
      BY <1>4, <2>4 DEF Read, Again
    <3> QED
      BY <2>2, <3>1 DEF Watching
  <2> QED
    BY <2>3, <2>4
<1>5. CASE ReadFails \/ ReadsWrong
  <2>1. /\ monitor.at = "read" /\ monitor'.at = "done" /\ "exit" \in flags'
        /\ pc' = pc /\ link' = "none" /\ news' = <<>>
    BY <1>1, <1>5 DEF ReadFails, ReadsWrong, GivesUp, Report, ToMain, main
  <2> QED
    BY <2>1 DEF Watching, Serving
<1>6. CASE Probe
  <2>1. /\ monitor.at = "wait" /\ monitor'.at = "connect" /\ UNCHANGED <<pc, link, news>>
    BY <1>1, <1>6 DEF Probe, main
  <2> QED
    BY <2>1 DEF Watching, Serving
<1>7. CASE Finish
  <2>1. /\ monitor'.at = "done" /\ pc = "stop" /\ pc' = pc
        /\ link' = "none" /\ news' = <<>>
    BY <1>1, <1>7 DEF Finish, Woken, Stopping, main
  <2> QED
    BY <2>1 DEF Watching, Serving
<1> QED
  BY <1>2, <1>3, <1>4, <1>5, <1>6, <1>7

(* The steps of main and of its surroundings.                              *)
LEMMA MainWatches ==
    ASSUME IInv, Watching, Main \/ Begin \/ Signal \/ StartFails \/ Fails
    PROVE  Watching'
<1>1. monitor \in [at : {"none", "connect", "read", "wait", "done"}, events : BOOLEAN]
  BY DEF IInv, TypeOK
<1>2. CASE Exit
  BY <1>2, ExitEndsWatch
<1>3. ASSUME pc \in {"none", "start", "query"}, pc' \in {"start", "query", "construct"},
             monitor'.at = monitor.at, UNCHANGED <<link, news>>
      PROVE  Watching'
  BY <1>3 DEF Watching, Serving
<1>4. CASE (Activate \/ Begin \/ Query) /\ ~Exit
  BY <1>1, <1>3, <1>4 DEF Activate, Begin, Query, watch
<1>5. CASE Construct
  <2>1. /\ ~Serving /\ Serving' /\ pc' = "loop" /\ monitor'.at = "connect"
        /\ UNCHANGED <<link, news>>
    BY <1>1, <1>5 DEF Construct, Serving
  <2>2. link' = "none" /\ news' = <<>>
    BY <2>1 DEF Watching
  <2> QED
    BY <2>1, <2>2 DEF Watching
<1>6. CASE Check \/ EndPoll \/ Rest \/ Fails
  <2>1. /\ UNCHANGED <<watch, info, flags, core>> /\ Serving /\ Serving' /\ pc # "stop"
    BY <1>6 DEF Check, EndPoll, Rest, Fails, Serving
  <2> QED
    BY <2>1, WatchingUntouched
<1>7. CASE Signal /\ ~Exit
  <2>1. /\ UNCHANGED <<watch, main, core>> /\ flags \subseteq flags'
    BY <1>7 DEF Signal
  <2> QED
    BY <2>1, WatchingUntouched DEF Serving, main
<1> QED
  BY <1>2, <1>4, <1>5, <1>6, <1>7 DEF Main, QueryFails, Return, StartFails

(* The core's own: on a connection with events it sends what has changed.  *)
LEMMA CoreWatched ==
    ASSUME IInv, Watching, AudioChanges \/ CoreStops \/ CoreStarts
    PROVE  Watching'
<1>1. core \in [up : BOOLEAN, audio : BOOLEAN, events : BOOLEAN]
  BY DEF IInv, TypeOK
<1>2. CASE AudioChanges
  <2> DEFINE m == [audio |-> ~core.audio, events |-> core.events]
  <2>1. UNCHANGED <<main, flags, monitor, link>> /\ core'.audio = ~core.audio
    BY <1>1, <1>2 DEF AudioChanges
  <2>2. m \in Message /\ m.audio = ~core.audio
    BY <1>1 DEF Message
  <2>3. CASE link = "open" /\ monitor.events
    <3>1. news' = Append(news, m)
      BY <1>2, <2>3 DEF AudioChanges
    <3> HIDE DEF m
    <3>2. Append(news, m) # <<>> /\ Append(news, m)[Len(Append(news, m))] = m
      BY <2>2, LastUnread, NewsTyped
    <3>3. UpToDate'
      BY <2>1, <2>2, <3>1, <3>2 DEF UpToDate
    <3> QED
      BY <2>1, <2>3, <3>3 DEF Watching, Serving, main
  <2>4. CASE ~(link = "open" /\ monitor.events)
    <3>1. news' = news
      BY <1>2, <2>4 DEF AudioChanges
    <3> QED
      BY <2>1, <2>4, <3>1 DEF Watching, Serving, main
  <2> QED
    BY <2>3, <2>4
<1>3. CASE CoreStops
  <2>1. /\ UNCHANGED <<main, flags, monitor, news>>
        /\ link' = IF link = "open" THEN "broken" ELSE link
    BY <1>3 DEF CoreStops
  <2> QED
    BY <2>1 DEF Watching, Serving, main
<1>4. CASE CoreStarts
  <2>1. UNCHANGED <<main, flags, watch>> /\ core'.audio = core.audio
    BY <1>1, <1>4 DEF CoreStarts
  <2> QED
    BY <2>1, WatchingUntouched DEF Serving, main
<1> QED
  BY <1>2, <1>3, <1>4

(* Every step keeps it.                                                    *)
LEMMA StepWatches == IInv /\ Watching /\ [Next]_vars => Watching'
<1> SUFFICES ASSUME IInv, Watching, [Next]_vars PROVE Watching'
  OBVIOUS
<1>1. CASE Main \/ Begin \/ Signal \/ StartFails \/ Fails
  BY <1>1, MainWatches
<1>2. CASE Monitor \/ ReadsWrong
  BY <1>2, MonitorWatches DEF Monitor
<1>3. CASE AudioChanges \/ CoreStops \/ CoreStarts
  BY <1>3, CoreWatched
<1>4. CASE SetFatal
  <2>1. UNCHANGED <<watch, main, core>> /\ flags \subseteq flags'
    BY <1>4 DEF SetFatal
  <2> QED
    BY <2>1, WatchingUntouched DEF Serving, main
<1>5. CASE ThirtySeconds
  <2>1. UNCHANGED <<watch, pc, info, flags, core>>
    BY <1>5 DEF ThirtySeconds
  <2> QED
    BY <2>1, WatchingUntouched DEF Serving
<1>6. ASSUME NEW v \in Viewers, Arrive(v) \/ Client(v)
      PROVE  Watching'
  <2>1. UNCHANGED <<watch, main, core, flags>>
    BY <1>6 DEF Arrive, Client, NewClient, ClientGone, FramebufferUpdateRequested
  <2> QED
    BY <2>1, WatchingUntouched DEF Serving, main
<1>7. CASE UNCHANGED vars
  BY <1>7, WatchingUntouched DEF vars, Serving, main
<1> QED
  BY <1>1, <1>2, <1>3, <1>4, <1>5, <1>6, <1>7 DEF Next, Outside

(* The invariant behind the two properties below.                          *)
LEMMA AlwaysWatching == Spec => []Watching
<1>1. Init => Watching
  BY DEF Init, NoMonitor, Watching, Serving
<1> QED
  BY <1>1, StepWatches, Invariant, PTL DEF Spec

(* Main and the capability thread end together: Stop finds a thread to     *)
(* join, and main is told of one that has ended.                           *)
THEOREM MonitorOutlived == Spec => []NeverUnwatched
<1>1. Watching => NeverUnwatched
  BY DEF Watching, NeverUnwatched
<1> QED
  BY <1>1, AlwaysWatching, PTL

(* A changed audio setting is not missed, however the change falls between *)
(* the query, the connection and the messages on it.                       *)
THEOREM StaleNoticed == Spec => []StaleIsNoticed
<1>1. IInv /\ Watching => StaleIsNoticed
  <2> SUFFICES ASSUME IInv, Watching, Stale, pc # "stop", "exit" \notin flags,
                      monitor.at \notin {"connect", "wait"}
               PROVE  /\ monitor.at = "read"
                      /\ \/ link = "broken"
                         \/ news # <<>> /\ (monitor.events =>
                                               news[Len(news)].audio = core.audio)
    BY DEF StaleIsNoticed
  <2>1. monitor.at = "read"
    BY DEF Stale, Watching, IInv, TypeOK
  <2>2. link \in {"open", "broken"} /\ core.audio # info
    BY <2>1 DEF Watching, Stale
  <2> QED
    BY <2>1, <2>2 DEF Watching, UpToDate
<1> QED
  BY <1>1, Invariant, AlwaysWatching, PTL
=============================================================================
