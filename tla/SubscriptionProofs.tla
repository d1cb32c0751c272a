------------------------- MODULE SubscriptionProofs -------------------------
(***************************************************************************)
(* For any number of descriptors and any number of faults: a number that   *)
(* Stop can see is open and the subscription's own, and no connection is   *)
(* left open without a thread that will close it; and a thread that was    *)
(* told to stop is going to notice.                                        *)
(*                                                                         *)
(* None of these is inductive.  That Close frees only its own number      *)
(* needs to know that two threads never hold the same one, and that a      *)
(* published number is never a freed one needs the order of                *)
(* CloseOwnedSocket: "Local" says where in Run a thread holds a number,    *)
(* and where it may have published it.                                     *)
(***************************************************************************)
EXTENDS Subscription, TLAPS

ThreadStates == [at : Steps, fd : Fds \cup {None}, again : BOOLEAN,
                 ring : BOOLEAN, events : BOOLEAN,
                 cause : {"none", "core", "process"}]

Connections == [owner : Subs, shut : BOOLEAN, gone : BOOLEAN]

Busy == {"store", "recheck", "request", "handshake", "check", "reading",
         "release", "close"}

Local ==
    /\ \A s \in Subs : thread[s].fd # None <=> thread[s].at \in Busy
    /\ \A s \in Subs : socket_fd[s] # None =>
          socket_fd[s] = thread[s].fd /\ thread[s].at \notin {"store", "close"}

-----------------------------------------------------------------------------
(* The type invariant. *)

(* A thread's record with a new place, or with a new value of any other    *)
(* field, is a thread's record.                                            *)
LEMMA ThreadFields ==
    ASSUME NEW r \in ThreadStates
    PROVE  /\ \A a \in Steps : [r EXCEPT !.at = a] \in ThreadStates
           /\ \A d \in Fds \cup {None} : [r EXCEPT !.fd = d] \in ThreadStates
           /\ \A b \in BOOLEAN : /\ [r EXCEPT !.again = b] \in ThreadStates
                                 /\ [r EXCEPT !.ring = b] \in ThreadStates
                                 /\ [r EXCEPT !.events = b] \in ThreadStates
           /\ \A c \in {"none", "core", "process"} :
                 [r EXCEPT !.cause = c] \in ThreadStates
BY DEF ThreadStates

LEMMA IdleType ==
    /\ Idle \in ThreadStates
    /\ \A s \in Subs : core \in [ring : BOOLEAN, events : BOOLEAN]
                          => Started(s) \in ThreadStates
<1>1. Idle \in ThreadStates
  BY DEF Idle, ThreadStates, Steps
<1>2. ASSUME NEW s \in Subs, core \in [ring : BOOLEAN, events : BOOLEAN]
      PROVE  Started(s) \in ThreadStates
  <2>1. (s = "capability" /\ core.events) \in BOOLEAN
    OBVIOUS
  <2>2. [Idle EXCEPT !.at = "top"] \in ThreadStates
    BY <1>1, ThreadFields DEF Steps
  <2>3. [[Idle EXCEPT !.at = "top"] EXCEPT !.events = s = "capability" /\ core.events]
           \in ThreadStates
    BY <2>1, <2>2, ThreadFields
  <2> QED
    BY <2>3 DEF Started
<1> QED
  BY <1>1, <1>2

(* Goes and EndsFor leave every thread's record a thread's record. *)
LEMMA GoesType ==
    ASSUME TypeOK, NEW s \in Subs, NEW a \in Steps, Goes(s, a)
    PROVE  thread' \in [Subs -> ThreadStates]
<1>1. thread \in [Subs -> ThreadStates]
  BY DEF TypeOK, ThreadStates
<1>2. [thread[s] EXCEPT !.at = a] \in ThreadStates
  BY <1>1, ThreadFields
<1>3. thread' = [thread EXCEPT ![s] = [thread[s] EXCEPT !.at = a]]
  BY DEF Goes
<1> QED
  BY <1>1, <1>2, <1>3

LEMMA EndsForType ==
    ASSUME TypeOK, NEW s \in Subs, NEW c \in {"none", "core", "process"},
           EndsFor(s, c)
    PROVE  thread' \in [Subs -> ThreadStates]
<1> DEFINE r1 == [thread[s] EXCEPT !.at = "release"]
           r2 == [r1 EXCEPT !.cause = c]
           r3 == [r2 EXCEPT !.again = s # "capability"]
<1>1. thread \in [Subs -> ThreadStates]
  BY DEF TypeOK, ThreadStates
<1>2. r1 \in ThreadStates
  BY <1>1, ThreadFields DEF Steps
<1>3. r2 \in ThreadStates
  BY <1>2, ThreadFields
<1>4. r3 \in ThreadStates
  <2>1. (s # "capability") \in BOOLEAN
    OBVIOUS
  <2> HIDE DEF r2
  <2> QED
    BY <1>3, <2>1, ThreadFields
<1>5. thread' = [thread EXCEPT ![s] = r3]
  BY <1>1 DEF EndsFor
<1> HIDE DEF r3
<1> QED
  BY <1>1, <1>4, <1>5

(* Every step of a thread keeps the table of connections and the numbers   *)
(* in their types; the steps that open and close a connection need the     *)
(* thread's own record taken apart.                                        *)
LEMMA ConnectType ==
    ASSUME TypeOK, SubscriptionAssumption, NEW s \in Subs, Connect(s)
    PROVE  /\ thread' \in [Subs -> ThreadStates]
           /\ file' \in [Fds -> Connections \cup {NoFile}]
<1>1. PICK f \in Free :
         /\ file' = [file EXCEPT ![f] = [owner |-> s, shut |-> FALSE, gone |-> FALSE]]
         /\ thread' = [thread EXCEPT ![s].at = "store", ![s].fd = f, ![s].again = TRUE]
  BY DEF Connect
<1>2. f \in Fds
  BY DEF Free
<1>3. thread \in [Subs -> ThreadStates] /\ file \in [Fds -> Connections \cup {NoFile}]
  BY DEF TypeOK, ThreadStates, Connections
<1> DEFINE r1 == [thread[s] EXCEPT !.at = "store"]
           r2 == [r1 EXCEPT !.fd = f]
           r3 == [r2 EXCEPT !.again = TRUE]
<1>4. r1 \in ThreadStates
  BY <1>3, ThreadFields DEF Steps
<1>5. r2 \in ThreadStates
  BY <1>2, <1>4, ThreadFields
<1>6. r3 \in ThreadStates
  <2> HIDE DEF r2
  <2> QED
    BY <1>5, ThreadFields
<1>7. thread' = [thread EXCEPT ![s] = r3]
  BY <1>1, <1>3
<1>8. thread' \in [Subs -> ThreadStates]
  <2> HIDE DEF r3
  <2> QED
    BY <1>3, <1>6, <1>7
<1>9. [owner |-> s, shut |-> FALSE, gone |-> FALSE] \in Connections
  BY DEF Connections
<1> QED
  BY <1>1, <1>3, <1>8, <1>9

LEMMA CloseType ==
    ASSUME TypeOK, NEW s \in Subs, Close(s)
    PROVE  /\ thread' \in [Subs -> ThreadStates]
           /\ file' \in [Fds -> Connections \cup {NoFile}]
<1>1. thread \in [Subs -> ThreadStates] /\ file \in [Fds -> Connections \cup {NoFile}]
  BY DEF TypeOK, ThreadStates, Connections
<1> DEFINE place == IF thread[s].again THEN "top" ELSE "report"
           r1 == [thread[s] EXCEPT !.fd = None]
           r2 == [r1 EXCEPT !.at = place]
<1>2. r1 \in ThreadStates
  BY <1>1, ThreadFields
<1>3. r2 \in ThreadStates
  <2>1. place \in Steps
    BY DEF Steps
  <2> HIDE DEF r1, place
  <2> QED
    BY <1>2, <2>1, ThreadFields
<1>4. thread' = [thread EXCEPT ![s] = r2]
  BY <1>1 DEF Close
<1>5. thread' \in [Subs -> ThreadStates]
  <2> HIDE DEF r2
  <2> QED
    BY <1>1, <1>3, <1>4
<1> QED
  BY <1>1, <1>5 DEF Close, Closed

(* Only these steps change the table; shutdown and the core's hanging up   *)
(* leave each entry's owner alone, and a free number free.                 *)
LEMMA ShutKeepsOwners ==
    ASSUME TypeOK, SubscriptionAssumption, StopShuts
    PROVE  /\ file' \in [Fds -> Connections \cup {NoFile}]
           /\ \A f \in Fds : /\ file'[f] = NoFile <=> file[f] = NoFile
                             /\ file[f] # NoFile => file'[f].owner = file[f].owner
<1>1. file \in [Fds -> Connections \cup {NoFile}] /\ foreground.fd \in Fds \cup {None}
  BY DEF TypeOK, Connections
<1>2. \A c \in Connections : /\ [c EXCEPT !.shut = TRUE] \in Connections
                             /\ [c EXCEPT !.shut = TRUE].owner = c.owner
  BY DEF Connections
<1>3. NoFile \notin Connections
  BY DEF SubscriptionAssumption, Connections
<1>4. CASE foreground.fd = None
  BY <1>1, <1>4 DEF StopShuts
<1>5. CASE foreground.fd # None
  <2> DEFINE d == foreground.fd
  <2>1. d \in Fds /\ file' = [file EXCEPT ![d] = Shut(file[d])]
    BY <1>1, <1>5 DEF StopShuts
  <2>2. CASE file[d] = NoFile
    BY <1>1, <2>1, <2>2 DEF Shut
  <2>3. CASE file[d] # NoFile
    <3>1. file[d] \in Connections /\ Shut(file[d]) = [file[d] EXCEPT !.shut = TRUE]
      BY <1>1, <2>1, <2>3 DEF Shut
    <3>2. Shut(file[d]) \in Connections /\ Shut(file[d]).owner = file[d].owner
      BY <1>2, <3>1
    <3> HIDE DEF d
    <3> QED
      BY <1>1, <1>3, <2>1, <2>3, <3>2
  <2> QED
    BY <2>2, <2>3
<1> QED
  BY <1>4, <1>5

LEMMA HangUpKeepsOwners ==
    ASSUME TypeOK, SubscriptionAssumption, NEW d \in Fds, HangUp(d)
    PROVE  /\ file' \in [Fds -> Connections \cup {NoFile}]
           /\ \A f \in Fds : /\ file'[f] = NoFile <=> file[f] = NoFile
                             /\ file[f] # NoFile => file'[f].owner = file[f].owner
<1>1. file \in [Fds -> Connections \cup {NoFile}]
  BY DEF TypeOK, Connections
<1>2. file[d] \in Connections /\ file' = [file EXCEPT ![d] = [file[d] EXCEPT !.gone = TRUE]]
  BY <1>1 DEF HangUp
<1>3. /\ [file[d] EXCEPT !.gone = TRUE] \in Connections
      /\ [file[d] EXCEPT !.gone = TRUE].owner = file[d].owner
  BY <1>2 DEF Connections
<1>4. NoFile \notin Connections
  BY DEF SubscriptionAssumption, Connections
<1> DEFINE c == [file[d] EXCEPT !.gone = TRUE]
<1> HIDE DEF c
<1> QED
  BY <1>1, <1>2, <1>3, <1>4 DEF c

(* What the threads' other steps change of the thread's record. *)
LEMMA RunType ==
    ASSUME TypeOK, SubscriptionAssumption, NEW s \in Subs,
           Runs(s) \/ Refused(s) \/ Reads(s) \/ ReadsWrong(s) \/ Start(s)
    PROVE  /\ thread' \in [Subs -> ThreadStates]
           /\ file' \in [Fds -> Connections \cup {NoFile}]
<1>1. thread \in [Subs -> ThreadStates] /\ file \in [Fds -> Connections \cup {NoFile}]
  BY DEF TypeOK, ThreadStates, Connections
<1>2. CASE Connect(s)
  BY <1>2, ConnectType
<1>3. CASE Close(s)
  BY <1>3, CloseType
<1>4. CASE Return(s) \/ Store(s) \/ Check(s) \/ Recheck(s) \/ Report(s)
  <2>1. file' = file
    BY <1>4 DEF Return, Store, Check, Recheck, Report
  <2>2. (\E a \in Steps : Goes(s, a)) \/ EndsFor(s, "none")
    BY <1>4 DEF Return, Store, Check, Recheck, Report, Steps
  <2> QED
    BY <1>1, <2>1, <2>2, GoesType, EndsForType
<1>5. CASE Request(s) \/ ReadsEnd(s)
  <2>1. file' = file
    BY <1>5 DEF Request, ReadsEnd
  <2>2. \/ \E a \in Steps : Goes(s, a)
        \/ \E c \in {"none", "core", "process"} : EndsFor(s, c)
    BY <1>5 DEF Request, ReadsEnd, Steps, AtFault
  <2> QED
    BY <1>1, <2>1, <2>2, GoesType, EndsForType
<1>6. CASE Handshake(s)
  <2>1. file' = file
    BY <1>6 DEF Handshake
  <2>2. CASE Goes(s, "check")
    <3>1. "check" \in Steps
      BY DEF Steps
    <3> QED
      BY <1>1, <2>1, <2>2, <3>1, GoesType
  <2>3. CASE NoRing(s)
    <3> DEFINE r1 == [thread[s] EXCEPT !.at = "release"]
               r2 == [r1 EXCEPT !.ring = FALSE]
    <3>1. r1 \in ThreadStates
      BY <1>1, ThreadFields DEF Steps
    <3>2. r2 \in ThreadStates
      <4> HIDE DEF r1
      <4> QED
        BY <3>1, ThreadFields
    <3>3. thread' = [thread EXCEPT ![s] = r2]
      BY <1>1, <2>3 DEF NoRing, Legacy
    <3> HIDE DEF r2
    <3> QED
      BY <1>1, <2>1, <3>2, <3>3
  <2> QED
    BY <1>6, <2>2, <2>3 DEF Handshake
<1>7. CASE Release(s)
  BY <1>1, <1>7, GoesType DEF Release, Steps
<1>8. CASE Refused(s)
  <2> DEFINE r1 == [thread[s] EXCEPT !.at = "report"]
             r2 == [r1 EXCEPT !.cause = "core"]
  <2>1. r1 \in ThreadStates
    BY <1>1, ThreadFields DEF Steps
  <2>2. r2 \in ThreadStates
    <3> HIDE DEF r1
    <3> QED
      BY <2>1, ThreadFields
  <2>3. thread' = thread \/ thread' = [thread EXCEPT ![s] = r2]
    BY <1>1, <1>8 DEF Refused
  <2>4. file' = file
    BY <1>8 DEF Refused
  <2> HIDE DEF r2
  <2> QED
    BY <1>1, <2>2, <2>3, <2>4
<1>9. CASE Reads(s)
  <2> DEFINE r1 == [thread[s] EXCEPT !.at = "release"]
             r2 == [r1 EXCEPT !.events = core.events]
             r3 == [thread[s] EXCEPT !.at = "check"]
  <2>1. r1 \in ThreadStates /\ r3 \in ThreadStates
    BY <1>1, ThreadFields DEF Steps
  <2>2. r2 \in ThreadStates
    <3>1. core.events \in BOOLEAN
      BY DEF TypeOK
    <3> HIDE DEF r1
    <3> QED
      BY <2>1, <3>1, ThreadFields
  <2>3. thread' = [thread EXCEPT ![s] = r2] \/ thread' = [thread EXCEPT ![s] = r3]
    BY <1>1, <1>9 DEF Reads
  <2>4. file' = file
    BY <1>9 DEF Reads
  <2> HIDE DEF r2, r3
  <2> QED
    BY <1>1, <2>1, <2>2, <2>3, <2>4
<1>10. CASE ReadsWrong(s)
  BY <1>1, <1>10, EndsForType DEF ReadsWrong
<1>11. CASE Start(s)
  <2>1. Started(s) \in ThreadStates
    BY IdleType DEF TypeOK
  <2> QED
    BY <1>1, <1>11, <2>1 DEF Start
<1> QED
  BY <1>2, <1>3, <1>4, <1>5, <1>6, <1>7, <1>8, <1>9, <1>10, <1>11 DEF Runs

(* The remaining variables. *)
LEMMA RunTypeRest ==
    ASSUME TypeOK, SubscriptionAssumption, NEW s \in Subs,
           Runs(s) \/ Refused(s) \/ Reads(s) \/ ReadsWrong(s) \/ Start(s)
    PROVE  /\ stopping' \in [Subs -> BOOLEAN]
           /\ socket_fd' \in [Subs -> Fds \cup {None}]
           /\ foreground' = foreground /\ core' = core
           /\ faults' \in 0..MaxFaults
           /\ failed' \subseteq {"none", "core", "process"}
<1>1. /\ thread \in [Subs -> ThreadStates]
      /\ thread[s].fd \in Fds \cup {None}
      /\ thread[s].cause \in {"none", "core", "process"}
  BY DEF TypeOK, ThreadStates
<1>2. /\ stopping \in [Subs -> BOOLEAN] /\ socket_fd \in [Subs -> Fds \cup {None}]
      /\ faults \in 0..MaxFaults /\ failed \subseteq {"none", "core", "process"}
      /\ MaxFaults \in Nat
  BY DEF TypeOK, SubscriptionAssumption
<1>3. foreground' = foreground /\ core' = core
  BY DEF Runs, Connect, Return, Store, Recheck, Request, Handshake, Check,
         ReadsEnd, Release, Close, Report, Refused, Reads, ReadsWrong, Start
<1>4. faults' = faults \/ Fault
  BY DEF Runs, Connect, Return, Store, Recheck, Request, Handshake, Check,
         ReadsEnd, Release, Close, Report, Refused, Reads, ReadsWrong, Start
<1>5. faults' \in 0..MaxFaults
  BY <1>2, <1>4 DEF Fault
<1>6. \/ failed' = failed
      \/ failed' = failed \cup {thread[s].cause}
  BY DEF Runs, Connect, Return, Store, Recheck, Request, Handshake, Check,
         ReadsEnd, Release, Close, Report, Refused, Reads, ReadsWrong, Start
<1>7. \/ socket_fd' = socket_fd
      \/ \E d \in Fds \cup {None} : socket_fd' = [socket_fd EXCEPT ![s] = d]
  BY <1>1 DEF Runs, Connect, Return, Store, Recheck, Request, Handshake, Check,
         ReadsEnd, Release, Close, Report, Refused, Reads, ReadsWrong, Start,
         Withdrawn
<1>8. \/ stopping' = stopping
      \/ stopping' = [stopping EXCEPT ![s] = TRUE]
      \/ stopping' = [stopping EXCEPT ![s] = FALSE]
  BY DEF Runs, Connect, Return, Store, Recheck, Request, Handshake, Check,
         ReadsEnd, Release, Close, Report, Refused, Reads, ReadsWrong, Start
<1>9. stopping' \in [Subs -> BOOLEAN]
  BY <1>2, <1>8
<1> QED
  BY <1>1, <1>2, <1>3, <1>5, <1>6, <1>7, <1>9

LEMMA InitType == ASSUME SubscriptionAssumption, Init PROVE TypeOK
<1>1. thread \in [Subs -> ThreadStates]
  BY IdleType DEF Init
<1>2. /\ stopping \in [Subs -> BOOLEAN] /\ socket_fd \in [Subs -> Fds \cup {None}]
      /\ file \in [Fds -> Connections \cup {NoFile}]
      /\ core \in [ring : BOOLEAN, events : BOOLEAN]
      /\ failed \subseteq {"none", "core", "process"}
  BY DEF Init
<1>3. foreground \in [at : {"run", "load", "shutdown", "join"}, sub : Subs,
                      fd : Fds \cup {None}]
  BY DEF Init, SubscriptionAssumption
<1>4. faults \in 0..MaxFaults
  BY DEF Init, SubscriptionAssumption
<1> QED
  BY <1>1, <1>2, <1>3, <1>4 DEF TypeOK, ThreadStates, Connections

LEMMA StepType ==
    ASSUME TypeOK, SubscriptionAssumption, [Next]_vars
    PROVE  TypeOK'
<1> DEFINE Foregrounds == [at : {"run", "load", "shutdown", "join"}, sub : Subs,
                           fd : Fds \cup {None}]
<1>1. ASSUME NEW s \in Subs,
             Runs(s) \/ Refused(s) \/ Reads(s) \/ ReadsWrong(s) \/ Start(s)
      PROVE  TypeOK'
  <2>1. foreground' \in Foregrounds /\ core' \in [ring : BOOLEAN, events : BOOLEAN]
    BY <1>1, RunTypeRest DEF TypeOK
  <2> QED
    BY <1>1, <2>1, RunType, RunTypeRest DEF TypeOK, ThreadStates, Connections
<1>2. ASSUME NEW s \in Subs, Stop(s)
      PROVE  TypeOK'
  <2>1. foreground' \in Foregrounds
    BY <1>2 DEF Stop
  <2>2. stopping' \in [Subs -> BOOLEAN]
    BY <1>2 DEF Stop, TypeOK
  <2> QED
    BY <1>2, <2>1, <2>2 DEF Stop, TypeOK
<1>3. CASE StopLoads
  <2>1. socket_fd[foreground.sub] \in Fds \cup {None}
    BY DEF TypeOK
  <2>2. foreground' \in Foregrounds
    BY <1>3, <2>1 DEF StopLoads, TypeOK
  <2> QED
    BY <1>3, <2>2 DEF StopLoads, TypeOK
<1>4. CASE StopShuts
  <2>1. file' \in [Fds -> Connections \cup {NoFile}]
    BY <1>4, ShutKeepsOwners
  <2>2. foreground' \in Foregrounds
    BY <1>4 DEF StopShuts, TypeOK
  <2> QED
    BY <1>4, <2>1, <2>2 DEF StopShuts, TypeOK, Connections
<1>5. CASE StopJoins
  <2>1. thread' \in [Subs -> ThreadStates]
    BY <1>5, IdleType DEF StopJoins, TypeOK, ThreadStates
  <2>2. foreground' \in Foregrounds
    BY <1>5 DEF StopJoins, SubscriptionAssumption
  <2> QED
    BY <1>5, <2>1, <2>2 DEF StopJoins, TypeOK, ThreadStates
<1>6. ASSUME NEW d \in Fds, HangUp(d)
      PROVE  TypeOK'
  <2>1. file' \in [Fds -> Connections \cup {NoFile}]
    BY <1>6, HangUpKeepsOwners
  <2>2. faults' \in 0..MaxFaults
    BY <1>6 DEF HangUp, Fault, TypeOK, SubscriptionAssumption
  <2> QED
    BY <1>6, <2>1, <2>2 DEF HangUp, TypeOK, Connections
<1>7. CASE UNCHANGED vars
  BY <1>7 DEF vars, TypeOK
<1> QED
  BY <1>1, <1>2, <1>3, <1>4, <1>5, <1>6, <1>7 DEF Next, Stops

(* Type correctness, for any number of descriptors and faults. *)
THEOREM TypeCorrect == Spec => []TypeOK
<1>1. Init => TypeOK
  BY InitType, SubscriptionAssumption
<1>2. TypeOK /\ [Next]_vars => TypeOK'
  BY StepType, SubscriptionAssumption
<1> QED
  BY <1>1, <1>2, PTL DEF Spec

-----------------------------------------------------------------------------
(* Descriptors. *)

(* With the types, the inductive invariant. *)
Descriptors == PublishedIsOpen /\ NothingRetained /\ Local

LEMMA InitDescriptors == ASSUME SubscriptionAssumption, Init PROVE Descriptors
<1>1. \A s \in Subs : /\ thread[s].fd = None /\ thread[s].at \notin Busy
                      /\ socket_fd[s] = None
  BY DEF Init, Started, Idle, Busy
<1>2. \A f \in Fds : file[f] = NoFile
  BY DEF Init
<1> QED
  BY <1>1, <1>2 DEF Descriptors, PublishedIsOpen, NothingRetained, Local

(* Most steps only move a thread from one place to another that holds a    *)
(* number alike, and leave the table's owners alone.                       *)
LEMMA Moves ==
    ASSUME TypeOK, TypeOK', Descriptors, socket_fd' = socket_fd,
           \A f \in Fds : /\ file'[f] = NoFile <=> file[f] = NoFile
                          /\ file[f] # NoFile => file'[f].owner = file[f].owner,
           \A s \in Subs : /\ thread'[s].fd = thread[s].fd
                           /\ thread'[s].at \in Busy <=> thread[s].at \in Busy
                           /\ \/ thread'[s].at \notin {"store", "close"}
                              \/ thread'[s].at = thread[s].at
    PROVE  Descriptors'
<1>1. \A s \in Subs : /\ thread[s].fd \in Fds \cup {None}
                      /\ socket_fd[s] \in Fds \cup {None}
  BY DEF TypeOK
<1>2. \A f \in Fds : file[f] # NoFile => file[f].owner \in Subs
  BY DEF TypeOK
<1>3. PublishedIsOpen'
  BY <1>1 DEF Descriptors, PublishedIsOpen, Own
<1>4. NothingRetained'
  BY <1>2 DEF Descriptors, NothingRetained
<1>5. Local'
  BY <1>1 DEF Descriptors, Local
<1> QED
  BY <1>3, <1>4, <1>5 DEF Descriptors

(* Connect takes a number nobody holds: a held number is not free. *)
LEMMA ConnectDescriptors ==
    ASSUME TypeOK, TypeOK', SubscriptionAssumption, Descriptors,
           NEW s \in Subs, Connect(s)
    PROVE  Descriptors'
<1>1. PICK f \in Free :
         /\ file' = [file EXCEPT ![f] = [owner |-> s, shut |-> FALSE, gone |-> FALSE]]
         /\ thread' = [thread EXCEPT ![s].at = "store", ![s].fd = f, ![s].again = TRUE]
  BY DEF Connect
<1>2. f \in Fds /\ f # None /\ file[f] = NoFile
  BY DEF Free, SubscriptionAssumption, None
<1>3. /\ thread'[s].fd = f /\ thread'[s].at = "store"
      /\ \A t \in Subs \ {s} : thread'[t] = thread[t]
  BY <1>1 DEF TypeOK
<1>4. /\ file'[f] # NoFile /\ file'[f].owner = s
      /\ \A g \in Fds \ {f} : file'[g] = file[g]
  <2>1. [owner |-> s, shut |-> FALSE, gone |-> FALSE] \in Connections
    BY DEF Connections
  <2>2. [owner |-> s, shut |-> FALSE, gone |-> FALSE] # NoFile
    BY <2>1 DEF SubscriptionAssumption, Connections
  <2> QED
    BY <1>1, <1>2, <2>2 DEF TypeOK
<1>5. socket_fd' = socket_fd /\ thread[s].at = "top"
  BY DEF Connect
<1>6. thread[s].fd = None /\ socket_fd[s] = None
  BY <1>5 DEF Descriptors, Local, Busy
<1>7. \A t \in Subs : /\ thread[t].fd \in Fds \cup {None}
                      /\ socket_fd[t] \in Fds \cup {None}
  BY DEF TypeOK
<1>8. PublishedIsOpen'
  <2>1. \A t \in Subs : thread'[t].fd # None =>
           file'[thread'[t].fd] # NoFile /\ file'[thread'[t].fd].owner = t
    <3>1. \A t \in Subs : thread[t].fd # None =>
             /\ thread[t].fd \in Fds \ {f}
             /\ file[thread[t].fd] # NoFile /\ file[thread[t].fd].owner = t
      BY <1>2, <1>7 DEF Descriptors, PublishedIsOpen, Own
    <3>2. ASSUME NEW t \in Subs, thread'[t].fd # None
          PROVE  file'[thread'[t].fd] # NoFile /\ file'[thread'[t].fd].owner = t
      <4>1. CASE t = s
        BY <1>3, <1>4, <4>1
      <4>2. CASE t # s
        <5>1. thread'[t].fd = thread[t].fd /\ thread[t].fd # None
          BY <1>3, <3>2, <4>2
        <5>2. file'[thread[t].fd] = file[thread[t].fd]
          BY <1>4, <3>1, <5>1
        <5> QED
          BY <3>1, <5>1, <5>2
      <4> QED
        BY <4>1, <4>2
    <3> QED
      BY <3>2
  <2>2. \A t \in Subs : socket_fd'[t] # None =>
           file'[socket_fd'[t]] # NoFile /\ file'[socket_fd'[t]].owner = t
    <3>1. \A t \in Subs : socket_fd[t] # None =>
             /\ socket_fd[t] \in Fds \ {f}
             /\ file[socket_fd[t]] # NoFile /\ file[socket_fd[t]].owner = t
      BY <1>2, <1>7 DEF Descriptors, PublishedIsOpen
    <3>2. ASSUME NEW t \in Subs, socket_fd'[t] # None
          PROVE  file'[socket_fd'[t]] # NoFile /\ file'[socket_fd'[t]].owner = t
      <4>1. socket_fd'[t] = socket_fd[t] /\ socket_fd[t] # None
        BY <1>5, <3>2
      <4>2. file'[socket_fd[t]] = file[socket_fd[t]]
        BY <1>4, <3>1, <4>1
      <4> QED
        BY <3>1, <4>1, <4>2
    <3> QED
      BY <3>2
  <2> QED
    BY <2>1, <2>2 DEF PublishedIsOpen, Own
<1>9. NothingRetained'
  <2>1. \A g \in Fds : file[g] # NoFile => file[g].owner \in Subs
    BY DEF TypeOK
  <2>2. ASSUME NEW g \in Fds, file'[g] # NoFile
        PROVE  thread'[file'[g].owner].fd = g
    <3>1. CASE g = f
      BY <1>3, <1>4, <3>1
    <3>2. CASE g # f
      <4>1. file'[g] = file[g] /\ thread[file[g].owner].fd = g
        BY <1>4, <2>2, <3>2 DEF Descriptors, NothingRetained
      <4>2. file[g].owner # s
        BY <1>6, <4>1 DEF SubscriptionAssumption, None
      <4> QED
        BY <1>3, <2>1, <2>2, <4>1, <4>2
    <3> QED
      BY <3>1, <3>2
  <2> QED
    BY <2>2 DEF NothingRetained
<1>10. Local'
  <2>1. \A t \in Subs : thread'[t].fd # None <=> thread'[t].at \in Busy
    BY <1>2, <1>3 DEF Descriptors, Local, Busy
  <2>2. \A t \in Subs : socket_fd'[t] # None =>
           /\ socket_fd'[t] = thread'[t].fd
           /\ thread'[t].at \notin {"store", "close"}
    BY <1>3, <1>5, <1>6 DEF Descriptors, Local
  <2> QED
    BY <2>1, <2>2 DEF Local
<1> QED
  BY <1>8, <1>9, <1>10 DEF Descriptors

(* Store publishes the number the thread holds, ... *)
LEMMA StoreDescriptors ==
    ASSUME TypeOK, TypeOK', Descriptors, NEW s \in Subs, Store(s)
    PROVE  Descriptors'
<1>1. /\ thread'[s].fd = thread[s].fd /\ thread[s].at = "store"
      /\ thread'[s].at \in {"recheck", "request"}
      /\ \A t \in Subs \ {s} : thread'[t] = thread[t]
  BY DEF Store, Goes, TypeOK
<1>2. /\ socket_fd'[s] = thread[s].fd /\ file' = file
      /\ \A t \in Subs \ {s} : socket_fd'[t] = socket_fd[t]
  BY DEF Store, TypeOK
<1>3. PublishedIsOpen'
  BY <1>1, <1>2 DEF Descriptors, PublishedIsOpen, Own
<1>4. NothingRetained'
  BY <1>1, <1>2 DEF Descriptors, NothingRetained, TypeOK
<1>5. Local'
  BY <1>1, <1>2 DEF Descriptors, Local, Busy
<1> QED
  BY <1>3, <1>4, <1>5 DEF Descriptors

(* ... Release withdraws it, ... *)
LEMMA ReleaseDescriptors ==
    ASSUME TypeOK, TypeOK', Descriptors, NEW s \in Subs, Release(s)
    PROVE  Descriptors'
<1>1. /\ thread'[s].fd = thread[s].fd /\ thread[s].at = "release"
      /\ thread'[s].at = "close"
      /\ \A t \in Subs \ {s} : thread'[t] = thread[t]
  BY DEF Release, Goes, TypeOK
<1>2. /\ socket_fd'[s] = None /\ file' = file
      /\ \A t \in Subs \ {s} : socket_fd'[t] = socket_fd[t]
  BY DEF Release, Withdrawn, TypeOK
<1>3. PublishedIsOpen'
  BY <1>1, <1>2 DEF Descriptors, PublishedIsOpen, Own
<1>4. NothingRetained'
  BY <1>1, <1>2 DEF Descriptors, NothingRetained, TypeOK
<1>5. Local'
  BY <1>1, <1>2 DEF Descriptors, Local, Busy
<1> QED
  BY <1>3, <1>4, <1>5 DEF Descriptors

(* ... and Close frees it: no other thread holds it, because the entry     *)
(* names its one owner.                                                    *)
LEMMA CloseDescriptors ==
    ASSUME TypeOK, TypeOK', SubscriptionAssumption, Descriptors,
           NEW s \in Subs, Close(s)
    PROVE  Descriptors'
<1> DEFINE d == thread[s].fd
<1>1. /\ thread[s].at = "close" /\ socket_fd' = socket_fd
      /\ file' = [file EXCEPT ![d] = NoFile]
  BY DEF Close, Closed
<1>2. /\ d \in Fds /\ file[d] # NoFile /\ file[d].owner = s
      /\ socket_fd[s] = None
  <2>1. d # None /\ socket_fd[s] = None
    BY <1>1 DEF Descriptors, Local, Busy
  <2>2. d \in Fds \cup {None}
    BY DEF TypeOK
  <2> QED
    BY <2>1, <2>2 DEF Descriptors, PublishedIsOpen, Own
<1>3. /\ thread'[s].fd = None /\ thread'[s].at \in {"top", "report"}
      /\ \A t \in Subs \ {s} : thread'[t] = thread[t]
  BY DEF Close, TypeOK
<1>4. file'[d] = NoFile /\ \A g \in Fds \ {d} : file'[g] = file[g]
  BY <1>1, <1>2 DEF TypeOK
<1>5. \A t \in Subs : /\ thread[t].fd \in Fds \cup {None}
                      /\ socket_fd[t] \in Fds \cup {None}
  BY DEF TypeOK
<1> HIDE DEF d
<1>6. \A t \in Subs \ {s} :
         /\ thread[t].fd # None =>
               /\ thread[t].fd \in Fds \ {d}
               /\ file[thread[t].fd] # NoFile /\ file[thread[t].fd].owner = t
         /\ socket_fd[t] # None =>
               /\ socket_fd[t] \in Fds \ {d}
               /\ file[socket_fd[t]] # NoFile /\ file[socket_fd[t]].owner = t
  BY <1>2, <1>5 DEF Descriptors, PublishedIsOpen, Own
<1>7. PublishedIsOpen'
  <2>1. ASSUME NEW t \in Subs, thread'[t].fd # None
        PROVE  file'[thread'[t].fd] # NoFile /\ file'[thread'[t].fd].owner = t
    <3>1. t # s /\ thread'[t].fd = thread[t].fd
      BY <1>3, <2>1
    <3>2. thread[t].fd \in Fds \ {d}
      BY <1>6, <2>1, <3>1
    <3>3. file'[thread[t].fd] = file[thread[t].fd]
      BY <1>4, <3>2
    <3> QED
      BY <1>6, <2>1, <3>1, <3>3
  <2>2. ASSUME NEW t \in Subs, socket_fd'[t] # None
        PROVE  file'[socket_fd'[t]] # NoFile /\ file'[socket_fd'[t]].owner = t
    <3>1. t # s /\ socket_fd'[t] = socket_fd[t]
      BY <1>1, <1>2, <2>2
    <3>2. file'[socket_fd[t]] = file[socket_fd[t]]
      BY <1>4, <1>6, <2>2, <3>1
    <3> QED
      BY <1>6, <2>2, <3>1, <3>2
  <2> QED
    BY <2>1, <2>2 DEF PublishedIsOpen, Own
<1>8. NothingRetained'
  <2>1. \A g \in Fds : file[g] # NoFile => file[g].owner \in Subs
    BY DEF TypeOK
  <2>2. ASSUME NEW g \in Fds, file'[g] # NoFile
        PROVE  thread'[file'[g].owner].fd = g
    <3>1. g # d /\ file'[g] = file[g]
      BY <1>4, <2>2
    <3>2. thread[file[g].owner].fd = g
      BY <2>2, <3>1 DEF Descriptors, NothingRetained
    <3>3. file[g].owner # s
      BY <3>1, <3>2 DEF d
    <3> QED
      BY <1>3, <2>1, <2>2, <3>1, <3>2, <3>3
  <2> QED
    BY <2>2 DEF NothingRetained
<1>9. Local'
  <2>1. \A t \in Subs : thread'[t].fd # None <=> thread'[t].at \in Busy
    BY <1>3 DEF Descriptors, Local, Busy
  <2>2. \A t \in Subs : socket_fd'[t] # None =>
           /\ socket_fd'[t] = thread'[t].fd
           /\ thread'[t].at \notin {"store", "close"}
    BY <1>1, <1>2, <1>3 DEF Descriptors, Local
  <2> QED
    BY <2>1, <2>2 DEF Local
<1> QED
  BY <1>7, <1>8, <1>9 DEF Descriptors

(* The places of a thread that stays with its number, or stays without.    *)
LEMMA StaysDescriptors ==
    ASSUME TypeOK, TypeOK', Descriptors, NEW s \in Subs,
           \/ Return(s) \/ Recheck(s) \/ Request(s) \/ Handshake(s) \/ Check(s)
           \/ ReadsEnd(s) \/ Report(s) \/ Refused(s) \/ Reads(s) \/ ReadsWrong(s)
           \/ Start(s)
    PROVE  Descriptors'
<1> DEFINE In  == {"recheck", "request", "handshake", "check", "reading", "release"}
           Out == {"none", "top", "report", "done"}
<1>1. thread \in [Subs -> ThreadStates]
  BY DEF TypeOK, ThreadStates
<1>2. CASE Start(s)
  <2>1. thread[s].fd = None /\ thread[s].at = "none"
    BY <1>2 DEF Start, Descriptors, Local, Busy
  <2>2. /\ thread'[s].fd = None /\ thread'[s].at = "top"
        /\ \A t \in Subs \ {s} : thread'[t] = thread[t]
    BY <1>1, <1>2 DEF Start, Started, Idle
  <2>3. socket_fd' = socket_fd /\ file' = file
    BY <1>2 DEF Start
  <2> QED
    BY <2>1, <2>2, <2>3, Moves DEF Busy
<1>3. CASE Return(s) \/ Report(s) \/ Refused(s)
  <2>1. /\ thread'[s].fd = thread[s].fd
        /\ thread[s].at \in Out /\ thread'[s].at \in Out
        /\ \A t \in Subs \ {s} : thread'[t] = thread[t]
    BY <1>1, <1>3 DEF Return, Report, Refused, Goes, ThreadStates
  <2>2. socket_fd' = socket_fd /\ file' = file
    BY <1>3 DEF Return, Report, Refused
  <2> QED
    BY <2>1, <2>2, Moves DEF Busy
<1>4. CASE \/ Recheck(s) \/ Request(s) \/ Handshake(s) \/ Check(s)
           \/ ReadsEnd(s) \/ Reads(s) \/ ReadsWrong(s)
  <2>1. /\ thread'[s].fd = thread[s].fd
        /\ thread[s].at \in In /\ thread'[s].at \in In
        /\ \A t \in Subs \ {s} : thread'[t] = thread[t]
    <3>1. thread[s].at \in In
      BY <1>4 DEF Recheck, Request, Handshake, Check, ReadsEnd, Reads, ReadsWrong
    <3>2. \/ \E a \in In : Goes(s, a)
          \/ \E c \in {"none", "core", "process"} : EndsFor(s, c)
          \/ NoRing(s)
          \/ thread' = [thread EXCEPT ![s].at = "release", ![s].events = core.events]
          \/ thread' = [thread EXCEPT ![s].at = "check"]
      <4>1. CASE Recheck(s) \/ Check(s)
        BY <4>1 DEF Recheck, Check
      <4>2. CASE Request(s) \/ ReadsEnd(s)
        BY <4>2 DEF Request, ReadsEnd, AtFault
      <4>3. CASE Handshake(s)
        BY <4>3 DEF Handshake
      <4>4. CASE Reads(s) \/ ReadsWrong(s)
        BY <4>4 DEF Reads, ReadsWrong
      <4> QED
        BY <1>4, <4>1, <4>2, <4>3, <4>4
    <3>3. /\ thread'[s].fd = thread[s].fd /\ thread'[s].at \in In
          /\ \A t \in Subs \ {s} : thread'[t] = thread[t]
      BY <1>1, <3>2 DEF Goes, EndsFor, NoRing, ThreadStates
    <3> QED
      BY <3>1, <3>3
  <2>2. socket_fd' = socket_fd /\ file' = file
    BY <1>4 DEF Recheck, Request, Handshake, Check, ReadsEnd, Reads, ReadsWrong
  <2> QED
    BY <2>1, <2>2, Moves DEF Busy
<1> QED
  BY <1>2, <1>3, <1>4

LEMMA StepDescriptors ==
    ASSUME TypeOK, TypeOK', SubscriptionAssumption, Descriptors, [Next]_vars
    PROVE  Descriptors'
<1>1. ASSUME NEW s \in Subs,
             Runs(s) \/ Refused(s) \/ Reads(s) \/ ReadsWrong(s) \/ Start(s)
      PROVE  Descriptors'
  BY <1>1, ConnectDescriptors, StoreDescriptors, ReleaseDescriptors,
     CloseDescriptors, StaysDescriptors DEF Runs
<1>2. CASE (\E s \in Subs : Stop(s)) \/ StopLoads \/ UNCHANGED vars
  <2>1. thread' = thread /\ socket_fd' = socket_fd /\ file' = file
    BY <1>2 DEF Stop, StopLoads, vars
  <2> QED
    BY <2>1, Moves
<1>3. CASE StopShuts
  <2>1. thread' = thread /\ socket_fd' = socket_fd
    BY <1>3 DEF StopShuts
  <2> QED
    BY <1>3, <2>1, ShutKeepsOwners, Moves
<1>4. CASE StopJoins
  <2> DEFINE s == foreground.sub
  <2>1. s \in Subs /\ thread[s].at = "done"
    BY <1>4 DEF StopJoins, TypeOK
  <2>2. thread[s].fd = None
    BY <2>1 DEF Descriptors, Local, Busy
  <2>3. /\ thread'[s].fd = None /\ thread'[s].at = "none"
        /\ \A t \in Subs \ {s} : thread'[t] = thread[t]
    BY <1>4, <2>1 DEF StopJoins, Idle, TypeOK
  <2>4. socket_fd' = socket_fd /\ file' = file
    BY <1>4 DEF StopJoins
  <2> HIDE DEF s
  <2> QED
    BY <2>1, <2>2, <2>3, <2>4, Moves DEF Busy
<1>5. ASSUME NEW d \in Fds, HangUp(d)
      PROVE  Descriptors'
  <2>1. thread' = thread /\ socket_fd' = socket_fd
    BY <1>5 DEF HangUp
  <2> QED
    BY <1>5, <2>1, HangUpKeepsOwners, Moves
<1> QED
  BY <1>1, <1>2, <1>3, <1>4, <1>5 DEF Next, Stops

LEMMA Inductive == Spec => [](TypeOK /\ Descriptors)
<1>1. Init => TypeOK /\ Descriptors
  BY InitType, InitDescriptors, SubscriptionAssumption
<1>2. TypeOK /\ Descriptors /\ [Next]_vars => (TypeOK /\ Descriptors)'
  BY StepType, StepDescriptors, SubscriptionAssumption
<1> QED
  BY <1>1, <1>2, PTL DEF Spec

(* The number Stop loads refers, then, to the subscription's own           *)
(* connection, and a thread never uses another's.  By the time of shutdown *)
(* it may refer to something else: CapabilityPersists fails for it.        *)
THEOREM OwnDescriptors == Spec => []PublishedIsOpen
<1>1. Descriptors => PublishedIsOpen
  BY DEF Descriptors
<1> QED
  BY <1>1, Inductive, PTL

(* No connection is open that no thread will close: none at all once every *)
(* thread has ended, as tests/capability_subscription_test.cpp:103 expects *)
(* of the capability subscription.                                         *)
THEOREM NothingKept == Spec => []NothingRetained
<1>1. Descriptors => NothingRetained
  BY DEF Descriptors
<1> QED
  BY <1>1, Inductive, PTL

-----------------------------------------------------------------------------
(* Stop is heard: the safety half of StopReturns.                          *)

(* When Stop waits in join for a thread that is blocked in a read, that    *)
(* thread's connection has ended, and the read returns; a thread that is   *)
(* elsewhere looks at stopping_ before it blocks (protocol_ipc.cpp:728).   *)
Blocked == thread[foreground.sub].at = "reading"

StopIsHeard == foreground.at = "join" /\ Blocked => Ended(foreground.sub)

(* Why: a thread that serves has published its number, so Stop, which sets *)
(* stopping_ first, loads the number of any thread that got past the check.*)
Serving == {"recheck", "request", "handshake", "check", "reading", "release"}

Heard ==
    /\ \A s \in Subs : thread[s].at \in Serving => socket_fd[s] = thread[s].fd
    /\ foreground.at # "run" => stopping[foreground.sub]
    /\ foreground.at = "shutdown" /\ Blocked
          => foreground.fd = thread[foreground.sub].fd
    /\ StopIsHeard

(* A thread's own steps: it publishes before it serves, and enters a read  *)
(* only if it has not been told to stop; other connections stay as they    *)
(* are.                                                                    *)
LEMMA ThreadHears ==
    ASSUME TypeOK, Heard, NEW s \in Subs, foreground' = foreground,
           \A t \in Subs \ {s} : thread'[t] = thread[t] /\ socket_fd'[t] = socket_fd[t],
           foreground.at # "run" => \A t \in Subs : stopping[t] => stopping'[t],
           thread'[s].at \in Serving => socket_fd'[s] = thread'[s].fd,
           thread'[s].at = "reading" =>
              \/ thread[s].at = "reading" /\ thread'[s].fd = thread[s].fd
              \/ ~stopping[s],
           \A t \in Subs : thread[t].at = "reading" /\ thread'[t].at = "reading" =>
              file'[thread[t].fd] = file[thread[t].fd]
    PROVE  Heard'
<1> DEFINE u == foreground.sub
<1>1. u \in Subs
  BY DEF TypeOK
<1>2. \A t \in Subs : thread'[t].at \in Serving => socket_fd'[t] = thread'[t].fd
  BY DEF Heard
<1>3. foreground.at # "run" => stopping[u] /\ stopping'[u]
  BY <1>1 DEF Heard
<1>4. ASSUME foreground.at # "run", thread'[u].at = "reading"
      PROVE  /\ thread[u].at = "reading" /\ thread'[u].fd = thread[u].fd
             /\ file'[thread[u].fd] = file[thread[u].fd]
  <2>1. thread[u].at = "reading" /\ thread'[u].fd = thread[u].fd
    BY <1>1, <1>3, <1>4
  <2> QED
    BY <1>1, <1>4, <2>1
<1> QED
  BY <1>1, <1>2, <1>3, <1>4 DEF Heard, StopIsHeard, Blocked, Ended, Own

(* The steps that open and close a connection leave the others' alone.     *)
LEMMA ConnectHears ==
    ASSUME TypeOK, SubscriptionAssumption, Descriptors, Heard, NEW s \in Subs, Connect(s)
    PROVE  Heard'
<1>1. PICK f \in Free :
         /\ file' = [file EXCEPT ![f] = [owner |-> s, shut |-> FALSE, gone |-> FALSE]]
         /\ thread' = [thread EXCEPT ![s].at = "store", ![s].fd = f, ![s].again = TRUE]
  BY Zenon DEF Connect
<1>2. /\ f \in Fds /\ file[f] = NoFile
      /\ UNCHANGED <<stopping, socket_fd, foreground>>
  BY DEF Free, Connect
<1>3. /\ thread'[s].at = "store"
      /\ \A t \in Subs \ {s} : thread'[t] = thread[t]
  BY <1>1 DEF TypeOK
<1>4. \A t \in Subs : thread[t].at = "reading" => thread[t].fd # f
  BY <1>2 DEF Descriptors, PublishedIsOpen, Local, Busy, Own
<1>5. \A g \in Fds \ {f} : file'[g] = file[g]
  BY <1>1, <1>2 DEF TypeOK
<1>6. \A t \in Subs : thread[t].at = "reading" => thread[t].fd \in Fds
  BY DEF TypeOK, Descriptors, Local, Busy
<1> QED
  BY <1>2, <1>3, <1>4, <1>5, <1>6, ThreadHears DEF Serving

(* Close shuts the published number down before it forgets it.             *)
LEMMA CloseHears ==
    ASSUME TypeOK, SubscriptionAssumption, Descriptors, Heard, NEW s \in Subs, Close(s)
    PROVE  Heard'
<1> DEFINE d == thread[s].fd
<1>1. /\ thread[s].at = "close" /\ UNCHANGED <<stopping, socket_fd, foreground>>
      /\ file' = [file EXCEPT ![d] = NoFile]
  BY DEF Close, Closed
<1>2. /\ thread'[s].at \in {"top", "report"}
      /\ \A t \in Subs \ {s} : thread'[t] = thread[t]
  BY DEF Close, TypeOK
<1>3. d # None
  BY <1>1 DEF Descriptors, Local, Busy
<1>4. \A t \in Subs : thread[t].at = "reading" => thread[t].fd \in Fds /\ thread[t].fd # d
  <2>1. \A t \in Subs : thread[t].fd \in Fds \cup {None}
    BY DEF TypeOK
  <2>2. /\ d \in Fds /\ file[d].owner = s
        /\ \A t \in Subs : thread[t].at = "reading" =>
              thread[t].fd \in Fds /\ file[thread[t].fd].owner = t
    BY <1>3, <2>1 DEF Descriptors, PublishedIsOpen, Own, Local, Busy
  <2>3. ASSUME NEW t \in Subs, thread[t].at = "reading"
        PROVE  thread[t].fd \in Fds /\ thread[t].fd # d
    <3>1. t # s
      BY <1>1, <2>3
    <3>2. thread[t].fd \in Fds /\ file[thread[t].fd].owner = t
      BY <2>2, <2>3
    <3> HIDE DEF d
    <3> QED
      BY <2>2, <3>1, <3>2
  <2> QED
    BY <2>3
<1>5. \A g \in Fds \ {d} : file'[g] = file[g]
  BY <1>1 DEF TypeOK
<1> HIDE DEF d
<1> QED
  BY <1>1, <1>2, <1>4, <1>5, ThreadHears DEF Serving

(* The steps that leave the table alone.                                   *)
LEMMA OwnStepHears ==
    ASSUME TypeOK, Heard, NEW s \in Subs,
           \/ Return(s) \/ Store(s) \/ Recheck(s) \/ Request(s) \/ Handshake(s)
           \/ Check(s) \/ ReadsEnd(s) \/ Release(s) \/ Report(s) \/ Refused(s)
           \/ Reads(s) \/ ReadsWrong(s) \/ Start(s)
    PROVE  Heard'
<1>1. thread \in [Subs -> ThreadStates] /\ socket_fd \in [Subs -> Fds \cup {None}]
      /\ stopping \in [Subs -> BOOLEAN]
  BY DEF TypeOK, ThreadStates
<1>2. CASE Return(s) \/ Report(s) \/ Refused(s)
  <2>1. /\ UNCHANGED <<stopping, socket_fd, file, foreground>>
        /\ thread'[s].at \notin Serving \/ thread' = thread
        /\ \A t \in Subs \ {s} : thread'[t] = thread[t]
    BY <1>1, <1>2 DEF Return, Report, Refused, Goes, ThreadStates, Serving
  <2> QED
    BY <2>1, ThreadHears DEF Heard, Serving
<1>3. CASE Store(s)
  <2>1. /\ UNCHANGED <<stopping, file, foreground>>
        /\ thread'[s].at \in {"recheck", "request"}
        /\ socket_fd'[s] = thread'[s].fd
        /\ \A t \in Subs \ {s} : thread'[t] = thread[t] /\ socket_fd'[t] = socket_fd[t]
    BY <1>1, <1>3 DEF Store, Goes, ThreadStates
  <2> QED
    BY <2>1, ThreadHears
<1>4. CASE Release(s)
  <2>1. /\ UNCHANGED <<stopping, file, foreground>>
        /\ thread'[s].at = "close"
        /\ \A t \in Subs \ {s} : thread'[t] = thread[t] /\ socket_fd'[t] = socket_fd[t]
    BY <1>1, <1>4 DEF Release, Goes, ThreadStates
  <2> QED
    BY <2>1, ThreadHears DEF Serving
<1>5. CASE Start(s)
  <2>1. /\ UNCHANGED <<socket_fd, file, foreground>> /\ foreground.at = "run"
        /\ thread'[s].at = "top"
        /\ \A t \in Subs \ {s} : thread'[t] = thread[t]
    BY <1>1, <1>5 DEF Start, Started, Idle
  <2> QED
    BY <2>1, ThreadHears DEF Serving
<1>6. CASE Check(s)
  <2>1. /\ UNCHANGED <<stopping, socket_fd, file, foreground>>
        /\ thread[s].at = "check" /\ thread'[s].fd = thread[s].fd
        /\ thread'[s].at \in {"release", "reading"}
        /\ thread'[s].at = "reading" => ~stopping[s]
        /\ \A t \in Subs \ {s} : thread'[t] = thread[t]
    BY <1>1, <1>6 DEF Check, Goes, EndsFor, ThreadStates
  <2>2. socket_fd[s] = thread[s].fd
    BY <2>1 DEF Heard, Serving
  <2> QED
    BY <2>1, <2>2, ThreadHears
<1>7. CASE \/ Recheck(s) \/ Request(s) \/ Handshake(s)
           \/ ReadsEnd(s) \/ Reads(s) \/ ReadsWrong(s)
  <2>1. /\ UNCHANGED <<socket_fd, file, foreground>>
        /\ thread[s].at \in Serving
    BY <1>7 DEF Recheck, Request, Handshake, ReadsEnd, Reads, ReadsWrong, Serving
  <2>2. \A t \in Subs : stopping[t] => stopping'[t]
    <3>1. \/ stopping' = stopping
          \/ stopping' = [stopping EXCEPT ![s] = TRUE]
      BY <1>7 DEF Recheck, Request, Handshake, ReadsEnd, Reads, ReadsWrong
    <3> QED
      BY <1>1, <3>1
  <2>3. \/ \E a \in {"request", "handshake", "check"} : Goes(s, a)
        \/ \E c \in {"none", "core", "process"} : EndsFor(s, c)
        \/ NoRing(s)
        \/ thread' = [thread EXCEPT ![s].at = "release", ![s].events = core.events]
        \/ thread' = [thread EXCEPT ![s].at = "check"]
    <3>1. CASE Recheck(s)
      BY <3>1 DEF Recheck
    <3>2. CASE Request(s) \/ ReadsEnd(s)
      BY <3>2 DEF Request, ReadsEnd, AtFault
    <3>3. CASE Handshake(s)
      BY <3>3 DEF Handshake
    <3>4. CASE Reads(s) \/ ReadsWrong(s)
      BY <3>4 DEF Reads, ReadsWrong
    <3> QED
      BY <1>7, <3>1, <3>2, <3>3, <3>4
  <2>4. /\ thread'[s].fd = thread[s].fd /\ thread'[s].at # "reading"
        /\ \A t \in Subs \ {s} : thread'[t] = thread[t]
    BY <1>1, <2>3 DEF Goes, EndsFor, NoRing, ThreadStates
  <2>5. socket_fd[s] = thread[s].fd
    BY <2>1 DEF Heard
  <2> QED
    BY <2>1, <2>2, <2>4, <2>5, ThreadHears
<1> QED
  BY <1>2, <1>3, <1>4, <1>5, <1>6, <1>7

(* Stop: it loads the number of a thread that is blocked, and shuts it     *)
(* down while the thread has it open.                                      *)
LEMMA StopHears ==
    ASSUME TypeOK, SubscriptionAssumption, Descriptors, Heard,
           (\E s \in Subs : Stop(s)) \/ StopLoads \/ StopShuts \/ StopJoins
    PROVE  Heard'
<1> DEFINE u == foreground.sub
<1>1. u \in Subs /\ foreground \in [at : {"run", "load", "shutdown", "join"}, sub : Subs,
                                    fd : Fds \cup {None}]
  BY DEF TypeOK
<1>2. ASSUME NEW s \in Subs, Stop(s)
      PROVE  Heard'
  <2>1. /\ foreground'.at = "load" /\ foreground'.sub = s /\ stopping'[s] = TRUE
        /\ UNCHANGED <<thread, socket_fd, file>>
    BY <1>2 DEF Stop, TypeOK
  <2> QED
    BY <2>1 DEF Heard, StopIsHeard
<1>3. CASE StopLoads
  <2>1. /\ foreground'.at = "shutdown" /\ foreground'.sub = u
        /\ foreground'.fd = socket_fd[u] /\ foreground.at = "load"
        /\ UNCHANGED <<thread, socket_fd, file, stopping>>
    BY <1>1, <1>3 DEF StopLoads
  <2>2. thread[u].at = "reading" => socket_fd[u] = thread[u].fd
    BY <1>1 DEF Heard, Serving
  <2> QED
    BY <1>1, <2>1, <2>2 DEF Heard, StopIsHeard, Blocked
<1>4. CASE StopShuts
  <2>1. /\ foreground.at = "shutdown" /\ foreground'.at = "join" /\ foreground'.sub = u
        /\ UNCHANGED <<thread, socket_fd, stopping>>
    BY <1>1, <1>4 DEF StopShuts
  <2>2. ASSUME thread[u].at = "reading"
        PROVE  file'[thread[u].fd].shut
    <3> DEFINE d == thread[u].fd
    <3>1. foreground.fd = d
      BY <2>1, <2>2 DEF Heard, Blocked
    <3>2. d # None
      BY <1>1, <2>2 DEF Descriptors, Local, Busy
    <3>3. d \in Fds /\ file[d] # NoFile
      <4>1. d \in Fds \cup {None}
        BY <1>1 DEF TypeOK
      <4> QED
        BY <1>1, <3>2, <4>1 DEF Descriptors, PublishedIsOpen, Own
    <3>4. file[d] \in Connections
      BY <3>3 DEF TypeOK, Connections
    <3>5. file' = [file EXCEPT ![d] = Shut(file[d])]
      BY <1>4, <3>1, <3>2 DEF StopShuts
    <3>6. file'[d] = [file[d] EXCEPT !.shut = TRUE]
      BY <3>3, <3>5 DEF TypeOK, Shut
    <3> HIDE DEF d
    <3>7. file'[d].shut
      BY <3>4, <3>6 DEF Connections
    <3> QED
      BY <3>7 DEF d
  <2> QED
    BY <1>1, <2>1, <2>2 DEF Heard, StopIsHeard, Blocked, Ended, Own
<1>5. CASE StopJoins
  <2>1. /\ u \in Subs /\ foreground'.at = "run" /\ UNCHANGED <<socket_fd, stopping>>
        /\ thread'[u].at = "none" /\ \A t \in Subs \ {u} : thread'[t] = thread[t]
    BY <1>1, <1>5 DEF StopJoins, Idle, TypeOK
  <2>2. \A t \in Subs : thread'[t].at \in Serving => socket_fd'[t] = thread'[t].fd
    BY <2>1 DEF Heard, Serving
  <2> QED
    BY <2>1, <2>2 DEF Heard, StopIsHeard
<1> QED
  BY <1>2, <1>3, <1>4, <1>5

(* A connection that has ended stays so when the core hangs up.            *)
LEMMA HangUpHears ==
    ASSUME TypeOK, Descriptors, Heard, NEW d \in Fds, HangUp(d)
    PROVE  Heard'
<1>1. /\ UNCHANGED <<thread, socket_fd, stopping, foreground>> /\ file[d] \in Connections
      /\ file' = [file EXCEPT ![d] = [file[d] EXCEPT !.gone = TRUE]]
  BY DEF HangUp, TypeOK, Connections
<1>2. \A f \in Fds : file[f].shut \/ file[f].gone => file'[f].shut \/ file'[f].gone
  BY <1>1 DEF TypeOK, Connections
<1>3. foreground.sub \in Subs
  BY DEF TypeOK
<1>4. thread[foreground.sub].at = "reading" => thread[foreground.sub].fd \in Fds
  BY <1>3 DEF TypeOK, Descriptors, Local, Busy
<1> QED
  BY <1>1, <1>2, <1>3, <1>4 DEF Heard, StopIsHeard, Blocked, Ended, Own

(* Every step keeps what a stop relies on.                                 *)
LEMMA StepHears ==
    ASSUME TypeOK, SubscriptionAssumption, Descriptors, Heard, [Next]_vars
    PROVE  Heard'
<1>1. ASSUME NEW s \in Subs,
             Runs(s) \/ Refused(s) \/ Reads(s) \/ ReadsWrong(s) \/ Start(s)
      PROVE  Heard'
  BY <1>1, ConnectHears, CloseHears, OwnStepHears DEF Runs
<1>2. ASSUME NEW d \in Fds, HangUp(d)
      PROVE  Heard'
  BY <1>2, HangUpHears
<1>3. CASE (\E s \in Subs : Stop(s)) \/ StopLoads \/ StopShuts \/ StopJoins
  BY <1>3, StopHears
<1>4. CASE UNCHANGED vars
  BY <1>4 DEF vars, Heard, StopIsHeard, Blocked, Ended, Own
<1> QED
  BY <1>1, <1>2, <1>3, <1>4 DEF Next, Stops

(* Stop never waits for a thread that nothing wakes: what it joins is not  *)
(* blocked, or blocked in a read of a connection that has ended.           *)
THEOREM StopHeard == Spec => []StopIsHeard
<1>1. Init => Heard
  <2> SUFFICES ASSUME Init PROVE Heard
    OBVIOUS
  <2>1. \A s \in Subs : thread[s].at \in {"none", "top"}
    BY Zenon DEF Init, Started, Idle
  <2>2. foreground.at = "run"
    BY DEF Init
  <2> QED
    BY <2>1, <2>2 DEF Heard, StopIsHeard, Serving
<1>2. TypeOK /\ Descriptors /\ Heard /\ [Next]_vars => Heard'
  BY StepHears, SubscriptionAssumption
<1>3. Heard => StopIsHeard
  BY DEF Heard
<1> QED
  BY <1>1, <1>2, <1>3, Inductive, PTL DEF Spec
=============================================================================
