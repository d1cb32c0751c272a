------------------------------ MODULE AdminHID ------------------------------
(***************************************************************************)
(* admin_hid.cpp: HID calls are HTTP requests to the core's admin API over *)
(* one connection that is kept open between them.  Two threads post, one   *)
(* at a time under mutex_.  Whatever goes wrong with a post, a wait of two *)
(* seconds among it, ends its connection; nothing is sent twice.           *)
(*                                                                         *)
(* The core is outside the repository.  It is modelled as an HTTP server   *)
(* as Post uses it: it serves each connection by itself, in the order of   *)
(* the requests on it, reads what was written before the client closed,    *)
(* and may close a connection at any time.                                 *)
(***************************************************************************)
EXTENDS Integers, Sequences

CONSTANTS Callers,     (* the threads that post                            *)
          MaxPosts,    (* bound on the posts that are made                 *)
          MaxFaults    (* bound on connections the core closes unasked,    *)
                       (* on posts it refuses and on answers it garbles    *)

ASSUME AdminAssumption == MaxPosts \in Nat /\ MaxFaults \in Nat

Posts == 1 .. MaxPosts
None  == 0
Part  == 0             (* a piece of a request                             *)

VARIABLES
    pc, post,      (* per caller: where it is in Post, and with which post *)
    socket,        (* socket_fd_: None, or the post that made the          *)
                   (* connection                                           *)
    open,          (* per connection: the core has it open                 *)
    requests, answers,            (* what is on its way, either way        *)
    task,          (* the request the core is working on, and its outcome  *)
    ended,         (* ~AdminHID has run                                    *)
    begun, applied, result,
                   (* history: posts begun, how often the core carried out *)
                   (* each, and what its caller was told                   *)
    faults, lost   (* history: what went wrong, and posts that failed      *)

local == <<pc, post>>
told  == <<begun, result, lost>>
conn  == <<open, requests, answers, task>>
vars  == <<local, socket, conn, ended, applied, told, faults>>

Answers == [to : Posts, status : BOOLEAN, close : BOOLEAN, valid : BOOLEAN]
NoTask  == [to |-> None, status |-> TRUE]

Init ==
    /\ pc = [c \in Callers |-> "idle"] /\ post = [c \in Callers |-> None]
    /\ socket = None
    /\ open = [s \in Posts |-> FALSE]
    /\ requests = [s \in Posts |-> <<>>] /\ answers = [s \in Posts |-> <<>>]
    /\ task = [s \in Posts |-> NoTask]
    /\ ended = FALSE
    /\ begun = 0 /\ applied = [n \in Posts |-> 0]
    /\ result = [n \in Posts |-> "none"]
    /\ faults = 0 /\ lost = 0

Fault == faults' = faults + 1

-----------------------------------------------------------------------------
(* Post. *)

AnyTime == TRUE                       \* faulty variant: without mutex_
Free    == \A c \in Callers : pc[c] = "idle"

Begin(c) ==
    /\ pc[c] = "idle" /\ Free /\ ~ended /\ begun < MaxPosts
    /\ begun' = begun + 1
    /\ post' = [post EXCEPT ![c] = begun + 1]
    /\ pc' = [pc EXCEPT ![c] = IF socket = None THEN "connect" ELSE "write"]
    /\ UNCHANGED <<socket, conn, ended, applied, result, faults, lost>>

Tell(c, outcome) ==
    /\ pc' = [pc EXCEPT ![c] = "idle"]
    /\ result' = [result EXCEPT ![post[c]] = outcome]
    /\ lost' = IF outcome = "failed" THEN lost + 1 ELSE lost
    /\ UNCHANGED <<post, begun>>

(* The two ways Post ends its connection: WriteAll or ParseResponse has    *)
(* failed, or the core asked for it.                                       *)
KeepSocket == UNCHANGED socket        \* faulty variant: it stays open
Close      == socket' = None

IgnoreClose(a) == UNCHANGED socket    \* faulty variant: the header is unread
CloseAsked(a)  == IF a.close THEN socket' = None ELSE UNCHANGED socket

Connect(c) ==
    /\ pc[c] = "connect"
    /\ socket' = post[c]
    /\ open' = [open EXCEPT ![post[c]] = TRUE]
    /\ pc' = [pc EXCEPT ![c] = "write"]
    /\ UNCHANGED <<post, requests, answers, task, ended, applied, told, faults>>

ConnectFails(c) ==
    /\ pc[c] = "connect"
    /\ Fault /\ Tell(c, "failed")
    /\ UNCHANGED <<socket, conn, ended, applied>>

Sent(s, request) == /\ requests' = [requests EXCEPT ![s] = Append(@, request)]
                    /\ UNCHANGED <<open, answers, task>>

Write(c) ==
    /\ pc[c] = "write" /\ open[socket]
    /\ Sent(socket, post[c])
    /\ pc' = [pc EXCEPT ![c] = "read"]
    /\ UNCHANGED <<post, socket, ended, applied, told, faults>>

(* WriteAll times out in the middle of the request. *)
WriteTimesOut(c) ==
    /\ pc[c] = "write" /\ open[socket]
    /\ Sent(socket, Part)
    /\ Close /\ Fault /\ Tell(c, "failed")
    /\ UNCHANGED <<ended, applied>>

(* The connection was closed while nobody used it. *)
WriteFails(c) ==
    /\ pc[c] = "write" /\ ~open[socket]
    /\ Close /\ Tell(c, "failed")
    /\ UNCHANGED <<conn, ended, applied, faults>>

(* ParseResponse, and the end of Post. *)
Read(c) ==
    /\ pc[c] = "read" /\ answers[socket] # <<>>
    /\ LET a == Head(answers[socket])
       IN IF ~a.valid THEN Close /\ Tell(c, "failed")
          ELSE /\ CloseAsked(a)
               /\ Tell(c, IF a.status THEN "sent" ELSE "failed")
    /\ answers' = [answers EXCEPT ![socket] = Tail(@)]
    /\ UNCHANGED <<open, requests, task, ended, applied, faults>>

ReadFails(c) ==
    /\ pc[c] = "read" /\ answers[socket] = <<>> /\ ~open[socket]
    /\ Close /\ Tell(c, "failed")
    /\ UNCHANGED <<conn, ended, applied, faults>>

NeverTimesOut == FALSE                \* faulty variant: poll waits for ever
MayTimeOut    == TRUE

ReadTimesOut(c) ==
    /\ pc[c] = "read" /\ answers[socket] = <<>> /\ open[socket]
    /\ MayTimeOut
    /\ Close /\ Fault /\ Tell(c, "failed")
    /\ UNCHANGED <<conn, ended, applied>>

(* ~AdminHID; its callers have gone by then. *)
Destroy ==
    /\ Free /\ ~ended
    /\ ended' = TRUE /\ Close
    /\ UNCHANGED <<local, conn, applied, told, faults>>

-----------------------------------------------------------------------------
(* The core. *)

Reading(s) == /\ open[s] /\ task[s] = NoTask
              /\ requests[s] # <<>> /\ Head(requests[s]) # Part

Took(s, status) ==
    /\ requests' = [requests EXCEPT ![s] = Tail(@)]
    /\ task' = [task EXCEPT ![s] = [to |-> Head(requests[s]), status |-> status]]
    /\ UNCHANGED <<open, answers>>

CarryOut(s) ==
    /\ Reading(s)
    /\ Took(s, TRUE)
    /\ applied' = [applied EXCEPT ![Head(requests[s])] = @ + 1]
    /\ UNCHANGED <<local, socket, ended, told, faults>>

Refuse(s) ==
    /\ Reading(s) /\ faults < MaxFaults
    /\ Took(s, FALSE) /\ Fault
    /\ UNCHANGED <<local, socket, ended, applied, told>>

(* An answer may end the connection, as its header then says.  It reaches  *)
(* nobody when the client has closed.                                      *)
Answer(s, valid, close) ==
    /\ open[s] /\ task[s] # NoTask
    /\ task' = [task EXCEPT ![s] = NoTask]
    /\ open' = [open EXCEPT ![s] = ~close]
    /\ answers' = IF s # socket THEN answers ELSE
          [answers EXCEPT ![s] = Append(@, [to |-> task[s].to, close |-> close,
                                            status |-> task[s].status,
                                            valid |-> valid])]
    /\ IF valid THEN UNCHANGED faults ELSE faults < MaxFaults /\ Fault
    /\ UNCHANGED <<local, socket, requests, ended, applied, told>>

(* An idle or broken connection, or a core that ends or crashes: what it   *)
(* has not read is gone.                                                   *)
HangUp(s) ==
    /\ open[s] /\ faults < MaxFaults
    /\ open' = [open EXCEPT ![s] = FALSE]
    /\ requests' = [requests EXCEPT ![s] = <<>>]
    /\ task' = [task EXCEPT ![s] = NoTask]
    /\ Fault
    /\ UNCHANGED <<local, socket, answers, ended, applied, told>>

-----------------------------------------------------------------------------
Goes(c) ==   (* a post goes on *)
    \/ Connect(c) \/ ConnectFails(c) \/ Write(c) \/ WriteTimesOut(c)
    \/ WriteFails(c) \/ Read(c) \/ ReadFails(c) \/ ReadTimesOut(c)

Core(s) == \/ CarryOut(s) \/ Refuse(s) \/ HangUp(s)
           \/ \E valid, close \in BOOLEAN : Answer(s, valid, close)

Next == \/ \E c \in Callers : Begin(c) \/ Goes(c)
        \/ \E s \in Posts : Core(s)
        \/ Destroy

Spec == Init /\ [][Next]_vars

(* A thread goes on; waiting for the core ends after two seconds, so the   *)
(* core owes nothing.                                                      *)
FairSpec == Spec /\ \A c \in Callers : WF_vars(Goes(c))

-----------------------------------------------------------------------------
(* Properties. *)

AtMostOne(S) == {<<>>} \cup {<<x>> : x \in S}

(* The type invariant: among the rest, a connection never carries more     *)
(* than one request and one answer.                                        *)
TypeOK ==
    /\ pc \in [Callers -> {"idle", "connect", "write", "read"}]
    /\ post \in [Callers -> Posts \cup {None}]
    /\ socket \in Posts \cup {None}
    /\ open \in [Posts -> BOOLEAN]
    /\ requests \in [Posts -> AtMostOne(Posts \cup {Part})]
    /\ answers \in [Posts -> AtMostOne(Answers)]
    /\ task \in [Posts -> [to : Posts \cup {None}, status : BOOLEAN]]
    /\ ended \in BOOLEAN
    /\ begun \in 0 .. MaxPosts /\ applied \in [Posts -> {0, 1}]
    /\ result \in [Posts -> {"none", "sent", "failed"}]
    /\ faults \in Nat /\ lost \in Nat

(* A connection that is kept for the next post has nothing on its way in   *)
(* either direction: a late answer is never taken for that of a later post *)
(* (Post closes it after every failure, admin_hid.cpp:237-247).            *)
NothingOutstanding ==
    Free /\ socket # None =>
        /\ requests[socket] = <<>> /\ answers[socket] = <<>>
        /\ task[socket] = NoTask

(* One thing that goes wrong loses at most one post: a kept connection     *)
(* that the core has closed is found out by one post and replaced for the  *)
(* next one (Post, Connect).                                               *)
LostPerFault == lost <= faults

Posting == {post[c] : c \in {d \in Callers : pc[d] # "idle"}}

(* What its caller was told has failed, and the core may yet read. *)
Doubtful == {n \in Posts : result[n] = "failed" /\ \E s \in Posts : requests[s] = <<n>>}

Channel == INSTANCE HIDChannel WITH posting <- Posting, doubtful <- Doubtful

(* AdminHID implements HIDChannel: connections that end at any point make  *)
(* it neither repeat a post nor report one that was not carried out.       *)
ImplementsChannel == Channel!Spec

(* "A HID call ends" is what InputState's fairness assumes of SendKeyboard *)
(* and SendMouse (WaitFor's timeout, admin_hid.cpp:24).                    *)
PostReturns == \A c \in Callers : pc[c] # "idle" ~> pc[c] = "idle"
=============================================================================
