----------------------------- MODULE InputState -----------------------------
(***************************************************************************)
(* InputState of vnc_server.cpp: two threads share the viewers' input.     *)
(*                                                                         *)
(* The foreground thread runs LibVNCServer's callbacks (Key, Pointer) and  *)
(* ClientGone's Release, one call at a time.  The pointer thread runs      *)
(* PointerLoop: it sends urgent reports at once and coalesced movement at  *)
(* a fixed cadence, and makes its HID calls outside pointer_mutex_.  Each  *)
(* action is one critical section, one HID call or one condition-variable  *)
(* step of one thread.  A definition marked as a faulty variant is no part *)
(* of the specification: put in place of the one after it, it shows that a *)
(* property notices the mistake.                                           *)
(***************************************************************************)
EXTENDS HIDReports, FiniteSets

CONSTANTS Keysyms,       (* RFB key symbols                                 *)
          ModifierOf,    (* keyToMod: the modifier bit of a keysym          *)
          NoModifier,    (* keyToMod's 0                                    *)
          UsageOf,       (* keyToScancode: the HID usage, 0 for none        *)
          Rollover,      (* keys in a report: 6 in SendKeyboard             *)
          Buttons,       (* button masks a viewer can send                  *)
          Wheels,        (* wheel steps a viewer can send: up, none, down   *)
          Positions,     (* absolute positions, clamped and scaled          *)
          Origin,        (* position (0, 0), where pointer_x_/y_ start      *)
          MaxViewers,    (* bound on connected viewers                      *)
          MaxGeneration, (* bound on pointer events                         *)
          MaxLost,       (* bound on HID posts that fail                    *)
          EarlyStart     (* the new thread may run before the constructor   *)
                         (* has initialized the members after it            *)

ASSUME ConstantsAssumption ==
    /\ Keysyms # {}
    /\ UsageOf \in [Keysyms -> Nat]
    /\ Rollover \in Nat \ {0}
    /\ NoButtons \in Buttons
    /\ 0 \in Wheels /\ Wheels \subseteq {-1, 0, 1}
    /\ Origin \in Positions
    /\ EarlyStart \in BOOLEAN

VARIABLES
    viewers,     (* clients_: viewers connected                             *)
    closing,     (* the destructor is running                               *)
    pc,          (* the foreground thread's next step; "idle" between calls *)
    after,       (* the step that follows FlushPointer                      *)
    arg,         (* the event a Key call was given                          *)
    target,      (* FlushPointer's snapshot of the generation               *)
    flushed,     (* pointer_flushed_ was signalled to the waiting flush     *)
    modifiers, keys,              (* modifiers_ and the keysyms of keys_    *)
    pending, buttons, position, urgent, generation, completed, stopping,
                 (* the pointer_ members that pointer_mutex_ protects       *)
    thread,      (* where the pointer thread is                             *)
    notified,    (* pointer_changed_ was signalled while it waited          *)
    due,         (* now >= next_flush                                       *)
    report,      (* the generation of the report it is sending              *)
    wire,        (* the posts of that report still to be made               *)
    host,        (* what the controlled host has received                   *)
    lost,        (* HID posts that failed                                   *)
    scrolled     (* history: wheel ticks the viewers have asked for         *)

session  == <<viewers, closing>>
call     == <<pc, after, arg, target, flushed>>
keyboard == <<modifiers, keys>>
input    == <<pending, buttons, position, urgent, generation, scrolled>>
loop     == <<thread, notified, due, report, wire>>
hid      == <<host, lost>>
vars == <<session, call, keyboard, input, completed, stopping, loop, hid>>

Modifiers  == {ModifierOf[k] : k \in Keysyms} \ {NoModifier}
TypedKeys  == {k \in Keysyms : ModifierOf[k] = NoModifier /\ UsageOf[k] # 0}
Usages     == {UsageOf[k] : k \in TypedKeys}
KeyEvents  == [down : BOOLEAN, key : Keysyms]
NoKeyEvent == [down |-> FALSE, key |-> CHOOSE k \in Keysyms : TRUE]
Work       == pending \/ urgent # <<>>

(* pointer_thread_ is declared before stopping and pending, so they hold   *)
(* what the memory held when the thread may already be running.            *)
Init ==
    /\ viewers = 0 /\ closing = FALSE
    /\ pc = "construct" /\ after = "idle" /\ arg = NoKeyEvent
    /\ target = 0 /\ flushed = FALSE /\ modifiers = {} /\ keys = {}
    /\ stopping \in BOOLEAN /\ pending \in BOOLEAN
    /\ buttons = NoButtons /\ position = Origin /\ urgent = <<>>
    /\ generation = 0 /\ completed = 0 /\ scrolled = 0
    /\ thread = "check" /\ notified = FALSE /\ due = FALSE
    /\ report = 0 /\ wire = <<>>
    /\ host \in [buttons : {NoButtons}, position : Positions, scroll : {0},
                 modifiers : {{}}, usages : {{}}]
    /\ lost = 0

-----------------------------------------------------------------------------
(* Shared by the steps. *)

(* pointer_changed_.notify_one(): a signal nobody waits for is lost. *)
NotifyNobody  == UNCHANGED notified      \* faulty variant: forgotten
NotifyPointer == notified' = (notified \/ thread \in {"asleep", "timed"})

(* A HID call reaches the host, or fails and is only logged. *)
Delivered(next) ==
    \/ host' = next /\ UNCHANGED lost
    \/ lost < MaxLost /\ lost' = lost + 1 /\ UNCHANGED host

(* A transition or tick supersedes the movement that waits before it. *)
LeaveMovement     == UNCHANGED pending   \* faulty variant: it does not
SupersedeMovement == pending' = FALSE

PushUrgent(b, p, w) ==
    /\ buttons' = b /\ position' = p
    /\ generation' = generation + 1
    /\ SupersedeMovement
    /\ urgent' = Append(urgent, [buttons |-> b, position |-> p, wheel |-> w,
                                 generation |-> generation'])

CoalesceMovement(p) ==
    /\ position' = p
    /\ generation' = generation + 1
    /\ pending' = TRUE
    /\ UNCHANGED <<buttons, urgent>>

-----------------------------------------------------------------------------
(* The foreground thread. *)

(* The members declared after pointer_thread_ get their initial values. *)
FinishConstruction ==
    /\ pc = "construct"
    /\ pc' = "idle"
    /\ stopping' = FALSE /\ pending' = FALSE /\ buttons' = NoButtons
    /\ position' = Origin /\ urgent' = <<>> /\ generation' = 0 /\ completed' = 0
    /\ UNCHANGED <<session, after, arg, target, flushed, keyboard, scrolled, loop, hid>>

NewClient ==
    /\ pc = "idle" /\ ~closing /\ viewers < MaxViewers
    /\ viewers' = viewers + 1
    /\ UNCHANGED <<closing, call, keyboard, input, completed, stopping, loop, hid>>

(* What must be sent in order and cannot share the slot for movement. *)
ChangesButtons(b, w) == b # buttons      \* faulty variant: ticks coalesce
IsUrgent(b, w)       == b # buttons \/ w # 0

(* Pointer, up to its unlock. *)
Pointer(b, p, w) ==
    /\ pc = "idle" /\ viewers > 0 /\ generation < MaxGeneration
    /\ IF IsUrgent(b, w) THEN PushUrgent(b, p, w) ELSE CoalesceMovement(p)
    /\ scrolled' = scrolled + w
    /\ pc' = "notify"
    /\ UNCHANGED <<session, after, arg, target, flushed, keyboard, completed,
                   stopping, loop, hid>>

(* Key, ClientGone (the last viewer's) and ~InputState start with a flush. *)
Key(down, k) ==
    /\ pc = "idle" /\ viewers > 0
    /\ pc' = "flush" /\ after' = "key" /\ arg' = [down |-> down, key |-> k]
    /\ UNCHANGED <<session, target, flushed, keyboard, input, completed,
                   stopping, loop, hid>>

ClientGone ==
    /\ pc = "idle" /\ viewers > 0
    /\ viewers' = viewers - 1
    /\ IF viewers' = 0 THEN pc' = "flush" /\ after' = "release"
                       ELSE UNCHANGED <<pc, after>>
    /\ UNCHANGED <<closing, arg, target, flushed, keyboard, input, completed,
                   stopping, loop, hid>>

Destroy ==
    /\ pc = "idle" /\ viewers = 0
    /\ closing' = TRUE
    /\ pc' = "flush" /\ after' = "release"
    /\ UNCHANGED <<viewers, arg, target, flushed, keyboard, input, completed,
                   stopping, loop, hid>>

AwaitsUrgent == generation > completed /\ ~pending   \* faulty variant
MustAwait    == generation > completed

(* FlushPointer(true): the snapshot, the signal and the first look. *)
Flush ==
    /\ pc = "flush"
    /\ IF Work THEN NotifyPointer ELSE UNCHANGED notified
    /\ IF MustAwait THEN pc' = "wait" /\ target' = generation
                    ELSE pc' = after /\ target' = 0
    /\ flushed' = FALSE
    /\ UNCHANGED <<session, after, arg, keyboard, input, completed, stopping,
                   thread, due, report, wire, hid>>

(* pointer_flushed_ woke FlushPointer: its predicate, again. *)
FlushWake ==
    /\ pc = "wait" /\ flushed
    /\ IF stopping \/ completed >= target THEN pc' = after /\ target' = 0
                                          ELSE UNCHANGED <<pc, target>>
    /\ flushed' = FALSE
    /\ UNCHANGED <<session, after, arg, keyboard, input, completed, stopping,
                   loop, hid>>

(* SendKeyboard's list: the Rollover smallest usages, sorted with repeats. *)
Reported(held) ==
    {u \in {UsageOf[k] : k \in held} :
        Cardinality({k \in held : UsageOf[k] < u}) < Rollover}

(* Which keysyms Key enters in keys_. *)
IsTyped(k) == k \in TypedKeys

(* keys_ and modifiers_ after Key; a keysym that is neither is ignored. *)
ChangedKeys ==
    IF ~IsTyped(arg.key) THEN keys
    ELSE IF arg.down THEN keys \cup {arg.key} ELSE keys \ {arg.key}

ChangedModifiers ==
    LET m == ModifierOf[arg.key]
    IN IF m = NoModifier THEN modifiers
       ELSE IF arg.down THEN modifiers \cup {m} ELSE modifiers \ {m}

ApplyKey ==
    /\ pc = "key"
    /\ keys' = ChangedKeys /\ modifiers' = ChangedModifiers
    /\ IF arg.key \in TypedKeys \/ ModifierOf[arg.key] # NoModifier
       THEN Delivered(AfterKeyboard(host, modifiers', Reported(keys')))
       ELSE UNCHANGED hid
    /\ pc' = "idle" /\ after' = "idle" /\ arg' = NoKeyEvent
    /\ UNCHANGED <<session, target, flushed, input, completed, stopping, loop>>

NothingHeld == FALSE                     \* faulty variant: buttons forgotten
ButtonsHeld == buttons # NoButtons

(* Release, between its flushes: an urgent report lets go of the buttons. *)
ReleaseButtons ==
    /\ pc = "release"
    /\ IF ButtonsHeld
       THEN /\ PushUrgent(NoButtons, position, 0)
            /\ pc' = "renotify" /\ after' = "keys"
       ELSE /\ pc' = "keys"
            /\ UNCHANGED <<after, pending, buttons, position, urgent, generation>>
    /\ UNCHANGED <<session, arg, target, flushed, keyboard, completed, stopping,
                   loop, hid, scrolled>>

(* The rest of Release: the keyboard. *)
ReleaseKeys ==
    /\ pc = "keys"
    /\ modifiers' = {} /\ keys' = {}
    /\ IF modifiers # {} \/ keys # {} THEN Delivered(AfterKeyboard(host, {}, {}))
                                      ELSE UNCHANGED hid
    /\ pc' = (IF closing THEN "stop" ELSE "idle") /\ after' = "idle"
    /\ UNCHANGED <<session, arg, target, flushed, input, completed, stopping, loop>>

(* The rest of ~InputState: stop the pointer thread, signal it, join it. *)
Stop ==
    /\ pc = "stop"
    /\ stopping' = TRUE
    /\ pc' = "stopnotify"
    /\ UNCHANGED <<session, after, arg, target, flushed, keyboard, input,
                   completed, loop, hid>>

(* The callers of notify_one, which signal once they have unlocked, and    *)
(* where each goes on.                                                     *)
AfterNotify == [notify |-> "idle", renotify |-> "flush", stopnotify |-> "join"]

Notify ==
    /\ pc \in DOMAIN AfterNotify
    /\ NotifyPointer
    /\ pc' = AfterNotify[pc]
    /\ UNCHANGED <<session, after, arg, target, flushed, keyboard, input,
                   completed, stopping, thread, due, report, wire, hid>>

Join ==
    /\ pc = "join" /\ thread = "done"
    /\ pc' = "joined"
    /\ UNCHANGED <<session, after, arg, target, flushed, keyboard, input,
                   completed, stopping, loop, hid>>

-----------------------------------------------------------------------------
(* The pointer thread: PointerLoop. *)

AtLoopTop == thread = "check" /\ (pc = "construct" => EarlyStart)
loopOnly  == <<session, call, keyboard, input, completed, stopping, hid>>

MustExit == stopping

LoopExit ==
    /\ AtLoopTop /\ MustExit
    /\ thread' = "done"
    /\ UNCHANGED <<loopOnly, notified, due, report, wire>>

(* Nothing to send: wait for a signal, ... *)
LoopSleep ==
    /\ AtLoopTop /\ ~stopping /\ ~Work
    /\ thread' = "asleep" /\ notified' = FALSE
    /\ UNCHANGED <<loopOnly, due, report, wire>>

LoopWake ==
    /\ thread = "asleep" /\ notified
    /\ thread' = (IF stopping \/ Work THEN "check" ELSE "asleep")
    /\ notified' = FALSE
    /\ UNCHANGED <<loopOnly, due, report, wire>>

(* ... only movement that must wait for its tick: a timed wait. *)
LoopAwaitTick ==
    /\ AtLoopTop /\ ~stopping /\ pending /\ urgent = <<>> /\ ~due
    /\ thread' = "timed" /\ notified' = FALSE
    /\ UNCHANGED <<loopOnly, due, report, wire>>

SleepsOn    == FALSE                     \* faulty variant: no deadline
DeadlineMet == due

LoopTimedWake ==
    /\ thread = "timed" /\ (notified \/ DeadlineMet)
    /\ thread' = (IF DeadlineMet \/ stopping \/ urgent # <<>> THEN "check" ELSE "timed")
    /\ notified' = FALSE
    /\ UNCHANGED <<loopOnly, due, report, wire>>

TakeUrgent ==
    /\ AtLoopTop /\ ~stopping /\ urgent # <<>>
    /\ LET r == Head(urgent)
       IN /\ report' = r.generation
          /\ wire' = PointerPosts(r.buttons, r.position, r.wheel)
    /\ urgent' = Tail(urgent)
    /\ thread' = "send"
    /\ UNCHANGED <<session, call, keyboard, pending, buttons, position, generation,
                   scrolled, completed, stopping, notified, due, hid>>

(* The movement's tick has come; next_flush moves past now. *)
TakeMovement ==
    /\ AtLoopTop /\ ~stopping /\ pending /\ urgent = <<>> /\ due
    /\ report' = generation
    /\ wire' = PointerPosts(buttons, position, 0)
    /\ pending' = FALSE /\ due' = FALSE
    /\ thread' = "send"
    /\ UNCHANGED <<session, call, keyboard, buttons, position, urgent, generation,
                   scrolled, completed, stopping, notified, hid>>

(* SendPointer: the next HID call, made without the mutex. *)
SendPointer ==
    /\ thread = "send" /\ wire # <<>>
    /\ wire' = Tail(wire)
    /\ Delivered(AfterPost(host, Head(wire)))
    /\ UNCHANGED <<session, call, keyboard, input, completed, stopping, thread,
                   notified, due, report>>

WakeNobody == UNCHANGED flushed          \* faulty variant: not signalled
WakeFlush  == flushed' = (flushed \/ pc = "wait")

(* The report counts as completed; a waiting flush is woken. *)
Complete ==
    /\ thread = "send" /\ wire = <<>>
    /\ completed' = IF report > completed THEN report ELSE completed
    /\ WakeFlush
    /\ thread' = "check"
    /\ UNCHANGED <<session, pc, after, arg, target, keyboard, input, stopping,
                   notified, due, report, wire, hid>>

(* The clock reaches next_flush. *)
Tick ==
    /\ ~due
    /\ due' = TRUE
    /\ UNCHANGED <<loopOnly, thread, notified, report, wire>>

-----------------------------------------------------------------------------
Foreground ==   (* the foreground thread goes on with a call it has begun *)
    \/ FinishConstruction \/ Notify \/ Flush \/ FlushWake \/ ApplyKey
    \/ ReleaseButtons \/ ReleaseKeys \/ Stop \/ Join

PointerLoop ==
    \/ LoopExit \/ LoopSleep \/ LoopWake \/ LoopAwaitTick \/ LoopTimedWake
    \/ TakeUrgent \/ TakeMovement \/ SendPointer \/ Complete

Joined == pc = "joined" /\ UNCHANGED vars

Next ==
    \/ NewClient \/ ClientGone \/ Destroy
    \/ \E b \in Buttons, p \in Positions, w \in Wheels : Pointer(b, p, w)
    \/ \E down \in BOOLEAN, k \in Keysyms : Key(down, k)
    \/ Foreground \/ PointerLoop \/ Tick \/ Joined

Spec == Init /\ [][Next]_vars

(* The threads and the clock go on; HID calls return (AdminHID's timeouts);*)
(* viewers need not send anything.                                         *)
FairSpec == Spec /\ WF_vars(Foreground) /\ WF_vars(PointerLoop) /\ WF_vars(Tick)

-----------------------------------------------------------------------------
(* Properties. *)

UrgentReports == [buttons : Buttons, position : Positions, wheel : Wheels,
                  generation : Nat]
Posts == [kind : {"absolute", "wheel"}, buttons : Buttons, position : Positions,
          wheel : Wheels]
Hosts == [buttons : Buttons, position : Positions, scroll : Int,
          modifiers : SUBSET Modifiers, usages : SUBSET Usages]

(* The variables have their types; keys_ holds no modifier and no keysym   *)
(* without a usage (Key's early returns, vnc_server.cpp:243-253).          *)
TypeOK ==
    /\ viewers \in Nat /\ closing \in BOOLEAN
    /\ pc \in {"construct", "idle", "flush", "wait", "key", "release", "keys",
               "stop", "join", "joined"} \cup DOMAIN AfterNotify
    /\ after \in {"idle", "key", "release", "keys"}
    /\ arg \in KeyEvents /\ target \in Nat /\ flushed \in BOOLEAN
    /\ modifiers \subseteq Modifiers /\ keys \subseteq TypedKeys
    /\ pending \in BOOLEAN /\ stopping \in BOOLEAN
    /\ buttons \in Buttons /\ position \in Positions
    /\ urgent \in Seq(UrgentReports)
    /\ generation \in Nat /\ completed \in Nat
    /\ thread \in {"check", "asleep", "timed", "send", "done"}
    /\ notified \in BOOLEAN /\ due \in BOOLEAN
    /\ report \in Nat /\ wire \in Seq(Posts)
    /\ host \in Hosts
    /\ lost \in Nat /\ scrolled \in Int

(* Pointer input the host has not been sent in full. *)
Outstanding == Work \/ thread = "send"

(* What FlushPointer relies on (vnc_server.cpp:362): the outstanding       *)
(* reports are numbered upwards in the order they will be sent, all above  *)
(* the completed one, and the last of them has the newest generation.      *)
(* Otherwise a flush would return with input outstanding, or never.        *)
GenerationOrder == pc # "construct" =>
    /\ completed <= generation
    /\ thread = "send" => completed < report /\ report <= generation
    /\ \A i \in 1..Len(urgent) :
          /\ completed < urgent[i].generation
          /\ urgent[i].generation <= generation
          /\ thread = "send" => report < urgent[i].generation
    /\ \A i, j \in 1..Len(urgent) :
          i < j => urgent[i].generation < urgent[j].generation
    /\ pending => /\ completed < generation
                  /\ thread = "send" => report < generation
                  /\ \A i \in 1..Len(urgent) : urgent[i].generation < generation
    /\ ~pending /\ urgent # <<>> => urgent[Len(urgent)].generation = generation
    /\ ~Work /\ thread = "send" => report = generation
    /\ ~Outstanding => completed = generation

(* A waiting thread that has something to do has been signalled, or the    *)
(* foreground thread is about to signal it: no wakeup is lost although     *)
(* Pointer, Release and ~InputState signal after they have unlocked        *)
(* (vnc_server.cpp:300, 397, 218).                                         *)
NoLostWakeup == pc # "construct" =>
    /\ thread = "asleep" /\ ~notified /\ (Work \/ stopping) => pc \in DOMAIN AfterNotify
    /\ thread = "timed" /\ ~notified /\ (urgent # <<>> \/ stopping)
          => pc \in DOMAIN AfterNotify
    /\ pc = "wait" /\ completed >= target => flushed

(* "a key or modifier must not overtake the latest coalesced pointer       *)
(* position or button transition" (vnc_server.cpp:239): when a key is      *)
(* applied, the keyboard released or the thread stopped, the host has been *)
(* sent all the pointer input there is, and only lost posts can keep it    *)
(* from the newest buttons and position.                                   *)
KeyNeverOvertakes ==
    pc \in {"key", "release", "keys", "stop"} =>
        /\ ~Outstanding
        /\ lost = 0 => /\ host.buttons = buttons
                       /\ generation > 0 => host.position = position

(* "every button transition and wheel tick must remain ordered"            *)
(* (vnc_server.cpp:288): with nothing outstanding or lost, the host has    *)
(* scrolled as far as the viewers asked.                                   *)
EveryTickArrives == ~Outstanding /\ lost = 0 => host.scroll = scrolled

(* Whatever the viewers did, once the last one has left the host holds no  *)
(* button, modifier or key (ClientGone, vnc_server.cpp:603), unless a HID  *)
(* call failed.                                                            *)
ReleasedWhenUnwatched ==
    viewers = 0 /\ pc \in {"idle", "joined"} /\ lost = 0 => ~Holding(host)

(* The pointer thread outlives the input: it ends only after ~InputState   *)
(* has asked it to, with nothing accepted left unsent (vnc_server.cpp:212).*)
ThreadOutlivesInput == thread = "done" => closing /\ ~Work /\ completed = generation

(* The queue InputOrder promises, as InputState keeps it: the urgent       *)
(* reports and then the movement, whose report is made when it is taken.   *)
Transition(r) == [buttons |-> r.buttons, position |-> r.position,
                  wheel |-> r.wheel, movement |-> FALSE]
Movement      == [buttons |-> buttons, position |-> position, wheel |-> 0,
                  movement |-> TRUE]

WaitingReports ==
    [i \in 1..(Len(urgent) + IF pending THEN 1 ELSE 0) |->
        IF i <= Len(urgent) THEN Transition(urgent[i]) ELSE Movement]

Order == INSTANCE InputOrder WITH
    held <- buttons, queue <- IF pc = "construct" THEN <<>> ELSE WaitingReports

(* InputState implements InputOrder: the two threads, the slot that        *)
(* coalesces movement and the urgent queue together never drop or reorder  *)
(* a transition or a tick, and no keyboard report passes pointer input.    *)
ImplementsOrder == Order!Spec

(* A flush the foreground thread waits for returns (vnc_server.cpp:369).   *)
FlushReturns == pc = "wait" ~> pc # "wait"

(* Movement is sent at a tick, or superseded (vnc_server.cpp:331).         *)
MovementIsSent == pending ~> ~pending

(* The pointer thread gets to the end of the transitions and wheel ticks   *)
(* (vnc_server.cpp:340).                                                   *)
TransitionsAreSent == urgent # <<>> ~> urgent = <<>>

(* The destructor returns: it does not wait for a thread that waits for it *)
(* (vnc_server.cpp:212).                                                   *)
DestructionEnds == closing ~> pc = "joined"
=============================================================================
