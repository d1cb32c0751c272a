-------------------------- MODULE InputStateProofs --------------------------
(***************************************************************************)
(* Proofs about InputState, for every set of keys, buttons and positions   *)
(* and every number of viewers, events and failures.                       *)
(***************************************************************************)
EXTENDS InputState, TLAPS

USE ConstantsAssumption DEF ConstantsAssumption, NoButtons

(* The event a Key call starts from before any key was pressed is one.     *)
LEMMA NoKeyEventType == NoKeyEvent \in KeyEvents
  <1>1. (CHOOSE k \in Keysyms : TRUE) \in Keysyms
    OBVIOUS
  <1>2. QED
    BY <1>1 DEF NoKeyEvent, KeyEvents

(* The posts of a report are posts: what SendPointer hands to AdminHID.    *)
LEMMA PointerPostsType ==
    ASSUME NEW b \in Buttons, NEW p \in Positions, NEW w \in Wheels
    PROVE  /\ PointerPosts(b, p, w) \in Seq(Posts)
           /\ PointerPosts(b, p, w) # <<>>
  <1> DEFINE post(kind) == [kind |-> kind, buttons |-> b, position |-> p, wheel |-> w]
  <1>1. post("absolute") \in Posts /\ post("wheel") \in Posts
    BY DEF Posts
  <1>2. PointerPosts(b, p, w) = IF w = 0 THEN <<post("absolute")>>
                                ELSE <<post("absolute"), post("wheel")>>
    BY DEF PointerPosts
  <1> HIDE DEF post
  <1>3. QED
    BY <1>1, <1>2

(* A report of SendKeyboard names only usages keyToScancode can give.      *)
LEMMA ReportedType ==
    ASSUME NEW held \in SUBSET TypedKeys
    PROVE  Reported(held) \in SUBSET Usages
  BY DEF Reported, Usages

(* The host a pointer post or a keyboard report leads to is a host, and so *)
(* is the host after a HID call that may fail.                             *)
LEMMA AfterPostType ==
    ASSUME NEW h \in Hosts, NEW post \in Posts
    PROVE  AfterPost(h, post) \in Hosts
  <1>1. post.wheel \in Int
    <2>1. post.wheel \in Wheels
      BY DEF Posts
    <2>2. Wheels \subseteq Int
      OBVIOUS
    <2>3. QED
      BY <2>1, <2>2
  <1>2. h.scroll + post.wheel \in Int
    BY <1>1 DEF Hosts
  <1>3. CASE post.kind = "absolute"
    <2>1. post.buttons \in Buttons /\ post.position \in Positions
      BY DEF Posts
    <2>2. AfterPost(h, post) =
             [h EXCEPT !.buttons = post.buttons, !.position = post.position]
      BY <1>3 DEF AfterPost
    <2>3. QED
      BY <2>1, <2>2 DEF Hosts
  <1>4. CASE post.kind # "absolute"
    <2>1. post.buttons \in Buttons
      BY DEF Posts
    <2>2. AfterPost(h, post) =
             [h EXCEPT !.buttons = post.buttons, !.scroll = h.scroll + post.wheel]
      BY <1>4 DEF AfterPost, Hosts
    <2>3. QED
      BY <1>2, <2>1, <2>2 DEF Hosts
  <1>5. QED
    BY <1>3, <1>4

(* A keyboard report leads from host to host.                              *)
LEMMA AfterKeyboardType ==
    ASSUME NEW h \in Hosts, NEW m \in SUBSET Modifiers, NEW u \in SUBSET Usages
    PROVE  AfterKeyboard(h, m, u) \in Hosts
  BY DEF AfterKeyboard, Hosts

(* So does a HID call that may fail.                                       *)
LEMMA DeliveredType ==
    ASSUME host \in Hosts, lost \in Nat, NEW h \in Hosts, Delivered(h)
    PROVE  host' \in Hosts /\ lost' \in Nat
  BY DEF Delivered

(* The urgent queue stays one of reports when a report is pushed.          *)
LEMMA PushUrgentType ==
    ASSUME urgent \in Seq(UrgentReports), generation \in Nat,
           NEW b \in Buttons, NEW p \in Positions, NEW w \in Wheels,
           PushUrgent(b, p, w)
    PROVE  /\ urgent' \in Seq(UrgentReports)
           /\ generation' \in Nat
           /\ buttons' \in Buttons /\ position' \in Positions
  <1>1. generation' \in Nat
    BY DEF PushUrgent
  <1>2. [buttons |-> b, position |-> p, wheel |-> w, generation |-> generation']
           \in UrgentReports
    BY <1>1 DEF UrgentReports
  <1>3. QED
    BY <1>1, <1>2 DEF PushUrgent

-----------------------------------------------------------------------------
(* The flags of both threads stay flags.  They have a lemma of their own   *)
(* because Zenon reasons about Boolean values, and SMT about the rest.     *)
Flags == /\ closing \in BOOLEAN /\ flushed \in BOOLEAN /\ pending \in BOOLEAN
         /\ stopping \in BOOLEAN /\ notified \in BOOLEAN /\ due \in BOOLEAN

(* The Boolean variables stay Boolean.                                     *)
LEMMA FlagsTyped == TypeOK /\ [Next]_vars => Flags'
  <1> SUFFICES ASSUME TypeOK, [Next]_vars PROVE Flags'
    OBVIOUS
  <1> USE DEF Flags, TypeOK, session, call, keyboard, input, loop, hid
  <1>1. CASE NewClient \/ ClientGone \/ Destroy
    BY <1>1, Zenon DEF NewClient, ClientGone, Destroy
  <1>2. ASSUME NEW b \in Buttons, NEW p \in Positions, NEW w \in Wheels,
               Pointer(b, p, w)
        PROVE  Flags'
    BY <1>2, Zenon DEF Pointer, PushUrgent, SupersedeMovement, CoalesceMovement
  <1>3. ASSUME NEW down \in BOOLEAN, NEW k \in Keysyms, Key(down, k)
        PROVE  Flags'
    BY <1>3, Zenon DEF Key
  <1>4. CASE FinishConstruction \/ Notify \/ Flush \/ FlushWake
    BY <1>4, Zenon DEF FinishConstruction, Notify, NotifyPointer, Flush, FlushWake
  <1>5. CASE ApplyKey \/ ReleaseButtons \/ ReleaseKeys \/ Stop \/ Join
    BY <1>5, Zenon DEF ApplyKey, ReleaseButtons, PushUrgent, SupersedeMovement,
                       ReleaseKeys, Stop, Join
  <1>6. CASE LoopExit \/ LoopSleep \/ LoopWake \/ LoopAwaitTick \/ LoopTimedWake
    BY <1>6, Zenon DEF LoopExit, LoopSleep, LoopWake, LoopAwaitTick, LoopTimedWake,
                       loopOnly
  <1>7. CASE TakeUrgent \/ TakeMovement \/ SendPointer \/ Complete \/ Tick
    BY <1>7, Zenon DEF TakeUrgent, TakeMovement, SendPointer, Complete, WakeFlush,
                       Tick, loopOnly
  <1>8. CASE Joined \/ UNCHANGED vars
    BY <1>8, Zenon DEF Joined, vars
  <1>9. QED
    BY <1>1, <1>2, <1>3, <1>4, <1>5, <1>6, <1>7, <1>8
       DEF Next, Foreground, PointerLoop

-----------------------------------------------------------------------------
(* The type invariant: every action keeps every variable in its type, and  *)
(* keys_ free of modifiers and unmapped keysyms.                           *)
THEOREM TypeCorrect == Spec => []TypeOK
  <1>1. Init => TypeOK
    <2> SUFFICES ASSUME Init PROVE TypeOK
      OBVIOUS
    <2>1. arg \in KeyEvents
      BY NoKeyEventType DEF Init
    <2>2. host \in Hosts
      BY DEF Init, Hosts
    <2>3. Flags
      BY Zenon DEF Init, Flags
    <2>4. QED
      BY <2>1, <2>2, <2>3 DEF Init, TypeOK, Flags
  <1>2. TypeOK /\ [Next]_vars => TypeOK'
    <2> SUFFICES ASSUME TypeOK, [Next]_vars PROVE TypeOK'
      OBVIOUS
    <2> USE FlagsTyped DEF Flags, session, call, keyboard, input, loop, hid
    <2>1. CASE NewClient
      BY <2>1 DEF TypeOK, NewClient
    <2>2. CASE ClientGone
      BY <2>2 DEF TypeOK, ClientGone
    <2>3. CASE Destroy
      BY <2>3 DEF TypeOK, Destroy
    <2>4. ASSUME NEW b \in Buttons, NEW p \in Positions, NEW w \in Wheels,
                 Pointer(b, p, w)
          PROVE  TypeOK'
      <3>1. CASE IsUrgent(b, w)
        <4>1. PushUrgent(b, p, w)
          BY <2>4, <3>1 DEF Pointer
        <4>2. QED
          BY <2>4, <4>1, PushUrgentType DEF TypeOK, Pointer, AfterNotify
      <3>2. CASE ~IsUrgent(b, w)
        BY <2>4, <3>2 DEF TypeOK, Pointer, CoalesceMovement, AfterNotify
      <3>3. QED
        BY <3>1, <3>2
    <2>5. ASSUME NEW down \in BOOLEAN, NEW k \in Keysyms, Key(down, k)
          PROVE  TypeOK'
      BY <2>5 DEF TypeOK, Key, KeyEvents
    <2>6. CASE FinishConstruction
      BY <2>6 DEF TypeOK, FinishConstruction
    <2>7. CASE Notify
      BY <2>7 DEF TypeOK, Notify, NotifyPointer, AfterNotify
    <2>8. CASE Flush
      BY <2>8 DEF TypeOK, Flush, NotifyPointer, MustAwait
    <2>9. CASE FlushWake
      BY <2>9 DEF TypeOK, FlushWake
    <2>10. CASE ApplyKey
      <3>1. keys' \in SUBSET TypedKeys
        BY <2>10 DEF TypeOK, ApplyKey, ChangedKeys, IsTyped
      <3>2. modifiers' \in SUBSET Modifiers
        BY <2>10 DEF TypeOK, ApplyKey, ChangedModifiers, Modifiers, KeyEvents
      <3>3. AfterKeyboard(host, modifiers', Reported(keys')) \in Hosts
        BY <3>1, <3>2, ReportedType, AfterKeyboardType DEF TypeOK
      <3>4. host' \in Hosts /\ lost' \in Nat
        BY <2>10, <3>3, DeliveredType DEF TypeOK, ApplyKey
      <3>5. QED
        BY <2>10, <3>1, <3>2, <3>4, NoKeyEventType DEF TypeOK, ApplyKey
    <2>11. CASE ReleaseButtons
      <3>1. CASE ButtonsHeld
        <4>1. PushUrgent(NoButtons, position, 0)
          BY <2>11, <3>1 DEF ReleaseButtons
        <4>2. /\ urgent' \in Seq(UrgentReports) /\ generation' \in Nat
              /\ buttons' \in Buttons /\ position' \in Positions
          BY <4>1, PushUrgentType DEF TypeOK
        <4>3. QED
          BY <2>11, <3>1, <4>2 DEF TypeOK, ReleaseButtons, AfterNotify
      <3>2. CASE ~ButtonsHeld
        BY <2>11, <3>2 DEF TypeOK, ReleaseButtons
      <3>3. QED
        BY <3>1, <3>2
    <2>12. CASE ReleaseKeys
      <3>1. AfterKeyboard(host, {}, {}) \in Hosts
        BY AfterKeyboardType DEF TypeOK
      <3>2. host' \in Hosts /\ lost' \in Nat
        BY <2>12, <3>1, DeliveredType DEF TypeOK, ReleaseKeys
      <3>3. QED
        BY <2>12, <3>2 DEF TypeOK, ReleaseKeys
    <2>13. CASE Stop
      BY <2>13 DEF TypeOK, Stop, AfterNotify
    <2>14. CASE Join
      BY <2>14 DEF TypeOK, Join
    <2>15. CASE LoopExit \/ LoopSleep \/ LoopWake \/ LoopAwaitTick \/ LoopTimedWake
      BY <2>15 DEF TypeOK, LoopExit, LoopSleep, LoopWake, LoopAwaitTick,
                   LoopTimedWake, loopOnly
    <2>16. CASE TakeUrgent
      <3>1. Head(urgent) \in UrgentReports /\ Tail(urgent) \in Seq(UrgentReports)
        BY <2>16 DEF TypeOK, TakeUrgent
      <3>2. report' \in Nat /\ wire' \in Seq(Posts)
        BY <2>16, <3>1, PointerPostsType DEF TakeUrgent, UrgentReports
      <3>3. QED
        BY <2>16, <3>1, <3>2 DEF TypeOK, TakeUrgent
    <2>17. CASE TakeMovement
      BY <2>17, PointerPostsType DEF TypeOK, TakeMovement
    <2>18. CASE SendPointer
      <3>1. Head(wire) \in Posts /\ Tail(wire) \in Seq(Posts)
        BY <2>18 DEF TypeOK, SendPointer
      <3>2. host' \in Hosts /\ lost' \in Nat
        BY <2>18, <3>1, AfterPostType, DeliveredType DEF TypeOK, SendPointer
      <3>3. QED
        BY <2>18, <3>1, <3>2 DEF TypeOK, SendPointer
    <2>19. CASE Complete
      BY <2>19 DEF TypeOK, Complete, WakeFlush
    <2>20. CASE Tick
      BY <2>20 DEF TypeOK, Tick, loopOnly
    <2>21. CASE Joined \/ UNCHANGED vars
      BY <2>21 DEF TypeOK, Joined, vars
    <2>22. QED
      BY <2>1, <2>2, <2>3, <2>4, <2>5, <2>6, <2>7, <2>8, <2>9, <2>10, <2>11, <2>12,
         <2>13, <2>14, <2>15, <2>16, <2>17, <2>18, <2>19, <2>20, <2>21
         DEF Next, Foreground, PointerLoop
  <1>3. QED
    BY <1>1, <1>2, PTL DEF Spec

-----------------------------------------------------------------------------
(* The inductive invariant.  It holds when the new thread cannot run ahead *)
(* of the constructor; the assumption stands in each theorem that needs it.*)

(* Where the foreground thread is, and what is settled there. *)
Phases ==
    /\ pc = "construct" => thread = "check" /\ ~closing /\ generation = 0
    /\ pc \in {"construct", "idle", "notify"} => after = "idle"
    /\ pc = "notify" \/ pc = "key" \/ after = "key" => viewers > 0
    /\ pc \in {"flush", "wait"} => after # "idle"
    /\ pc = "renotify" => after = "keys"
    /\ \/ after \in {"release", "keys"} \/ closing
       \/ pc \in {"construct", "release", "keys", "stop", "stopnotify", "join", "joined"}
          => viewers = 0
    /\ after = "keys" \/ pc = "keys" => buttons = NoButtons
    /\ pc \in {"stop", "stopnotify", "join", "joined"} => closing
    /\ stopping /\ pc # "construct" => pc \in {"stopnotify", "join", "joined"}
    /\ thread = "done" => stopping /\ pc # "construct"
    /\ thread # "send" => wire = <<>>

(* After a flush nothing is outstanding, and while nobody watches nothing  *)
(* is held either.                                                         *)
Settled ==
    /\ pc = "wait" => target = generation
    /\ pc \in {"key", "release", "keys", "stop", "stopnotify", "join", "joined"}
          => completed = generation
    /\ viewers = 0 /\ pc \in {"construct", "idle", "stop", "stopnotify", "join", "joined"}
          => /\ buttons = NoButtons /\ modifiers = {} /\ keys = {}
             /\ pc # "construct" => completed = generation

(* The last report outstanding is the newest, and the host has got what is *)
(* no longer outstanding.                                                  *)
Newest(r) == r.buttons = buttons /\ r.position = position

HostHasNewest == lost = 0 => /\ host.buttons = buttons
                             /\ generation > 0 => host.position = position

Delivery ==
    /\ pc = "construct" => host.buttons = NoButtons
    /\ pc # "construct" =>
          /\ ~pending /\ urgent # <<>> => Newest(urgent[Len(urgent)])
          /\ ~Work /\ thread = "send" =>
                /\ \A i \in 1..Len(wire) : Newest(wire[i])
                /\ \/ wire # <<>> /\ wire[1].kind = "absolute"
                   \/ HostHasNewest
          /\ ~Outstanding => HostHasNewest

KeyboardDelivered ==
    lost = 0 => host.modifiers = modifiers /\ host.usages = Reported(keys)

IInv == Phases /\ GenerationOrder /\ NoLostWakeup /\ Settled
        /\ Delivery /\ KeyboardDelivered

(* What each program point knows of its thread and flags is kept.          *)
LEMMA PhasesKept ==
    ASSUME TypeOK, IInv, [Next]_vars, ~EarlyStart
    PROVE  Phases'
  <1> USE DEF TypeOK, IInv, Phases, session, call, keyboard, input, loop, hid
  <1>1. CASE NewClient \/ ClientGone \/ Destroy
    BY <1>1 DEF NewClient, ClientGone, Destroy, Settled
  <1>2. ASSUME NEW b \in Buttons, NEW p \in Positions, NEW w \in Wheels,
               Pointer(b, p, w)
        PROVE  Phases'
    BY <1>2 DEF Pointer, PushUrgent, CoalesceMovement
  <1>3. ASSUME NEW down \in BOOLEAN, NEW k \in Keysyms, Key(down, k)
        PROVE  Phases'
    BY <1>3 DEF Key
  <1>4. CASE FinishConstruction \/ Notify \/ Stop \/ Join
    BY <1>4 DEF FinishConstruction, Notify, AfterNotify, Stop, Join
  <1>5. CASE Flush \/ FlushWake
    BY <1>5 DEF Flush, FlushWake, Settled
  <1>6. CASE ApplyKey
    BY <1>6 DEF ApplyKey
  <1>7. CASE ReleaseButtons
    BY <1>7 DEF ReleaseButtons, ButtonsHeld, PushUrgent
  <1>8. CASE ReleaseKeys
    BY <1>8 DEF ReleaseKeys
  <1>9. CASE LoopExit \/ LoopSleep \/ LoopWake \/ LoopAwaitTick \/ LoopTimedWake
    BY <1>9 DEF LoopExit, LoopSleep, LoopWake, LoopAwaitTick, LoopTimedWake,
                loopOnly, AtLoopTop, MustExit
  <1>10. CASE TakeUrgent \/ TakeMovement \/ SendPointer \/ Complete \/ Tick
    <2>1. CASE TakeUrgent
      BY <2>1 DEF TakeUrgent, AtLoopTop
    <2>2. CASE TakeMovement
      BY <2>2 DEF TakeMovement, AtLoopTop
    <2>3. CASE SendPointer
      BY <2>3 DEF SendPointer
    <2>4. CASE Complete
      BY <2>4 DEF Complete
    <2>5. CASE Tick
      BY <2>5 DEF Tick, loopOnly
    <2>6. QED
      BY <1>10, <2>1, <2>2, <2>3, <2>4, <2>5
  <1>11. CASE Joined \/ UNCHANGED vars
    BY <1>11 DEF Joined, vars
  <1>12. QED
    BY <1>1, <1>2, <1>3, <1>4, <1>5, <1>6, <1>7, <1>8, <1>9, <1>10, <1>11
       DEF Next, Foreground, PointerLoop

(* A sequence without elements is the empty one.                           *)
LEMMA EmptyQueue ==
    ASSUME NEW S, NEW q \in Seq(S)
    PROVE  q = <<>> <=> Len(q) = 0
  OBVIOUS

(* What the two ends of a queue are after a report joined or left it.      *)
LEMMA QueueEnds ==
    ASSUME NEW S, NEW q \in Seq(S), NEW e \in S
    PROVE  /\ Len(Append(q, e)) = Len(q) + 1
           /\ \A i \in 1..Len(q) : Append(q, e)[i] = q[i]
           /\ Append(q, e)[Len(q) + 1] = e
           /\ Append(q, e) # <<>>
           /\ q # <<>> => /\ Len(Tail(q)) = Len(q) - 1
                          /\ \A i \in 1..Len(q) - 1 : Tail(q)[i] = q[i + 1]
                          /\ Head(q) = q[1] /\ Len(q) > 0
                          /\ Tail(q) = <<>> <=> Len(q) = 1
           /\ Len(q) = 0 => q = <<>>
  <1>1. Len(q) = 0 => q = <<>>
    OBVIOUS
  <1>2. ASSUME q # <<>>
        PROVE  /\ Len(q) > 0 /\ Tail(q) \in Seq(S)
               /\ Len(Tail(q)) = Len(q) - 1
               /\ \A i \in 1..Len(q) - 1 : Tail(q)[i] = q[i + 1]
               /\ Head(q) = q[1]
    BY <1>2
  <1>3. ASSUME q # <<>> PROVE Tail(q) = <<>> <=> Len(q) = 1
    <2>1. Tail(q) = <<>> <=> Len(Tail(q)) = 0
      BY <1>2, <1>3, EmptyQueue
    <2>2. Len(q) \in Nat
      OBVIOUS
    <2>3. QED
      BY <1>2, <1>3, <2>1, <2>2
  <1>4. /\ Len(Append(q, e)) = Len(q) + 1
        /\ \A i \in 1..Len(q) : Append(q, e)[i] = q[i]
        /\ Append(q, e)[Len(q) + 1] = e
        /\ Append(q, e) # <<>>
    OBVIOUS
  <1>5. QED
    BY <1>1, <1>2, <1>3, <1>4

(* The generations in the urgent queue are numbers.                        *)
LEMMA GenerationsAreNumbers ==
    ASSUME urgent \in Seq(UrgentReports)
    PROVE  \A i \in 1..Len(urgent) : urgent[i].generation \in Nat
  <1>1. \A i \in 1..Len(urgent) : urgent[i] \in UrgentReports
    OBVIOUS
  <1>2. QED
    BY <1>1 DEF UrgentReports

(* A pushed report gets a generation above all others.                     *)
LEMMA PushKeepsGenerations ==
    ASSUME TypeOK, GenerationOrder, pc # "construct", completed' = completed,
           thread' = thread, report' = report,
           NEW b \in Buttons, NEW p \in Positions, NEW w \in Wheels,
           PushUrgent(b, p, w)
    PROVE  GenerationOrder'
  <1> DEFINE r == [buttons |-> b, position |-> p, wheel |-> w,
                   generation |-> generation + 1]
  <1>1. /\ generation' = generation + 1 /\ urgent' = Append(urgent, r)
        /\ pending' = FALSE /\ r \in UrgentReports /\ r.generation = generation + 1
    BY DEF PushUrgent, SupersedeMovement, UrgentReports, TypeOK
  <1>2. urgent \in Seq(UrgentReports) /\ generation \in Nat /\ completed \in Nat
        /\ report \in Nat
    BY DEF TypeOK
  <1> HIDE DEF r
  <1>3. /\ Len(urgent') = Len(urgent) + 1
        /\ \A i \in 1..Len(urgent) : urgent'[i] = urgent[i]
        /\ urgent'[Len(urgent) + 1] = r
        /\ urgent' # <<>>
    BY <1>1, <1>2, QueueEnds
  <1>4. \A i \in 1..Len(urgent) : urgent[i].generation \in Nat
    BY <1>2, GenerationsAreNumbers
  <1>5. Len(urgent) \in Nat
    BY <1>2
  <1>6. /\ completed <= generation
        /\ thread = "send" => completed < report /\ report <= generation
        /\ \A i \in 1..Len(urgent) :
              /\ completed < urgent[i].generation
              /\ urgent[i].generation <= generation
              /\ thread = "send" => report < urgent[i].generation
        /\ \A i, j \in 1..Len(urgent) :
              i < j => urgent[i].generation < urgent[j].generation
    BY DEF GenerationOrder
  <1>7. Len(urgent') \in Nat /\ Len(urgent') = Len(urgent) + 1
    BY <1>3, <1>5
  <1>8. \A i \in 1..Len(urgent') :
          /\ completed' < urgent'[i].generation
          /\ urgent'[i].generation <= generation'
          /\ thread' = "send" => report' < urgent'[i].generation
    <2> SUFFICES ASSUME NEW i \in 1..Len(urgent')
                 PROVE  /\ completed < urgent'[i].generation
                        /\ urgent'[i].generation <= generation + 1
                        /\ thread = "send" => report < urgent'[i].generation
      BY <1>1
    <2>1. CASE i \in 1..Len(urgent)
      <3>1. urgent'[i] = urgent[i] /\ urgent[i].generation \in Nat
        BY <2>1, <1>3, <1>4
      <3>2. /\ completed < urgent[i].generation /\ urgent[i].generation <= generation
            /\ thread = "send" => report < urgent[i].generation
        BY <2>1, <1>6
      <3>3. QED
        BY <3>1, <3>2, <1>2
    <2>2. CASE i = Len(urgent) + 1
      BY <2>2, <1>1, <1>2, <1>3, <1>6
    <2>3. QED
      BY <2>1, <2>2, <1>5, <1>7
  <1>9. \A i, j \in 1..Len(urgent') :
          i < j => urgent'[i].generation < urgent'[j].generation
    <2> SUFFICES ASSUME NEW i \in 1..Len(urgent'), NEW j \in 1..Len(urgent'), i < j
                 PROVE  urgent'[i].generation < urgent'[j].generation
      OBVIOUS
    <2>1. i \in 1..Len(urgent)
      BY <1>5, <1>7
    <2>2. CASE j \in 1..Len(urgent)
      BY <2>1, <2>2, <1>3, <1>6
    <2>3. CASE j = Len(urgent) + 1
      <3>1. urgent'[i] = urgent[i] /\ urgent'[j] = r
        BY <2>1, <2>3, <1>3
      <3>2. urgent[i].generation \in Nat /\ urgent[i].generation <= generation
        BY <2>1, <1>4, <1>6
      <3>3. QED
        BY <3>1, <3>2, <1>1, <1>2
    <2>4. QED
      BY <2>2, <2>3, <1>5, <1>7
  <1>10. urgent'[Len(urgent')].generation = generation'
    BY <1>1, <1>3, <1>7
  <1>11. completed' <= generation'
         /\ (thread' = "send" => completed' < report' /\ report' <= generation')
    BY <1>1, <1>2, <1>6
  <1>12. Work' /\ Outstanding' /\ ~pending'
    BY <1>1, <1>3 DEF Work, Outstanding
  <1>13. QED
    BY <1>8, <1>9, <1>10, <1>11, <1>12 DEF GenerationOrder

(* The oldest report is taken: what remains is above it.                   *)
LEMMA TakeKeepsGenerations ==
    ASSUME TypeOK, GenerationOrder, pc # "construct", TakeUrgent
    PROVE  GenerationOrder'
  <1>1. /\ urgent \in Seq(UrgentReports) /\ urgent # <<>>
        /\ urgent' = Tail(urgent) /\ report' = Head(urgent).generation
        /\ thread' = "send" /\ pc' = pc
        /\ UNCHANGED <<pending, generation, completed>>
        /\ generation \in Nat /\ completed \in Nat
    BY DEF TypeOK, TakeUrgent, call
  <1>2. /\ Len(urgent') = Len(urgent) - 1
        /\ \A i \in 1..Len(urgent) - 1 : urgent'[i] = urgent[i + 1]
        /\ Head(urgent) = urgent[1] /\ Len(urgent) > 0 /\ Len(urgent) \in Nat
        /\ urgent' = <<>> <=> Len(urgent) = 1
    BY <1>1, QueueEnds
  <1>3. report' = urgent[1].generation /\ 1 \in 1..Len(urgent)
    BY <1>1, <1>2
  <1>4. \A i \in 1..Len(urgent) : urgent[i].generation \in Nat
    BY <1>1, GenerationsAreNumbers
  <1>5. \A i \in 1..Len(urgent') : i + 1 \in 1..Len(urgent) /\ urgent'[i] = urgent[i + 1]
    BY <1>2
  <1>6. /\ completed < report' /\ report' <= generation
        /\ \A i \in 1..Len(urgent') : /\ completed < urgent'[i].generation
                                      /\ urgent'[i].generation <= generation
                                      /\ report' < urgent'[i].generation
        /\ \A i, j \in 1..Len(urgent') :
              i < j => urgent'[i].generation < urgent'[j].generation
    BY <1>1, <1>2, <1>3, <1>5 DEF GenerationOrder
  <1>7. pending => /\ completed < generation /\ report' < generation
                   /\ \A i \in 1..Len(urgent') : urgent'[i].generation < generation
    BY <1>1, <1>3, <1>5 DEF GenerationOrder
  <1>8. ~pending => /\ urgent' # <<>> => urgent'[Len(urgent')].generation = generation
                    /\ urgent' = <<>> => report' = generation
    <2>1. ~pending => urgent[Len(urgent)].generation = generation
      BY <1>1 DEF GenerationOrder
    <2>2. urgent' # <<>> => urgent'[Len(urgent')] = urgent[Len(urgent)]
      BY <1>2
    <2>3. QED
      BY <1>2, <1>3, <2>1, <2>2
  <1>9. QED
    BY <1>1, <1>6, <1>7, <1>8, <1>4 DEF GenerationOrder, Outstanding, Work, TypeOK

(* Every action keeps the reports in the order of their generations.       *)
LEMMA GenerationsKept ==
    ASSUME TypeOK, IInv, [Next]_vars, ~EarlyStart
    PROVE  GenerationOrder'
  <1> USE DEF session, call, keyboard, input, loop, hid
  <1>1. urgent \in Seq(UrgentReports) /\ generation \in Nat /\ completed \in Nat
        /\ report \in Nat
    BY DEF TypeOK
  <1>2. \A i \in 1..Len(urgent) : urgent[i].generation \in Nat
    BY <1>1, GenerationsAreNumbers
  <1>3. GenerationOrder /\ Phases
    BY DEF IInv
  <1>4. ASSUME UNCHANGED <<urgent, pending, generation, completed, report>>,
               thread' = "send" <=> thread = "send",
               pc' # "construct" => pc # "construct"
        PROVE  GenerationOrder'
    BY <1>3, <1>4 DEF GenerationOrder, Outstanding, Work
  <1>5. CASE NewClient \/ ClientGone \/ Destroy
    BY <1>4, <1>5 DEF NewClient, ClientGone, Destroy
  <1>6. ASSUME NEW b \in Buttons, NEW p \in Positions, NEW w \in Wheels,
               Pointer(b, p, w)
        PROVE  GenerationOrder'
    <2>1. CASE IsUrgent(b, w)
      BY <1>3, <1>6, <2>1, PushKeepsGenerations DEF Pointer
    <2>2. CASE ~IsUrgent(b, w)
      BY <1>1, <1>2, <1>3, <1>6, <2>2
         DEF Pointer, CoalesceMovement, GenerationOrder, Outstanding, Work
    <2>3. QED
      BY <2>1, <2>2
  <1>7. ASSUME NEW down \in BOOLEAN, NEW k \in Keysyms, Key(down, k)
        PROVE  GenerationOrder'
    BY <1>4, <1>7 DEF Key
  <1>8. CASE FinishConstruction
    BY <1>8, <1>3 DEF FinishConstruction, Phases, GenerationOrder, Outstanding, Work
  <1>9. CASE Notify \/ Flush \/ FlushWake \/ ApplyKey \/ ReleaseKeys \/ Stop \/ Join
    BY <1>3, <1>4, <1>9 DEF Notify, AfterNotify, Flush, FlushWake, ApplyKey, ReleaseKeys,
                      Stop, Join, Phases
  <1>10. CASE ReleaseButtons
    <2>1. CASE ButtonsHeld
      BY <1>3, <1>10, <2>1, PushKeepsGenerations DEF ReleaseButtons, TypeOK
    <2>2. CASE ~ButtonsHeld
      BY <1>4, <1>10, <2>2 DEF ReleaseButtons
    <2>3. QED
      BY <2>1, <2>2
  <1>11. CASE LoopExit \/ LoopSleep \/ LoopWake \/ LoopAwaitTick \/ LoopTimedWake
              \/ SendPointer \/ Tick
    BY <1>4, <1>11 DEF LoopExit, LoopSleep, LoopWake, LoopAwaitTick, LoopTimedWake,
                       SendPointer, Tick, loopOnly, AtLoopTop
  <1>12. CASE TakeUrgent
    BY <1>3, <1>12, TakeKeepsGenerations DEF TakeUrgent, AtLoopTop
  <1>13. CASE TakeMovement
    BY <1>1, <1>3, <1>13 DEF TakeMovement, AtLoopTop, GenerationOrder, Outstanding, Work
  <1>14. CASE Complete
    BY <1>1, <1>2, <1>3, <1>14 DEF Complete, GenerationOrder, Outstanding, Work
  <1>15. CASE Joined \/ UNCHANGED vars
    BY <1>4, <1>15 DEF Joined, vars
  <1>16. QED
    BY <1>5, <1>6, <1>7, <1>8, <1>9, <1>10, <1>11, <1>12, <1>13, <1>14, <1>15
       DEF Next, Foreground, PointerLoop

(* Every action keeps the promise of a signal to a waiting thread.         *)
LEMMA WakeupsKept ==
    ASSUME TypeOK, IInv, [Next]_vars, ~EarlyStart
    PROVE  NoLostWakeup'
  <1> USE DEF session, call, keyboard, input, loop, hid
  <1>1. NoLostWakeup /\ Phases /\ GenerationOrder /\ TypeOK
    BY DEF IInv
  <1>2. CASE NewClient \/ ClientGone \/ Destroy
    BY <1>1, <1>2 DEF NewClient, ClientGone, Destroy, NoLostWakeup, Work, AfterNotify
  <1>3. ASSUME NEW b \in Buttons, NEW p \in Positions, NEW w \in Wheels,
               Pointer(b, p, w)
        PROVE  NoLostWakeup'
    BY <1>1, <1>3 DEF Pointer, PushUrgent, CoalesceMovement, NoLostWakeup, Work, AfterNotify
  <1>4. ASSUME NEW down \in BOOLEAN, NEW k \in Keysyms, Key(down, k)
        PROVE  NoLostWakeup'
    BY <1>1, <1>4 DEF Key, NoLostWakeup, Work, AfterNotify
  <1>5. CASE FinishConstruction
    BY <1>1, <1>5 DEF FinishConstruction, NoLostWakeup, Phases
  <1>6. CASE Notify
    <2>1. thread' \in {"asleep", "timed"} => notified'
      BY <1>6, Zenon DEF Notify, NotifyPointer
    <2>2. pc' # "wait" /\ pc # "construct"
      BY <1>6 DEF Notify, AfterNotify
    <2>3. QED
      BY <2>1, <2>2 DEF NoLostWakeup
  <1>7. CASE Flush \/ FlushWake
    BY <1>1, <1>7 DEF Flush, FlushWake, NotifyPointer, MustAwait, NoLostWakeup, Work,
                      AfterNotify, TypeOK, Phases
  <1>8. CASE ApplyKey \/ ReleaseKeys \/ Join
    BY <1>1, <1>8 DEF ApplyKey, ReleaseKeys, Join, NoLostWakeup, Work, AfterNotify
  <1>9. CASE ReleaseButtons \/ Stop
    BY <1>1, <1>9 DEF ReleaseButtons, PushUrgent, Stop, NoLostWakeup, Work, AfterNotify
  <1>10. CASE LoopExit \/ LoopSleep \/ LoopAwaitTick \/ Tick
    BY <1>1, <1>10 DEF LoopExit, LoopSleep, LoopAwaitTick, Tick, loopOnly, NoLostWakeup,
                       Work, AfterNotify
  <1>11. CASE LoopWake \/ LoopTimedWake
    BY <1>1, <1>11 DEF LoopWake, LoopTimedWake, DeadlineMet, loopOnly, NoLostWakeup, Work
  <1>12. CASE TakeUrgent \/ TakeMovement \/ SendPointer
    BY <1>1, <1>12 DEF TakeUrgent, TakeMovement, SendPointer, NoLostWakeup
  <1>13. CASE Complete
    BY <1>1, <1>13 DEF Complete, WakeFlush, NoLostWakeup
  <1>14. CASE Joined \/ UNCHANGED vars
    BY <1>1, <1>14 DEF Joined, vars, NoLostWakeup, Work, AfterNotify
  <1>15. QED
    BY <1>2, <1>3, <1>4, <1>5, <1>6, <1>7, <1>8, <1>9, <1>10, <1>11, <1>12, <1>13, <1>14
       DEF Next, Foreground, PointerLoop

(* Nothing is outstanding once a key is applied, and it stays so.          *)
LEMMA SettledKept ==
    ASSUME TypeOK, IInv, [Next]_vars, ~EarlyStart
    PROVE  Settled'
  <1> USE DEF session, call, keyboard, input, loop, hid
  <1>1. Settled /\ Phases /\ GenerationOrder /\ TypeOK
    BY DEF IInv
  <1>2. CASE NewClient \/ ClientGone \/ Destroy
    BY <1>1, <1>2 DEF NewClient, ClientGone, Destroy, Settled, Phases, TypeOK
  <1>3. ASSUME NEW b \in Buttons, NEW p \in Positions, NEW w \in Wheels,
               Pointer(b, p, w)
        PROVE  Settled'
    BY <1>1, <1>3 DEF Pointer, Settled
  <1>4. ASSUME NEW down \in BOOLEAN, NEW k \in Keysyms, Key(down, k)
        PROVE  Settled'
    BY <1>1, <1>4 DEF Key, Settled
  <1>5. CASE FinishConstruction
    BY <1>1, <1>5 DEF FinishConstruction, Settled, Phases
  <1>6. CASE Notify
    BY <1>1, <1>6 DEF Notify, AfterNotify, Settled, Phases
  <1>7. CASE Flush
    BY <1>1, <1>7 DEF Flush, MustAwait, Settled, Phases, GenerationOrder, TypeOK
  <1>8. CASE FlushWake
    BY <1>1, <1>8 DEF FlushWake, Settled, Phases, GenerationOrder, TypeOK
  <1>9. CASE ApplyKey
    BY <1>1, <1>9 DEF ApplyKey, Settled, Phases
  <1>10. CASE ReleaseButtons
    BY <1>1, <1>10 DEF ReleaseButtons, ButtonsHeld, Settled, Phases
  <1>11. CASE ReleaseKeys
    BY <1>1, <1>11 DEF ReleaseKeys, Settled, Phases
  <1>12. CASE Stop \/ Join
    BY <1>1, <1>12 DEF Stop, Join, Settled, Phases
  <1>13. CASE LoopExit \/ LoopSleep \/ LoopWake \/ LoopAwaitTick \/ LoopTimedWake \/ Tick
    BY <1>1, <1>13 DEF LoopExit, LoopSleep, LoopWake, LoopAwaitTick, LoopTimedWake,
                       Tick, loopOnly, Settled
  <1>14. CASE TakeUrgent \/ TakeMovement \/ SendPointer
    BY <1>1, <1>14 DEF TakeUrgent, TakeMovement, SendPointer, Settled
  <1>15. CASE Complete
    BY <1>1, <1>15 DEF Complete, Settled, Phases, GenerationOrder, Outstanding, TypeOK
  <1>16. CASE Joined \/ UNCHANGED vars
    BY <1>1, <1>16 DEF Joined, vars, Settled
  <1>17. QED
    BY <1>2, <1>3, <1>4, <1>5, <1>6, <1>7, <1>8, <1>9, <1>10, <1>11, <1>12, <1>13,
       <1>14, <1>15, <1>16 DEF Next, Foreground, PointerLoop

(* No keyboard report touches the pointer, and no pointer post the keys.   *)
LEMMA KeyboardLeavesPointer ==
    ASSUME host \in Hosts, lost \in Nat,
           NEW m \in SUBSET Modifiers, NEW u \in SUBSET Usages,
           Delivered(AfterKeyboard(host, m, u))
    PROVE  /\ host'.buttons = host.buttons /\ host'.position = host.position
           /\ lost' = 0 => /\ lost = 0
                           /\ host'.modifiers = m /\ host'.usages = u
  <1> DEFINE next == AfterKeyboard(host, m, u)
  <1>1. /\ next.buttons = host.buttons /\ next.position = host.position
        /\ next.modifiers = m /\ next.usages = u
    BY DEF Hosts, AfterKeyboard
  <1>2. Delivered(next)
    OBVIOUS
  <1> HIDE DEF next
  <1>3. QED
    BY <1>1, <1>2 DEF Delivered

(* A post that arrives leaves the host its buttons and position.           *)
LEMMA PostSetsPointer ==
    ASSUME host \in Hosts, lost \in Nat, NEW post \in Posts,
           Delivered(AfterPost(host, post))
    PROVE  /\ host'.modifiers = host.modifiers /\ host'.usages = host.usages
           /\ lost' = 0 => /\ lost = 0 /\ host'.buttons = post.buttons
                           /\ post.kind = "absolute" => host'.position = post.position
                           /\ post.kind # "absolute" => host'.position = host.position
  <1> DEFINE next == AfterPost(host, post)
  <1>1. /\ next.modifiers = host.modifiers /\ next.usages = host.usages
        /\ next.buttons = post.buttons
        /\ post.kind = "absolute" => next.position = post.position
        /\ post.kind # "absolute" => next.position = host.position
    <2>1. CASE post.kind = "absolute"
      <3>1. next = [host EXCEPT !.buttons = post.buttons, !.position = post.position]
        BY <2>1 DEF AfterPost
      <3>2. QED
        BY <2>1, <3>1 DEF Hosts
    <2>2. CASE post.kind # "absolute"
      <3>1. next = [host EXCEPT !.buttons = post.buttons,
                                !.scroll = host.scroll + post.wheel]
        BY <2>2 DEF AfterPost, Hosts
      <3>2. QED
        BY <2>2, <3>1 DEF Hosts
    <2>3. QED
      BY <2>1, <2>2
  <1>2. Delivered(next)
    OBVIOUS
  <1> HIDE DEF next
  <1>3. QED
    BY <1>1, <1>2 DEF Delivered

(* The posts of a report all carry its buttons and position, and the first *)
(* of them is the absolute one.                                            *)
LEMMA PostsCarryReport ==
    ASSUME NEW b \in Buttons, NEW p \in Positions, NEW w \in Wheels
    PROVE  /\ \A i \in 1..Len(PointerPosts(b, p, w)) :
                 /\ PointerPosts(b, p, w)[i].buttons = b
                 /\ PointerPosts(b, p, w)[i].position = p
           /\ PointerPosts(b, p, w)[1].kind = "absolute"
  <1> DEFINE post(kind) == [kind |-> kind, buttons |-> b, position |-> p, wheel |-> w]
  <1>1. /\ post("absolute").buttons = b /\ post("absolute").position = p
        /\ post("wheel").buttons = b /\ post("wheel").position = p
        /\ post("absolute").kind = "absolute"
    OBVIOUS
  <1>2. PointerPosts(b, p, w) = IF w = 0 THEN <<post("absolute")>>
                                ELSE <<post("absolute"), post("wheel")>>
    BY DEF PointerPosts
  <1> HIDE DEF post
  <1>3. CASE w = 0
    <2>1. PointerPosts(b, p, w) = <<post("absolute")>>
      BY <1>2, <1>3
    <2>2. Len(<<post("absolute")>>) = 1
      OBVIOUS
    <2>3. QED
      BY <1>1, <2>1, <2>2
  <1>4. CASE w # 0
    <2>1. PointerPosts(b, p, w) = <<post("absolute"), post("wheel")>>
      BY <1>2, <1>4
    <2>2. Len(<<post("absolute"), post("wheel")>>) = 2
      OBVIOUS
    <2>3. \A i \in 1..2 : i = 1 \/ i = 2
      OBVIOUS
    <2>4. QED
      BY <1>1, <2>1, <2>2, <2>3
  <1>5. QED
    BY <1>3, <1>4

(* Without keys held the keyboard report names no usage.                   *)
LEMMA NothingReported == Reported({}) = {}
  BY DEF Reported

(* What the host holds of the keyboard follows modifiers_ and keys_.       *)
LEMMA KeyboardKept ==
    ASSUME TypeOK, IInv, [Next]_vars, ~EarlyStart
    PROVE  KeyboardDelivered'
  <1> USE DEF session, call, keyboard, input, loop, hid
  <1>1. KeyboardDelivered /\ TypeOK /\ host \in Hosts /\ lost \in Nat
    BY DEF IInv, TypeOK
  <1>2. ASSUME UNCHANGED <<host, lost, modifiers, keys>>
        PROVE  KeyboardDelivered'
    BY <1>1, <1>2 DEF KeyboardDelivered, Reported
  <1>3. CASE NewClient \/ ClientGone \/ Destroy
    BY <1>2, <1>3 DEF NewClient, ClientGone, Destroy
  <1>4. ASSUME NEW b \in Buttons, NEW p \in Positions, NEW w \in Wheels,
               Pointer(b, p, w)
        PROVE  KeyboardDelivered'
    BY <1>2, <1>4 DEF Pointer
  <1>5. ASSUME NEW down \in BOOLEAN, NEW k \in Keysyms, Key(down, k)
        PROVE  KeyboardDelivered'
    BY <1>2, <1>5 DEF Key
  <1>6. CASE FinishConstruction \/ Notify \/ Flush \/ FlushWake \/ Stop \/ Join
    BY <1>2, <1>6 DEF FinishConstruction, Notify, Flush, FlushWake, Stop, Join
  <1>7. CASE ApplyKey
    <2>1. CASE arg.key \in TypedKeys \/ ModifierOf[arg.key] # NoModifier
      <3>1. keys' \in SUBSET TypedKeys
        BY <1>1, <1>7 DEF TypeOK, ApplyKey, ChangedKeys, IsTyped
      <3>2. modifiers' \in SUBSET Modifiers
        BY <1>1, <1>7 DEF TypeOK, ApplyKey, ChangedModifiers, Modifiers, KeyEvents
      <3>3. Reported(keys') \in SUBSET Usages
        BY <3>1, ReportedType
      <3>4. Delivered(AfterKeyboard(host, modifiers', Reported(keys')))
        BY <1>7, <2>1 DEF ApplyKey
      <3>5. lost' = 0 => host'.modifiers = modifiers' /\ host'.usages = Reported(keys')
        BY <1>1, <3>2, <3>3, <3>4, KeyboardLeavesPointer
      <3>6. QED
        BY <3>5 DEF KeyboardDelivered, Reported
    <2>2. CASE ~(arg.key \in TypedKeys \/ ModifierOf[arg.key] # NoModifier)
      BY <1>2, <1>7, <2>2 DEF ApplyKey, ChangedKeys, ChangedModifiers, IsTyped
    <2>3. QED
      BY <2>1, <2>2
  <1>8. CASE ReleaseButtons
    BY <1>2, <1>8 DEF ReleaseButtons, PushUrgent
  <1>9. CASE ReleaseKeys
    <2>1. CASE modifiers # {} \/ keys # {}
      <3>1. Delivered(AfterKeyboard(host, {}, {})) /\ modifiers' = {} /\ keys' = {}
        BY <1>9, <2>1 DEF ReleaseKeys
      <3>2. lost' = 0 => host'.modifiers = {} /\ host'.usages = {}
        BY <1>1, <3>1, KeyboardLeavesPointer
      <3>3. Reported(keys') = {}
        BY <3>1, NothingReported
      <3>4. QED
        BY <3>1, <3>2, <3>3 DEF KeyboardDelivered, Reported
    <2>2. CASE modifiers = {} /\ keys = {}
      BY <1>2, <1>9, <2>2 DEF ReleaseKeys
    <2>3. QED
      BY <2>1, <2>2
  <1>10. CASE LoopExit \/ LoopSleep \/ LoopWake \/ LoopAwaitTick \/ LoopTimedWake \/ Tick
    BY <1>2, <1>10 DEF LoopExit, LoopSleep, LoopWake, LoopAwaitTick, LoopTimedWake,
                       Tick, loopOnly
  <1>11. CASE TakeUrgent \/ TakeMovement \/ Complete
    BY <1>2, <1>11 DEF TakeUrgent, TakeMovement, Complete
  <1>12. CASE SendPointer
    <2>1. Head(wire) \in Posts /\ Delivered(AfterPost(host, Head(wire)))
          /\ UNCHANGED <<modifiers, keys>>
      BY <1>1, <1>12 DEF TypeOK, SendPointer
    <2>2. /\ host'.modifiers = host.modifiers /\ host'.usages = host.usages
          /\ lost' = 0 => lost = 0
      BY <1>1, <2>1, PostSetsPointer
    <2>3. QED
      BY <1>1, <2>1, <2>2 DEF KeyboardDelivered, Reported
  <1>13. CASE Joined \/ UNCHANGED vars
    BY <1>2, <1>13 DEF Joined, vars
  <1>14. QED
    BY <1>3, <1>4, <1>5, <1>6, <1>7, <1>8, <1>9, <1>10, <1>11, <1>12, <1>13
       DEF Next, Foreground, PointerLoop

(* A pushed report is the newest that is outstanding.                      *)
LEMMA PushKeepsDelivery ==
    ASSUME TypeOK, pc # "construct", pc' # "construct",
           NEW b \in Buttons, NEW p \in Positions, NEW w \in Wheels,
           PushUrgent(b, p, w)
    PROVE  Delivery'
  <1> DEFINE r == [buttons |-> b, position |-> p, wheel |-> w,
                   generation |-> generation + 1]
  <1>1. /\ urgent' = Append(urgent, r) /\ buttons' = b /\ position' = p
        /\ r \in UrgentReports /\ r.buttons = b /\ r.position = p
        /\ urgent \in Seq(UrgentReports)
    BY DEF PushUrgent, UrgentReports, TypeOK
  <1> HIDE DEF r
  <1>2. urgent' # <<>> /\ urgent'[Len(urgent')] = r
    BY <1>1, QueueEnds
  <1>3. QED
    BY <1>1, <1>2 DEF Delivery, Newest, Outstanding, Work

(* The last report taken is the newest one.                                *)
LEMMA TakeKeepsDelivery ==
    ASSUME TypeOK, Delivery, pc # "construct", TakeUrgent
    PROVE  Delivery'
  <1>1. /\ urgent \in Seq(UrgentReports) /\ urgent # <<>>
        /\ urgent' = Tail(urgent) /\ thread' = "send" /\ pc' = pc
        /\ UNCHANGED <<pending, buttons, position>>
        /\ wire' = PointerPosts(Head(urgent).buttons, Head(urgent).position,
                                Head(urgent).wheel)
    BY DEF TypeOK, TakeUrgent, call
  <1>2. /\ Len(urgent') = Len(urgent) - 1
        /\ \A i \in 1..Len(urgent) - 1 : urgent'[i] = urgent[i + 1]
        /\ Head(urgent) = urgent[1] /\ Len(urgent) > 0 /\ Len(urgent) \in Nat
        /\ urgent' = <<>> <=> Len(urgent) = 1
    BY <1>1, QueueEnds
  <1>3. ~pending => Newest(urgent[Len(urgent)])
    BY <1>1 DEF Delivery
  <1>4. CASE urgent' # <<>> \/ pending
    <2>1. urgent' # <<>> => urgent'[Len(urgent')] = urgent[Len(urgent)]
      BY <1>2
    <2>2. ~pending /\ urgent' # <<>> => Newest(urgent'[Len(urgent')])
      BY <1>3, <2>1
    <2>3. QED
      BY <1>1, <1>4, <2>2 DEF Delivery, Newest, Outstanding, Work
  <1>5. CASE urgent' = <<>> /\ ~pending
    <2>1. Newest(Head(urgent)) /\ Head(urgent) \in UrgentReports
      BY <1>1, <1>2, <1>3, <1>5
    <2>2. /\ Head(urgent).buttons \in Buttons /\ Head(urgent).position \in Positions
          /\ Head(urgent).wheel \in Wheels
      BY <2>1 DEF UrgentReports
    <2>3. /\ \A i \in 1..Len(wire') : /\ wire'[i].buttons = Head(urgent).buttons
                                      /\ wire'[i].position = Head(urgent).position
          /\ wire' # <<>> /\ wire'[1].kind = "absolute"
      <3> DEFINE posts == PointerPosts(Head(urgent).buttons, Head(urgent).position,
                                       Head(urgent).wheel)
      <3>1. /\ \A i \in 1..Len(posts) : /\ posts[i].buttons = Head(urgent).buttons
                                         /\ posts[i].position = Head(urgent).position
            /\ posts # <<>> /\ posts[1].kind = "absolute"
        <4> DEFINE b == Head(urgent).buttons
                   p == Head(urgent).position
                   w == Head(urgent).wheel
        <4>1. b \in Buttons /\ p \in Positions /\ w \in Wheels /\ posts = PointerPosts(b, p, w)
          BY <2>2
        <4> HIDE DEF b, p, w, posts
        <4>2. posts # <<>>
          BY <4>1, PointerPostsType
        <4>3. /\ \A i \in 1..Len(posts) : posts[i].buttons = b /\ posts[i].position = p
              /\ posts[1].kind = "absolute"
          BY <4>1, PostsCarryReport
        <4>4. QED
          BY <4>2, <4>3 DEF b, p
      <3>2. wire' = posts
        BY <1>1
      <3> HIDE DEF posts
      <3>3. QED
        BY <3>1, <3>2
    <2>4. QED
      BY <1>1, <1>5, <2>1, <2>3 DEF Delivery, Newest, Outstanding, Work
  <1>6. QED
    BY <1>4, <1>5

(* A post that arrives sets the host's buttons, and its position unless    *)
(* the absolute post before it has.                                        *)
LEMMA SendKeepsDelivery ==
    ASSUME TypeOK, Delivery, pc # "construct", SendPointer
    PROVE  Delivery'
  <1>1. /\ thread = "send" /\ thread' = "send" /\ pc' = pc
        /\ UNCHANGED <<pending, urgent, buttons, position, generation>>
        /\ wire \in Seq(Posts) /\ wire # <<>> /\ wire' = Tail(wire)
        /\ Delivered(AfterPost(host, Head(wire)))
        /\ host \in Hosts /\ lost \in Nat
    BY DEF SendPointer, TypeOK, call, input
  <1>2. /\ Len(wire') = Len(wire) - 1
        /\ \A i \in 1..Len(wire) - 1 : wire'[i] = wire[i + 1]
        /\ Head(wire) = wire[1] /\ Len(wire) > 0 /\ Len(wire) \in Nat
    BY <1>1, QueueEnds
  <1>3. CASE Work
    BY <1>1, <1>3 DEF Delivery, Newest, Outstanding, Work
  <1>4. CASE ~Work
    <2>1. \A i \in 1..Len(wire) : Newest(wire[i])
      BY <1>1, <1>4 DEF Delivery
    <2>2. \A i \in 1..Len(wire') : Newest(wire'[i])
      <3>1. \A i \in 1..Len(wire') : i + 1 \in 1..Len(wire) /\ wire'[i] = wire[i + 1]
        BY <1>2
      <3>2. QED
        BY <2>1, <3>1
    <2>3. Newest(Head(wire)) /\ Head(wire) \in Posts
      BY <1>1, <1>2, <2>1
    <2>4. Head(wire).kind # "absolute" => HostHasNewest
      BY <1>1, <1>2, <1>4 DEF Delivery
    <2>5. HostHasNewest'
      BY <1>1, <2>3, <2>4, PostSetsPointer DEF HostHasNewest, Newest
    <2>6. QED
      BY <1>1, <1>4, <2>2, <2>5 DEF Delivery, Newest, Outstanding, Work
  <1>5. QED
    BY <1>3, <1>4

(* The newest report outstanding, or the host, has what was asked for.     *)
LEMMA DeliveryKept ==
    ASSUME TypeOK, IInv, [Next]_vars, ~EarlyStart
    PROVE  Delivery'
  <1> USE DEF session, call, keyboard, input, loop, hid
  <1>1. Delivery /\ Phases /\ TypeOK /\ host \in Hosts /\ lost \in Nat
    BY DEF IInv, TypeOK
  <1>2. ASSUME UNCHANGED <<urgent, pending, buttons, position, generation, wire>>,
               thread' = "send" <=> thread = "send",
               host'.buttons = host.buttons, host'.position = host.position,
               lost' = 0 => lost = 0, pc' = "construct" <=> pc = "construct"
        PROVE  Delivery'
    BY <1>1, <1>2 DEF Delivery, HostHasNewest, Newest, Outstanding, Work
  <1>3. CASE NewClient \/ ClientGone \/ Destroy
    BY <1>2, <1>3 DEF NewClient, ClientGone, Destroy
  <1>4. ASSUME NEW b \in Buttons, NEW p \in Positions, NEW w \in Wheels,
               Pointer(b, p, w)
        PROVE  Delivery'
    <2>1. CASE IsUrgent(b, w)
      BY <1>1, <1>4, <2>1, PushKeepsDelivery DEF Pointer
    <2>2. CASE ~IsUrgent(b, w)
      BY <1>4, <2>2 DEF Pointer, CoalesceMovement, Delivery, Outstanding, Work
    <2>3. QED
      BY <2>1, <2>2
  <1>5. ASSUME NEW down \in BOOLEAN, NEW k \in Keysyms, Key(down, k)
        PROVE  Delivery'
    BY <1>2, <1>5 DEF Key
  <1>6. CASE FinishConstruction
    BY <1>1, <1>6 DEF FinishConstruction, Delivery, HostHasNewest, Outstanding, Work, Phases
  <1>7. CASE Notify \/ Flush \/ FlushWake \/ Stop \/ Join
    BY <1>1, <1>2, <1>7 DEF Notify, AfterNotify, Flush, FlushWake, Stop, Join, Phases, TypeOK
  <1>8. CASE ApplyKey
    <2>1. CASE UNCHANGED hid
      BY <1>2, <1>8, <2>1 DEF ApplyKey
    <2>2. CASE ~UNCHANGED hid
      <3>1. keys' \in SUBSET TypedKeys
        BY <1>1, <1>8 DEF TypeOK, ApplyKey, ChangedKeys, IsTyped
      <3>2. modifiers' \in SUBSET Modifiers
        BY <1>1, <1>8 DEF TypeOK, ApplyKey, ChangedModifiers, Modifiers, KeyEvents
      <3>3. Reported(keys') \in SUBSET Usages
        BY <3>1, ReportedType
      <3>4. Delivered(AfterKeyboard(host, modifiers', Reported(keys')))
        BY <1>8, <2>2 DEF ApplyKey
      <3>5. /\ host'.buttons = host.buttons /\ host'.position = host.position
            /\ lost' = 0 => lost = 0
        BY <1>1, <3>2, <3>3, <3>4, KeyboardLeavesPointer
      <3>6. QED
        BY <1>2, <1>8, <3>5 DEF ApplyKey
    <2>3. QED
      BY <2>1, <2>2
  <1>9. CASE ReleaseButtons
    <2>1. CASE ButtonsHeld
      <3>1. PushUrgent(NoButtons, position, 0) /\ pc # "construct" /\ pc' # "construct"
        BY <1>9, <2>1 DEF ReleaseButtons
      <3>2. QED
        BY <1>1, <3>1, PushKeepsDelivery DEF TypeOK
    <2>2. CASE ~ButtonsHeld
      BY <1>2, <1>9, <2>2 DEF ReleaseButtons
    <2>3. QED
      BY <2>1, <2>2
  <1>10. CASE ReleaseKeys
    <2>1. CASE modifiers # {} \/ keys # {}
      <3>1. Delivered(AfterKeyboard(host, {}, {}))
        BY <1>10, <2>1 DEF ReleaseKeys
      <3>2. /\ host'.buttons = host.buttons /\ host'.position = host.position
            /\ lost' = 0 => lost = 0
        BY <1>1, <3>1, KeyboardLeavesPointer
      <3>3. QED
        BY <1>2, <1>10, <3>2 DEF ReleaseKeys
    <2>2. CASE modifiers = {} /\ keys = {}
      BY <1>2, <1>10, <2>2 DEF ReleaseKeys
    <2>3. QED
      BY <2>1, <2>2
  <1>11. CASE LoopExit \/ LoopSleep \/ LoopWake \/ LoopAwaitTick \/ LoopTimedWake \/ Tick
    BY <1>2, <1>11 DEF LoopExit, LoopSleep, LoopWake, LoopAwaitTick, LoopTimedWake,
                       Tick, loopOnly, AtLoopTop
  <1>12. CASE TakeUrgent
    BY <1>1, <1>12, TakeKeepsDelivery DEF TakeUrgent, AtLoopTop
  <1>13. CASE TakeMovement
    <2>1. /\ pc # "construct" /\ pc' = pc /\ thread' = "send"
          /\ UNCHANGED <<urgent, buttons, position>> /\ urgent = <<>>
          /\ wire' = PointerPosts(buttons, position, 0)
      BY <1>13 DEF TakeMovement, AtLoopTop
    <2>2. /\ \A i \in 1..Len(wire') : wire'[i].buttons = buttons /\ wire'[i].position = position
          /\ wire' # <<>> /\ wire'[1].kind = "absolute"
      BY <1>1, <2>1, PointerPostsType, PostsCarryReport DEF TypeOK
    <2>3. QED
      BY <2>1, <2>2 DEF Delivery, Newest, Outstanding, Work
  <1>14. CASE SendPointer
    BY <1>1, <1>14, SendKeepsDelivery DEF SendPointer, Phases
  <1>15. CASE Complete
    BY <1>1, <1>15 DEF Complete, Delivery, HostHasNewest, Newest, Outstanding, Work
  <1>16. CASE Joined \/ UNCHANGED vars
    BY <1>2, <1>16 DEF Joined, vars
  <1>17. QED
    BY <1>3, <1>4, <1>5, <1>6, <1>7, <1>8, <1>9, <1>10, <1>11, <1>12, <1>13, <1>14,
       <1>15, <1>16 DEF Next, Foreground, PointerLoop

-----------------------------------------------------------------------------
(* The inductive invariant holds in every state.                           *)
THEOREM Invariant ==
    ASSUME ~EarlyStart
    PROVE  Spec => []IInv
  <1>1. Init => IInv
    <2> SUFFICES ASSUME Init PROVE IInv
      OBVIOUS
    <2>1. Phases /\ Settled
      BY DEF Init, Phases, Settled
    <2>2. GenerationOrder /\ NoLostWakeup
      BY DEF Init, GenerationOrder, NoLostWakeup
    <2>3. Delivery /\ KeyboardDelivered
      BY NothingReported DEF Init, Delivery, KeyboardDelivered
    <2>4. QED
      BY <2>1, <2>2, <2>3 DEF IInv
  <1>2. TypeOK /\ IInv /\ [Next]_vars => IInv'
    BY PhasesKept, GenerationsKept, WakeupsKept, SettledKept, DeliveryKept, KeyboardKept
       DEF IInv
  <1>3. QED
    BY <1>1, <1>2, TypeCorrect, PTL DEF Spec

(* FlushPointer's snapshot is well chosen: the outstanding reports are     *)
(* numbered in the order they are sent, up to the newest generation.       *)
THEOREM GenerationsInOrder ==
    ASSUME ~EarlyStart
    PROVE  Spec => []GenerationOrder
  <1>1. IInv => GenerationOrder
    BY DEF IInv
  <1>2. QED
    BY <1>1, Invariant, PTL

(* No signal between the two threads is lost.                              *)
THEOREM WakeupsArrive ==
    ASSUME ~EarlyStart
    PROVE  Spec => []NoLostWakeup
  <1>1. IInv => NoLostWakeup
    BY DEF IInv
  <1>2. QED
    BY <1>1, Invariant, PTL

(* No key passes the pointer input that came before it.                    *)
THEOREM KeysFollowPointer ==
    ASSUME ~EarlyStart
    PROVE  Spec => []KeyNeverOvertakes
  <1>1. TypeOK /\ IInv => KeyNeverOvertakes
    <2> SUFFICES ASSUME TypeOK, IInv, pc \in {"key", "release", "keys", "stop"}
                 PROVE  /\ ~Outstanding
                        /\ lost = 0 => /\ host.buttons = buttons
                                       /\ generation > 0 => host.position = position
      BY DEF KeyNeverOvertakes
    <2>1. completed = generation /\ GenerationOrder /\ Delivery
      BY DEF IInv, Settled
    <2>2. ~Outstanding
      <3>1. thread = "send" => completed < report /\ report <= generation
        BY <2>1 DEF GenerationOrder
      <3>2. pending => completed < generation
        BY <2>1 DEF GenerationOrder
      <3>3. urgent # <<>> /\ ~pending => completed < generation
        <4>1. urgent # <<>> => Len(urgent) \in 1..Len(urgent)
          BY EmptyQueue DEF TypeOK
        <4>2. QED
          BY <2>1, <4>1 DEF GenerationOrder
      <3>4. QED
        BY <2>1, <3>1, <3>2, <3>3 DEF Outstanding, Work, TypeOK
    <2>3. QED
      BY <2>1, <2>2 DEF Delivery, HostHasNewest
  <1>2. QED
    BY <1>1, Invariant, TypeCorrect, PTL

(* The host holds nothing once the last viewer has left, unless a HID call *)
(* failed.                                                                 *)
THEOREM NothingHeldUnwatched ==
    ASSUME ~EarlyStart
    PROVE  Spec => []ReleasedWhenUnwatched
  <1>1. TypeOK /\ IInv => ReleasedWhenUnwatched
    <2> SUFFICES ASSUME TypeOK, IInv, viewers = 0, pc \in {"idle", "joined"}, lost = 0
                 PROVE  ~Holding(host)
      BY DEF ReleasedWhenUnwatched
    <2>1. /\ buttons = NoButtons /\ modifiers = {} /\ keys = {}
          /\ completed = generation
      BY DEF IInv, Settled
    <2>2. host.modifiers = {} /\ host.usages = {}
      BY <2>1, NothingReported DEF IInv, KeyboardDelivered
    <2>3. ~Outstanding
      <3>1. GenerationOrder
        BY DEF IInv
      <3>2. ~pending /\ thread # "send"
        BY <2>1, <3>1 DEF GenerationOrder, TypeOK
      <3>3. urgent = <<>>
        <4>1. urgent # <<>> => Len(urgent) \in 1..Len(urgent)
          BY EmptyQueue DEF TypeOK
        <4>2. QED
          BY <2>1, <3>1, <3>2, <4>1 DEF GenerationOrder, TypeOK
      <3>4. QED
        BY <3>2, <3>3 DEF Outstanding, Work
    <2>4. host.buttons = NoButtons
      BY <2>1, <2>3 DEF IInv, Delivery, HostHasNewest
    <2>5. QED
      BY <2>2, <2>4 DEF Holding
  <1>2. QED
    BY <1>1, Invariant, TypeCorrect, PTL

(* The pointer thread is not gone while there is input to send.            *)
THEOREM ThreadStays ==
    ASSUME ~EarlyStart
    PROVE  Spec => []ThreadOutlivesInput
  <1>1. TypeOK /\ IInv => ThreadOutlivesInput
    <2> SUFFICES ASSUME TypeOK, IInv, thread = "done"
                 PROVE  closing /\ ~Work /\ completed = generation
      BY DEF ThreadOutlivesInput
    <2>1. pc \in {"stopnotify", "join", "joined"} /\ closing
      BY DEF IInv, Phases
    <2>2. completed = generation /\ GenerationOrder
      BY <2>1 DEF IInv, Settled
    <2>3. ~pending
      BY <2>1, <2>2 DEF GenerationOrder, TypeOK
    <2>4. urgent = <<>>
      <3>1. urgent # <<>> => Len(urgent) \in 1..Len(urgent)
        BY EmptyQueue DEF TypeOK
      <3>2. QED
        BY <2>1, <2>2, <2>3, <3>1 DEF GenerationOrder, TypeOK
    <2>5. QED
      BY <2>1, <2>2, <2>3, <2>4 DEF Work
  <1>2. QED
    BY <1>1, Invariant, TypeCorrect, PTL

(* The two threads never wait for one another: the safety half of          *)
(* FlushReturns and DestructionEnds.  While FlushPointer waits unsignalled *)
(* the pointer thread works, has been signalled, or waits for the tick of  *)
(* the movement; while ~InputState waits in join it does not sleep on      *)
(* (vnc_server.cpp:212, 324, 369).                                         *)
NeverBothWait ==
    /\ pc = "wait" /\ ~flushed =>
          /\ thread # "done"
          /\ thread = "asleep" => notified
          /\ thread = "timed" => notified \/ pending
    /\ pc = "join" /\ thread \in {"asleep", "timed"} => notified

(* Whoever joins the thread has asked it to stop. *)
AskedToStop == pc \in {"stopnotify", "join", "joined"} => stopping

(* It is asked once, and it is not taken back. *)
LEMMA AskedKept == TypeOK /\ AskedToStop /\ [Next]_vars => AskedToStop'
  <1> SUFFICES ASSUME TypeOK, AskedToStop, [Next]_vars PROVE AskedToStop'
    OBVIOUS
  <1>1. CASE Stop \/ FinishConstruction
    BY <1>1, Zenon DEF Stop, FinishConstruction, AskedToStop
  <1>2. CASE UNCHANGED <<pc, stopping>>
    BY <1>2 DEF AskedToStop
  <1>3. CASE Notify \/ Join
    <2>1. UNCHANGED stopping /\ (pc' \in {"join", "joined"} => pc \in {"stopnotify", "join"})
          /\ pc' # "stopnotify"
      BY <1>3 DEF Notify, Join, AfterNotify
    <2>2. QED
      BY <2>1 DEF AskedToStop
  <1>4. CASE UNCHANGED stopping /\ pc' \notin {"stopnotify", "join", "joined"}
    BY <1>4 DEF AskedToStop
  <1>5. CASE NewClient \/ ClientGone \/ Destroy \/ Flush \/ FlushWake \/ ApplyKey
              \/ ReleaseButtons \/ ReleaseKeys
    <2>1. UNCHANGED stopping
      BY <1>5 DEF NewClient, ClientGone, Destroy, Flush, FlushWake, ApplyKey,
                  ReleaseButtons, ReleaseKeys
    <2>2. after \in {"idle", "key", "release", "keys"}
      BY DEF TypeOK
    <2>3. pc' \notin {"stopnotify", "join", "joined"} \/ pc' = pc
      BY <1>5, <2>2 DEF NewClient, ClientGone, Destroy, Flush, FlushWake, ApplyKey,
                  ReleaseButtons, ReleaseKeys, call
    <2>4. QED
      BY <2>1, <2>3 DEF AskedToStop
  <1>6. ASSUME NEW b \in Buttons, NEW p \in Positions, NEW w \in Wheels, Pointer(b, p, w)
        PROVE  AskedToStop'
    BY <1>6, <1>4 DEF Pointer
  <1>7. ASSUME NEW down \in BOOLEAN, NEW k \in Keysyms, Key(down, k)
        PROVE  AskedToStop'
    BY <1>7, <1>4 DEF Key
  <1>8. CASE PointerLoop \/ Tick \/ Joined \/ UNCHANGED vars
    BY <1>8, <1>2 DEF PointerLoop, Tick, Joined, vars, loopOnly, call, LoopExit, LoopSleep,
       LoopWake, LoopAwaitTick, LoopTimedWake, TakeUrgent, TakeMovement, SendPointer,
       Complete
  <1>9. QED
    BY <1>1, <1>3, <1>5, <1>6, <1>7, <1>8, Zenon DEF Next, Foreground

(* So there is no deadlock between FlushPointer or the destructor and the  *)
(* pointer thread.                                                         *)
THEOREM NoDeadlock ==
    ASSUME ~EarlyStart
    PROVE  Spec => []NeverBothWait
  <1>1. TypeOK /\ IInv /\ ThreadOutlivesInput /\ AskedToStop => NeverBothWait
    <2> SUFFICES ASSUME TypeOK, IInv, ThreadOutlivesInput, AskedToStop
                 PROVE  NeverBothWait
      OBVIOUS
    <2>1. Phases /\ GenerationOrder /\ NoLostWakeup /\ Settled
      BY DEF IInv
    <2>2. pc \in {"wait", "join"} => pc \notin DOMAIN AfterNotify
      BY DEF AfterNotify
    <2>3. CASE pc = "wait" /\ ~flushed
      <3>1. completed < generation
        BY <2>1, <2>3 DEF NoLostWakeup, Settled, TypeOK
      <3>2. thread # "done"
        BY <2>1, <3>1 DEF ThreadOutlivesInput, TypeOK
      <3>3. thread # "send" => urgent # <<>> \/ pending
        BY <2>1, <2>3, <3>1 DEF GenerationOrder, Outstanding, Work, TypeOK
      <3>4. thread = "asleep" => notified
        BY <2>1, <2>2, <2>3, <3>3 DEF NoLostWakeup, Work
      <3>5. thread = "timed" => notified \/ pending
        BY <2>1, <2>2, <2>3, <3>3 DEF NoLostWakeup
      <3>6. QED
        BY <2>3, <3>2, <3>4, <3>5 DEF NeverBothWait
    <2>4. CASE pc = "join"
      <3>1. stopping
        BY <2>4 DEF AskedToStop
      <3>2. QED
        BY <2>1, <2>2, <2>4, <3>1 DEF NoLostWakeup, NeverBothWait
    <2>5. QED
      BY <2>3, <2>4 DEF NeverBothWait
  <1>2. Init => AskedToStop
    BY DEF Init, AskedToStop
  <1>3. QED
    BY <1>1, <1>2, AskedKept, Invariant, TypeCorrect, ThreadStays, PTL DEF Spec

-----------------------------------------------------------------------------
(* Where the ticks are.  The host has scrolled as far as the viewers asked *)
(* but for the tick among the posts being made and the ticks of the urgent *)
(* queue; their running total stands for the sum over the queue.  This     *)
(* part holds wherever the constructor and the thread are.                 *)
TicksBetween(q, from, to) ==
    \E total \in [0..Len(q) -> Int] :
        /\ total[0] = from /\ total[Len(q)] = to
        /\ \A i \in 1..Len(q) : total[i] = total[i - 1] + q[i].wheel

WheelOf(posts) ==
    IF posts # <<>> /\ posts[Len(posts)].kind = "wheel"
    THEN posts[Len(posts)].wheel ELSE 0

TicksAhead ==
    /\ pc = "construct" => urgent = <<>>
    /\ thread # "send" => wire = <<>>
    /\ \A i \in 1..Len(wire) : i < Len(wire) => wire[i].kind = "absolute"
    /\ lost = 0 => TicksBetween(urgent, host.scroll + WheelOf(wire), scrolled)

(* The wheel of a report and of a post is a number.                        *)
LEMMA WheelsAreNumbers ==
    /\ \A r \in UrgentReports : r.wheel \in Int
    /\ \A p \in Posts : p.wheel \in Int
  <1>1. Wheels \subseteq Int
    OBVIOUS
  <1>2. \A r \in UrgentReports : r.wheel \in Wheels
    BY DEF UrgentReports
  <1>3. \A p \in Posts : p.wheel \in Wheels
    BY DEF Posts
  <1>4. QED
    BY <1>1, <1>2, <1>3

(* No report, no tick between.                                             *)
LEMMA TicksOfNone ==
    ASSUME NEW from \in Int, NEW to \in Int
    PROVE  TicksBetween(<<>>, from, to) <=> from = to
  <1>1. ASSUME TicksBetween(<<>>, from, to) PROVE from = to
    BY <1>1 DEF TicksBetween
  <1>2. ASSUME from = to PROVE TicksBetween(<<>>, from, to)
    <2> DEFINE total == [i \in 0..0 |-> from]
    <2>1. /\ total \in [0..Len(<<>>) -> Int]
          /\ total[0] = from /\ total[Len(<<>>)] = to
          /\ \A i \in 1..Len(<<>>) : total[i] = total[i - 1] + <<>>[i].wheel
      BY <1>2
    <2> HIDE DEF total
    <2>2. QED
      BY <2>1 DEF TicksBetween
  <1>3. QED
    BY <1>1, <1>2

(* A report that is pushed adds its tick at the far end ...                *)
LEMMA TicksPushed ==
    ASSUME NEW q \in Seq(UrgentReports), NEW r \in UrgentReports,
           NEW from \in Int, NEW to \in Int, TicksBetween(q, from, to)
    PROVE  TicksBetween(Append(q, r), from, to + r.wheel)
  <1>1. PICK total \in [0..Len(q) -> Int] :
          /\ total[0] = from /\ total[Len(q)] = to
          /\ \A i \in 1..Len(q) : total[i] = total[i - 1] + q[i].wheel
    BY DEF TicksBetween
  <1>2. /\ Len(Append(q, r)) = Len(q) + 1 /\ Len(q) \in Nat
        /\ \A i \in 1..Len(q) : Append(q, r)[i] = q[i]
        /\ Append(q, r)[Len(q) + 1] = r
    BY QueueEnds
  <1>3. r.wheel \in Int
    BY WheelsAreNumbers
  <1> DEFINE longer == [i \in 0..(Len(q) + 1) |->
                           IF i = Len(q) + 1 THEN to + r.wheel ELSE total[i]]
  <1>4. longer \in [0..(Len(q) + 1) -> Int]
    BY <1>1, <1>2, <1>3
  <1>5. /\ longer[0] = from /\ longer[Len(q) + 1] = to + r.wheel
        /\ \A i \in 0..Len(q) : longer[i] = total[i]
    BY <1>1, <1>2
  <1> HIDE DEF longer
  <1>6. ASSUME NEW i \in 1..(Len(q) + 1)
        PROVE  longer[i] = longer[i - 1] + Append(q, r)[i].wheel
    <2>1. CASE i = Len(q) + 1
      <3>1. i - 1 = Len(q) /\ Len(q) \in 0..Len(q)
        BY <1>2, <2>1
      <3>2. longer[i - 1] = to
        BY <1>1, <1>5, <3>1
      <3>3. QED
        BY <1>2, <1>5, <2>1, <3>2
    <2>2. CASE i # Len(q) + 1
      <3>1. i \in 1..Len(q) /\ i \in 0..Len(q) /\ i - 1 \in 0..Len(q)
        BY <1>2, <2>2
      <3>2. longer[i] = total[i] /\ longer[i - 1] = total[i - 1]
        BY <1>5, <3>1
      <3>3. total[i] = total[i - 1] + q[i].wheel /\ Append(q, r)[i] = q[i]
        BY <1>1, <1>2, <3>1
      <3>4. QED
        BY <3>2, <3>3
    <2>3. QED
      BY <2>1, <2>2
  <1>7. QED
    BY <1>2, <1>4, <1>5, <1>6 DEF TicksBetween

(* ... and one that is taken removes its tick from the near end.           *)
LEMMA TicksTaken ==
    ASSUME NEW q \in Seq(UrgentReports), q # <<>>,
           NEW from \in Int, NEW to \in Int, TicksBetween(q, from, to)
    PROVE  TicksBetween(Tail(q), from + Head(q).wheel, to)
  <1>1. PICK total \in [0..Len(q) -> Int] :
          /\ total[0] = from /\ total[Len(q)] = to
          /\ \A i \in 1..Len(q) : total[i] = total[i - 1] + q[i].wheel
    BY DEF TicksBetween
  <1>2. /\ Len(Tail(q)) = Len(q) - 1 /\ Len(q) \in Nat /\ Len(q) > 0
        /\ \A i \in 1..Len(q) - 1 : Tail(q)[i] = q[i + 1]
        /\ Head(q) = q[1] /\ Head(q) \in UrgentReports
    <2>1. Head(q) \in UrgentReports
      OBVIOUS
    <2>2. QED
      BY <2>1, QueueEnds
  <1> DEFINE shorter == [i \in 0..(Len(q) - 1) |-> total[i + 1]]
  <1>3. /\ shorter \in [0..(Len(q) - 1) -> Int]
        /\ \A i \in 0..(Len(q) - 1) : shorter[i] = total[i + 1]
    BY <1>1, <1>2
  <1> HIDE DEF shorter
  <1>4. shorter[0] = from + Head(q).wheel
    <2>1. 0 \in 0..(Len(q) - 1) /\ 1 \in 1..Len(q)
      BY <1>2
    <2>2. total[1] = total[0] + q[1].wheel
      BY <1>1, <2>1
    <2>3. QED
      BY <1>1, <1>2, <1>3, <2>1, <2>2
  <1>5. shorter[Len(q) - 1] = to
    BY <1>1, <1>2, <1>3
  <1>6. ASSUME NEW i \in 1..(Len(q) - 1)
        PROVE  shorter[i] = shorter[i - 1] + Tail(q)[i].wheel
    <2>1. /\ i \in 0..(Len(q) - 1) /\ i - 1 \in 0..(Len(q) - 1)
          /\ i + 1 \in 1..Len(q) /\ (i - 1) + 1 = i /\ (i + 1) - 1 = i
      BY <1>2
    <2>2. shorter[i] = total[i + 1] /\ shorter[i - 1] = total[i]
      BY <1>3, <2>1
    <2>3. total[i + 1] = total[i] + q[i + 1].wheel
      BY <1>1, <2>1
    <2>4. QED
      BY <1>2, <2>2, <2>3
  <1>7. QED
    BY <1>2, <1>3, <1>4, <1>5, <1>6 DEF TicksBetween

(* The posts of a report end with its tick, if it has one.                 *)
LEMMA PostsCarryTick ==
    ASSUME NEW b \in Buttons, NEW p \in Positions, NEW w \in Wheels
    PROVE  /\ WheelOf(PointerPosts(b, p, w)) = w
           /\ \A i \in 1..Len(PointerPosts(b, p, w)) :
                 i < Len(PointerPosts(b, p, w)) =>
                    PointerPosts(b, p, w)[i].kind = "absolute"
  <1> DEFINE absolute == [kind |-> "absolute", buttons |-> b, position |-> p, wheel |-> w]
             tick     == [kind |-> "wheel", buttons |-> b, position |-> p, wheel |-> w]
  <1>1. absolute.kind = "absolute" /\ tick.kind = "wheel" /\ tick.wheel = w
    OBVIOUS
  <1>2. PointerPosts(b, p, w) = IF w = 0 THEN <<absolute>> ELSE <<absolute, tick>>
    BY DEF PointerPosts
  <1> HIDE DEF absolute, tick
  <1>3. CASE w = 0
    <2>1. PointerPosts(b, p, w) = <<absolute>>
      BY <1>2, <1>3
    <2>2. Len(<<absolute>>) = 1 /\ <<absolute>>[1] = absolute
      OBVIOUS
    <2>3. WheelOf(<<absolute>>) = 0
      BY <1>1, <2>2 DEF WheelOf
    <2>4. QED
      BY <1>1, <1>3, <2>1, <2>2, <2>3
  <1>4. CASE w # 0
    <2>1. PointerPosts(b, p, w) = <<absolute, tick>>
      BY <1>2, <1>4
    <2>2. /\ Len(<<absolute, tick>>) = 2 /\ <<absolute, tick>> # <<>>
          /\ <<absolute, tick>>[1] = absolute /\ <<absolute, tick>>[2] = tick
      OBVIOUS
    <2>3. WheelOf(<<absolute, tick>>) = w
      BY <1>1, <2>2 DEF WheelOf
    <2>4. QED
      BY <1>1, <2>1, <2>2, <2>3
  <1>5. QED
    BY <1>3, <1>4

(* A HID call that arrives scrolls the host by the tick it carries.        *)
LEMMA PostScrolls ==
    ASSUME host \in Hosts, lost \in Nat, NEW post \in Posts,
           Delivered(AfterPost(host, post)), lost' = 0
    PROVE  /\ lost = 0
           /\ post.kind = "absolute" => host'.scroll = host.scroll
           /\ post.kind # "absolute" => host'.scroll = host.scroll + post.wheel
  <1>1. lost = 0 /\ host' = AfterPost(host, post)
    BY DEF Delivered
  <1>2. CASE post.kind = "absolute"
    <2>1. host' = [host EXCEPT !.buttons = post.buttons, !.position = post.position]
      BY <1>1, <1>2 DEF AfterPost
    <2>2. QED
      BY <1>1, <1>2, <2>1 DEF Hosts
  <1>3. CASE post.kind # "absolute"
    <2>1. host' = [host EXCEPT !.buttons = post.buttons,
                               !.scroll = host.scroll + post.wheel]
      BY <1>1, <1>3 DEF AfterPost, Hosts
    <2>2. QED
      BY <1>1, <1>3, <2>1 DEF Hosts
  <1>4. QED
    BY <1>2, <1>3

(* A keyboard report does not scroll it.                                   *)
LEMMA KeyboardLeavesScroll ==
    ASSUME host \in Hosts, lost \in Nat, NEW m, NEW u,
           Delivered(AfterKeyboard(host, m, u))
    PROVE  host'.scroll = host.scroll /\ (lost' = 0 => lost = 0)
  <1> DEFINE next == AfterKeyboard(host, m, u)
  <1>1. next.scroll = host.scroll
    BY DEF AfterKeyboard, Hosts
  <1>2. Delivered(next)
    OBVIOUS
  <1> HIDE DEF next
  <1>3. QED
    BY <1>1, <1>2 DEF Delivered

(* The tick of the posts being made is a number.                           *)
LEMMA WheelIsNumber ==
    ASSUME NEW posts \in Seq(Posts)
    PROVE  WheelOf(posts) \in Int
  <1>1. CASE posts = <<>>
    BY <1>1 DEF WheelOf
  <1>2. CASE posts # <<>>
    <2>1. Len(posts) \in 1..Len(posts)
      BY <1>2, EmptyQueue
    <2>2. posts[Len(posts)] \in Posts
      BY <2>1
    <2>3. posts[Len(posts)].wheel \in Int
      BY <2>2, WheelsAreNumbers
    <2>4. QED
      BY <2>3 DEF WheelOf
  <1>3. QED
    BY <1>1, <1>2

(* Pushing a report and making a post keep the account.                    *)
LEMMA PushKeepsTicks ==
    ASSUME TypeOK, TicksAhead, pc # "construct", pc' # "construct",
           NEW b \in Buttons, NEW p \in Positions, NEW w \in Wheels,
           PushUrgent(b, p, w), scrolled' = scrolled + w,
           UNCHANGED <<thread, wire, host, lost>>
    PROVE  TicksAhead'
  <1> DEFINE r == [buttons |-> b, position |-> p, wheel |-> w,
                   generation |-> generation + 1]
  <1>1. urgent' = Append(urgent, r) /\ r \in UrgentReports /\ r.wheel = w
    BY DEF PushUrgent, UrgentReports, TypeOK
  <1> HIDE DEF r
  <1>2. /\ urgent \in Seq(UrgentReports) /\ wire \in Seq(Posts)
        /\ scrolled \in Int /\ host.scroll \in Int
    BY DEF TypeOK, Hosts
  <1>3. host.scroll + WheelOf(wire) \in Int
    BY <1>2, WheelIsNumber
  <1>4. ASSUME lost = 0
        PROVE  TicksBetween(urgent', host.scroll + WheelOf(wire), scrolled + w)
    <2>1. TicksBetween(urgent, host.scroll + WheelOf(wire), scrolled)
      BY <1>4 DEF TicksAhead
    <2>2. QED
      BY <1>1, <1>2, <1>3, <2>1, TicksPushed
  <1>5. QED
    BY <1>4 DEF TicksAhead

(* Taking a report moves its tick from the queue to the posts.             *)
LEMMA TakeKeepsTicks ==
    ASSUME TypeOK, TicksAhead, TakeUrgent
    PROVE  TicksAhead'
  <1>1. /\ urgent \in Seq(UrgentReports) /\ urgent # <<>> /\ wire = <<>>
        /\ scrolled \in Int /\ host.scroll \in Int
        /\ urgent' = Tail(urgent) /\ thread' = "send"
        /\ wire' = PointerPosts(Head(urgent).buttons, Head(urgent).position,
                                Head(urgent).wheel)
        /\ UNCHANGED <<pc, host, lost, scrolled>>
    BY DEF TypeOK, Hosts, TakeUrgent, AtLoopTop, TicksAhead, call, hid
  <1>2. Head(urgent) \in UrgentReports
    BY <1>1
  <1>3. /\ Head(urgent).buttons \in Buttons /\ Head(urgent).position \in Positions
        /\ Head(urgent).wheel \in Wheels
    BY <1>2 DEF UrgentReports
  <1>4. /\ WheelOf(wire') = Head(urgent).wheel
        /\ \A i \in 1..Len(wire') : i < Len(wire') => wire'[i].kind = "absolute"
    <2> DEFINE b == Head(urgent).buttons
               p == Head(urgent).position
               w == Head(urgent).wheel
    <2>1. b \in Buttons /\ p \in Positions /\ w \in Wheels /\ wire' = PointerPosts(b, p, w)
      BY <1>1, <1>3
    <2> HIDE DEF b, p, w
    <2>2. /\ WheelOf(wire') = w
          /\ \A i \in 1..Len(wire') : i < Len(wire') => wire'[i].kind = "absolute"
      BY <2>1, PostsCarryTick
    <2>3. QED
      BY <2>2 DEF w
  <1>5. pc' # "construct"
    BY <1>1 DEF TicksAhead
  <1>6. ASSUME lost = 0
        PROVE  TicksBetween(urgent', host.scroll + WheelOf(wire'), scrolled)
    <2>1. WheelOf(wire) = 0
      BY <1>1 DEF WheelOf
    <2>2. TicksBetween(urgent, host.scroll, scrolled)
      BY <1>1, <1>6, <2>1 DEF TicksAhead
    <2>3. QED
      BY <1>1, <1>4, <2>2, TicksTaken
  <1>7. QED
    BY <1>1, <1>4, <1>5, <1>6 DEF TicksAhead

(* A post that arrives scrolls the host by the tick the posts give up.     *)
LEMMA SendKeepsTicks ==
    ASSUME TypeOK, TicksAhead, SendPointer
    PROVE  TicksAhead'
  <1>1. /\ wire \in Seq(Posts) /\ wire # <<>> /\ wire' = Tail(wire)
        /\ thread = "send" /\ host \in Hosts /\ lost \in Nat
        /\ UNCHANGED <<pc, thread, urgent, scrolled>>
        /\ Delivered(AfterPost(host, Head(wire)))
    BY DEF TypeOK, SendPointer, call, input
  <1>2. /\ Len(wire') = Len(wire) - 1 /\ wire' \in Seq(Posts)
        /\ \A i \in 1..Len(wire) - 1 : wire'[i] = wire[i + 1]
        /\ Head(wire) = wire[1] /\ Len(wire) > 0 /\ Len(wire) \in Nat
        /\ wire' = <<>> <=> Len(wire) = 1
        /\ Head(wire) \in Posts
    <2>1. Head(wire) \in Posts /\ Tail(wire) \in Seq(Posts)
      BY <1>1
    <2>2. QED
      BY <1>1, <2>1, QueueEnds
  <1>3. \A i \in 1..Len(wire) : i < Len(wire) => wire[i].kind = "absolute"
    BY DEF TicksAhead
  <1>4. \A i \in 1..Len(wire') : i < Len(wire') => wire'[i].kind = "absolute"
    <2>1. \A i \in 1..Len(wire') : /\ i + 1 \in 1..Len(wire) /\ wire'[i] = wire[i + 1]
                                   /\ i < Len(wire') => i + 1 < Len(wire)
      BY <1>2
    <2>2. QED
      BY <1>3, <2>1
  <1>5. ASSUME lost' = 0
        PROVE  lost = 0 /\ host'.scroll + WheelOf(wire') = host.scroll + WheelOf(wire)
    <2>1. /\ lost = 0
          /\ Head(wire).kind = "absolute" => host'.scroll = host.scroll
          /\ Head(wire).kind # "absolute" => host'.scroll = host.scroll + Head(wire).wheel
      BY <1>1, <1>2, <1>5, PostScrolls
    <2>2. CASE Len(wire) = 1
      <3>1. wire' = <<>> /\ wire[Len(wire)] = Head(wire) /\ WheelOf(wire') = 0
        BY <1>2, <2>2 DEF WheelOf
      <3>2. Head(wire).kind \in {"absolute", "wheel"}
        BY <1>2 DEF Posts
      <3>3. host.scroll \in Int /\ Head(wire).wheel \in Int
        BY <1>1, <1>2, WheelsAreNumbers DEF Hosts
      <3>4. QED
        BY <1>1, <2>1, <3>1, <3>2, <3>3 DEF WheelOf
    <2>3. CASE Len(wire) # 1
      <3>1. Head(wire).kind = "absolute"
        BY <1>2, <1>3, <2>3
      <3>2. wire' # <<>> /\ wire'[Len(wire')] = wire[Len(wire)]
        BY <1>2, <2>3
      <3>3. WheelOf(wire') = WheelOf(wire)
        BY <1>1, <3>2 DEF WheelOf
      <3>4. QED
        BY <2>1, <3>1, <3>3
    <2>4. QED
      BY <2>2, <2>3
  <1>6. QED
    BY <1>1, <1>4, <1>5 DEF TicksAhead

(* No step of either thread loses or repeats a tick.                       *)
LEMMA TicksKept == TypeOK /\ TicksAhead /\ [Next]_vars => TicksAhead'
  <1> SUFFICES ASSUME TypeOK, TicksAhead, [Next]_vars PROVE TicksAhead'
    OBVIOUS
  <1> USE DEF session, call, keyboard, input, loop, hid
  <1>1. ASSUME UNCHANGED <<urgent, scrolled, wire>>, host'.scroll = host.scroll,
               thread' = "send" <=> thread = "send", lost' = 0 => lost = 0,
               pc' = "construct" => pc = "construct"
        PROVE  TicksAhead'
    BY <1>1 DEF TicksAhead
  <1>2. CASE NewClient \/ ClientGone \/ Destroy
    BY <1>1, <1>2 DEF NewClient, ClientGone, Destroy
  <1>3. ASSUME NEW b \in Buttons, NEW p \in Positions, NEW w \in Wheels,
               Pointer(b, p, w)
        PROVE  TicksAhead'
    <2>1. CASE IsUrgent(b, w)
      <3>1. /\ PushUrgent(b, p, w) /\ scrolled' = scrolled + w
            /\ pc # "construct" /\ pc' # "construct"
            /\ UNCHANGED <<thread, wire, host, lost>>
        BY <1>3, <2>1 DEF Pointer
      <3>2. QED
        BY <3>1, PushKeepsTicks
    <2>2. CASE ~IsUrgent(b, w)
      <3>1. /\ UNCHANGED <<thread, wire, host, lost, urgent>>
            /\ scrolled' = scrolled + w /\ pc' # "construct"
        BY <1>3, <2>2 DEF Pointer, CoalesceMovement
      <3>2. w = 0 /\ scrolled \in Int
        BY <2>2 DEF IsUrgent, TypeOK
      <3>3. scrolled' = scrolled
        BY <3>1, <3>2
      <3>4. QED
        BY <1>1, <3>1, <3>3
    <2>3. QED
      BY <2>1, <2>2
  <1>4. ASSUME NEW down \in BOOLEAN, NEW k \in Keysyms, Key(down, k)
        PROVE  TicksAhead'
    BY <1>1, <1>4 DEF Key
  <1>5. CASE FinishConstruction
    <2>1. urgent' = urgent
      BY <1>5 DEF FinishConstruction, TicksAhead
    <2>2. QED
      BY <1>1, <1>5, <2>1 DEF FinishConstruction
  <1>6. CASE Notify \/ Flush \/ FlushWake \/ Stop \/ Join
    BY <1>1, <1>6 DEF Notify, AfterNotify, Flush, FlushWake, Stop, Join, TypeOK
  <1>7. CASE ApplyKey
    <2>1. CASE UNCHANGED hid
      BY <1>1, <1>7, <2>1 DEF ApplyKey
    <2>2. CASE ~UNCHANGED hid
      <3>1. Delivered(AfterKeyboard(host, modifiers', Reported(keys')))
        BY <1>7, <2>2 DEF ApplyKey
      <3>2. host'.scroll = host.scroll /\ (lost' = 0 => lost = 0)
        BY <3>1, KeyboardLeavesScroll DEF TypeOK
      <3>3. QED
        BY <1>1, <1>7, <3>2 DEF ApplyKey
    <2>3. QED
      BY <2>1, <2>2
  <1>8. CASE ReleaseButtons
    <2>1. CASE ButtonsHeld
      <3>1. /\ PushUrgent(NoButtons, position, 0)
            /\ pc # "construct" /\ pc' # "construct" /\ scrolled' = scrolled
            /\ UNCHANGED <<thread, wire, host, lost>>
        BY <1>8, <2>1 DEF ReleaseButtons
      <3>2. scrolled' = scrolled + 0 /\ position \in Positions
        BY <3>1 DEF TypeOK
      <3>3. QED
        BY <3>1, <3>2, PushKeepsTicks
    <2>2. CASE ~ButtonsHeld
      BY <1>1, <1>8, <2>2 DEF ReleaseButtons
    <2>3. QED
      BY <2>1, <2>2
  <1>9. CASE ReleaseKeys
    <2>1. CASE modifiers # {} \/ keys # {}
      <3>1. Delivered(AfterKeyboard(host, {}, {}))
        BY <1>9, <2>1 DEF ReleaseKeys
      <3>2. host'.scroll = host.scroll /\ (lost' = 0 => lost = 0)
        BY <3>1, KeyboardLeavesScroll DEF TypeOK
      <3>3. QED
        BY <1>1, <1>9, <3>2 DEF ReleaseKeys
    <2>2. CASE modifiers = {} /\ keys = {}
      BY <1>1, <1>9, <2>2 DEF ReleaseKeys
    <2>3. QED
      BY <2>1, <2>2
  <1>10. CASE LoopExit \/ LoopSleep \/ LoopWake \/ LoopAwaitTick \/ LoopTimedWake \/ Tick
    BY <1>1, <1>10 DEF LoopExit, LoopSleep, LoopWake, LoopAwaitTick, LoopTimedWake,
                       Tick, loopOnly, AtLoopTop
  <1>11. CASE TakeUrgent
    BY <1>11, TakeKeepsTicks
  <1>12. CASE TakeMovement
    <2>1. /\ wire = <<>> /\ thread' = "send" /\ urgent = <<>>
          /\ UNCHANGED <<pc, urgent, scrolled, host, lost>>
          /\ wire' = PointerPosts(buttons, position, 0)
      BY <1>12 DEF TakeMovement, AtLoopTop, TicksAhead
    <2>2. /\ WheelOf(wire') = 0
          /\ \A i \in 1..Len(wire') : i < Len(wire') => wire'[i].kind = "absolute"
      BY <2>1, PostsCarryTick DEF TypeOK
    <2>3. WheelOf(wire) = 0
      BY <2>1 DEF WheelOf
    <2>4. QED
      BY <2>1, <2>2, <2>3 DEF TicksAhead
  <1>13. CASE SendPointer
    BY <1>13, SendKeepsTicks
  <1>14. CASE Complete
    BY <1>14 DEF Complete, TicksAhead
  <1>15. CASE Joined \/ UNCHANGED vars
    BY <1>1, <1>15 DEF Joined, vars
  <1>16. QED
    BY <1>2, <1>3, <1>4, <1>5, <1>6, <1>7, <1>8, <1>9, <1>10, <1>11, <1>12, <1>13,
       <1>14, <1>15 DEF Next, Foreground, PointerLoop

(* Every tick a viewer asked for arrives: with nothing outstanding and no  *)
(* HID call lost, the host has scrolled as far as it was told to, whether  *)
(* or not the new thread may run ahead of the constructor.                 *)
THEOREM TicksArrive == Spec => []EveryTickArrives
  <1>1. Init => TicksAhead
    <2> SUFFICES ASSUME Init PROVE TicksAhead
      OBVIOUS
    <2>1. urgent = <<>> /\ wire = <<>> /\ host.scroll = 0 /\ scrolled = 0
      BY DEF Init
    <2>2. WheelOf(wire) = 0 /\ Len(wire) = 0
      BY <2>1 DEF WheelOf
    <2>3. TicksBetween(urgent, host.scroll + WheelOf(wire), scrolled)
      BY <2>1, <2>2, TicksOfNone
    <2>4. QED
      BY <2>1, <2>2, <2>3 DEF TicksAhead
  <1>2. TypeOK /\ TicksAhead => EveryTickArrives
    <2> SUFFICES ASSUME TypeOK, TicksAhead, ~Outstanding, lost = 0
                 PROVE  host.scroll = scrolled
      BY DEF EveryTickArrives
    <2>1. urgent = <<>> /\ wire = <<>> /\ host.scroll \in Int /\ scrolled \in Int
      BY DEF Outstanding, Work, TicksAhead, TypeOK, Hosts
    <2>2. WheelOf(wire) = 0
      BY <2>1 DEF WheelOf
    <2>3. TicksBetween(<<>>, host.scroll, scrolled)
      BY <2>1, <2>2 DEF TicksAhead
    <2>4. QED
      BY <2>1, <2>3, TicksOfNone
  <1>3. QED
    BY <1>1, <1>2, TicksKept, TypeCorrect, PTL DEF Spec
=============================================================================
