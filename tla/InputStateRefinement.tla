------------------------ MODULE InputStateRefinement ------------------------
(***************************************************************************)
(* InputState implements InputOrder, for every value of the constants: the *)
(* refinement mapping reads the urgent queue and the slot for movement as  *)
(* one queue.                                                              *)
(***************************************************************************)
EXTENDS InputStateProofs, SequenceTheorems

USE ConstantsAssumption DEF ConstantsAssumption, NoButtons

(* Both modules mean the same reports by HIDReports.                       *)
LEMMA SameReports ==
    /\ Order!NoButtons = NoButtons
    /\ \A b, p, w : Order!PointerPosts(b, p, w) = PointerPosts(b, p, w)
    /\ \A h, post : Order!AfterPost(h, post) = AfterPost(h, post)
    /\ \A h, m, u : Order!AfterKeyboard(h, m, u) = AfterKeyboard(h, m, u)
  BY DEF Order!NoButtons, Order!PointerPosts, PointerPosts, Order!AfterPost, AfterPost,
         Order!AfterKeyboard, AfterKeyboard

queue == IF pc = "construct" THEN <<>> ELSE WaitingReports

(* What the mapped queue holds: the urgent reports, then the movement.     *)
Contents ==
    /\ WaitingReports \in Seq(Order!Reports)
    /\ Len(urgent) \in Nat
    /\ Len(WaitingReports) = Len(urgent) + (IF pending THEN 1 ELSE 0)
    /\ \A i \in 1..Len(urgent) : WaitingReports[i] = Transition(urgent[i])
    /\ pending => WaitingReports[Len(urgent) + 1] = Movement

(* An urgent report is one of InputOrder's, and not a movement.            *)
LEMMA ReportOfTransition == \A r \in UrgentReports : Transition(r) \in Order!Reports
  <1>1. FALSE \in BOOLEAN
    OBVIOUS
  <1>2. \A r \in UrgentReports : /\ r.buttons \in Buttons
                                 /\ r.position \in Positions
                                 /\ r.wheel \in {-1, 0, 1}
    BY DEF UrgentReports
  <1>3. QED
    BY <1>1, <1>2 DEF Transition, Order!Reports

(* What the mapped queue is, element by element.                           *)
LEMMA QueueContents == TypeOK => Contents
  <1> SUFFICES ASSUME TypeOK PROVE Contents
    OBVIOUS
  <1> DEFINE n == Len(urgent) + (IF pending THEN 1 ELSE 0)
             e(i) == IF i <= Len(urgent) THEN Transition(urgent[i]) ELSE Movement
  <1>1. Len(urgent) \in Nat /\ n \in Nat
    BY DEF TypeOK
  <1>2. \A i \in 1..Len(urgent) : Transition(urgent[i]) \in Order!Reports
    <2>2. \A i \in 1..Len(urgent) : urgent[i] \in UrgentReports
      BY DEF TypeOK
    <2>3. QED
      BY <2>2, ReportOfTransition
  <1>3. Movement \in Order!Reports
    BY DEF Movement, Order!Reports, TypeOK
  <1>4. \A i \in 1..n : e(i) \in Order!Reports
    BY <1>1, <1>2, <1>3
  <1>5. WaitingReports = [i \in 1..n |-> e(i)]
    BY DEF WaitingReports
  <1> HIDE DEF e
  <1>6. WaitingReports \in Seq(Order!Reports) /\ Len(WaitingReports) = n
        /\ \A i \in 1..n : WaitingReports[i] = e(i)
    BY <1>1, <1>4, <1>5
  <1>7. QED
    BY <1>1, <1>6 DEF e, Contents

(* The same of the state after a step.                                     *)
LEMMA QueueContentsAfter == TypeOK' => Contents'
  BY QueueContents, PTL

(* A step that leaves the urgent queue and the movement alone leaves the   *)
(* mapped queue alone.                                                     *)
LEMMA SameQueue ==
    ASSUME TypeOK, TypeOK', UNCHANGED <<urgent, pending>>,
           pending => UNCHANGED <<buttons, position>>
    PROVE  WaitingReports' = WaitingReports
  <1>1. Contents /\ Contents'
    BY QueueContents, QueueContentsAfter
  <1>2. \A i \in 1..Len(WaitingReports) : WaitingReports'[i] = WaitingReports[i]
    <2>1. \A i \in 1..Len(urgent) : WaitingReports'[i] = WaitingReports[i]
      BY <1>1 DEF Contents, Transition
    <2>2. pending => WaitingReports'[Len(urgent) + 1] = WaitingReports[Len(urgent) + 1]
      BY <1>1 DEF Contents, Movement
    <2>3. \A i \in 1..Len(WaitingReports) :
             i \in 1..Len(urgent) \/ (pending /\ i = Len(urgent) + 1)
      BY <1>1 DEF Contents
    <2>4. QED
      BY <2>1, <2>2, <2>3
  <1>3. Len(WaitingReports') = Len(WaitingReports)
    BY <1>1 DEF Contents
  <1>4. QED
    BY <1>1, <1>2, <1>3, SeqEqual DEF Contents

(* Without the movement, the mapped queue is the urgent one.               *)
LEMMA TransitionsOfQueue ==
    ASSUME Contents
    PROVE  /\ Order!Transitions(WaitingReports) \in Seq(Order!Reports)
           /\ Len(Order!Transitions(WaitingReports)) = Len(urgent)
           /\ \A i \in 1..Len(urgent) :
                 Order!Transitions(WaitingReports)[i] = Transition(urgent[i])
  <1> DEFINE q == WaitingReports
  <1>1. q \in Seq(Order!Reports) /\ Len(urgent) \in Nat
    BY DEF Contents
  <1>2. CASE pending
    <2>1. Len(q) = Len(urgent) + 1 /\ q[Len(q)].movement = TRUE
      BY <1>2 DEF Contents, Movement
    <2>2. Order!Transitions(q) = SubSeq(q, 1, Len(urgent))
      BY <1>1, <2>1 DEF Order!Transitions
    <2>3. \A i \in 1..Len(urgent) : q[i] \in Order!Reports
      BY <1>1, <2>1
    <2>4. QED
      BY <1>1, <2>1, <2>2, <2>3, SubSeqProperties DEF Contents
  <1>3. CASE ~pending
    <2>1. Len(q) = Len(urgent)
      BY <1>1, <1>3 DEF Contents
    <2>2. q # <<>> => q[Len(q)].movement = FALSE
      <3>1. ASSUME q # <<>> PROVE Len(q) \in 1..Len(urgent)
        BY <1>1, <2>1, <3>1, EmptyQueue
      <3>2. \A r : Transition(r).movement = FALSE
        BY DEF Transition
      <3>3. ASSUME q # <<>> PROVE q[Len(q)] = Transition(urgent[Len(q)])
        BY <3>1, <3>3 DEF Contents
      <3>4. QED
        BY <3>2, <3>3
    <2>3. Order!Transitions(q) = q
      BY <2>2 DEF Order!Transitions
    <2>4. QED
      BY <1>1, <2>1, <2>3 DEF Contents
  <1>4. QED
    BY <1>2, <1>3

(* A new report replaces the movement that waits at the end, if one does.  *)
LEMMA PushAppends ==
    ASSUME TypeOK, TypeOK', pc # "construct",
           NEW b \in Buttons, NEW p \in Positions, NEW w \in Wheels,
           PushUrgent(b, p, w)
    PROVE  WaitingReports' = Append(Order!Transitions(WaitingReports),
               [buttons |-> b, position |-> p, wheel |-> w, movement |-> FALSE])
  <1> DEFINE r == [buttons |-> b, position |-> p, wheel |-> w,
                   generation |-> generation + 1]
             kept == Order!Transitions(WaitingReports)
  <1>1. /\ urgent' = Append(urgent, r) /\ r \in UrgentReports
        /\ pending' = FALSE /\ urgent \in Seq(UrgentReports)
        /\ Transition(r) = [buttons |-> b, position |-> p, wheel |-> w, movement |-> FALSE]
    BY DEF PushUrgent, SupersedeMovement, UrgentReports, TypeOK, Transition
  <1>2. Contents /\ Contents'
    BY QueueContents, QueueContentsAfter
  <1>3. queue = WaitingReports
    BY DEF queue
  <1> HIDE DEF r
  <1>4. /\ kept \in Seq(Order!Reports) /\ Len(kept) = Len(urgent)
        /\ \A i \in 1..Len(urgent) : kept[i] = Transition(urgent[i])
    BY <1>2, TransitionsOfQueue
  <1>5. Transition(r) \in Order!Reports
    BY <1>1, ReportOfTransition
  <1> HIDE DEF kept
  <1>6. /\ Append(kept, Transition(r)) \in Seq(Order!Reports)
        /\ Len(Append(kept, Transition(r))) = Len(urgent) + 1
        /\ \A i \in 1..Len(urgent) : Append(kept, Transition(r))[i] = kept[i]
        /\ Append(kept, Transition(r))[Len(urgent) + 1] = Transition(r)
    BY <1>2, <1>4, <1>5 DEF Contents
  <1>7. /\ Len(urgent') = Len(urgent) + 1
        /\ \A i \in 1..Len(urgent) : urgent'[i] = urgent[i]
        /\ urgent'[Len(urgent) + 1] = r
    BY <1>1, QueueEnds
  <1>8. Len(WaitingReports') = Len(urgent) + 1
    BY <1>1, <1>2, <1>7 DEF Contents
  <1>9. \A i \in 1..Len(urgent) + 1 : WaitingReports'[i] = Transition(urgent'[i])
    BY <1>2, <1>7 DEF Contents, Transition
  <1>10. \A i \in 1..Len(urgent) + 1 : WaitingReports'[i] = Append(kept, Transition(r))[i]
    <2>1. \A i \in 1..Len(urgent) + 1 : i \in 1..Len(urgent) \/ i = Len(urgent) + 1
      BY <1>2 DEF Contents
    <2>2. QED
      BY <1>2, <1>4, <1>6, <1>7, <1>9, <2>1 DEF Contents
  <1>11. WaitingReports' = Append(kept, Transition(r))
    BY <1>2, <1>6, <1>8, <1>10, SeqEqual DEF Contents
  <1>12. QED
    BY <1>1, <1>11 DEF kept

(* Coalescing movement replaces a movement at the end, or appends one.     *)
LEMMA CoalesceAppends ==
    ASSUME TypeOK, TypeOK', NEW p \in Positions, CoalesceMovement(p)
    PROVE  WaitingReports' = Append(Order!Transitions(WaitingReports),
               [buttons |-> buttons, position |-> p, wheel |-> 0, movement |-> TRUE])
  <1> DEFINE kept == Order!Transitions(WaitingReports)
             m == [buttons |-> buttons, position |-> p, wheel |-> 0, movement |-> TRUE]
  <1>1. urgent' = urgent /\ pending' = TRUE /\ Movement' = m
    BY DEF CoalesceMovement, Movement
  <1>2. Contents /\ Contents'
    BY QueueContents, QueueContentsAfter
  <1>3. /\ kept \in Seq(Order!Reports) /\ Len(kept) = Len(urgent)
        /\ \A i \in 1..Len(urgent) : kept[i] = Transition(urgent[i])
    BY <1>2, TransitionsOfQueue
  <1>4. m \in Order!Reports
    BY DEF Order!Reports, TypeOK
  <1> HIDE DEF kept, m
  <1>5. /\ Append(kept, m) \in Seq(Order!Reports)
        /\ Len(Append(kept, m)) = Len(urgent) + 1
        /\ \A i \in 1..Len(urgent) : Append(kept, m)[i] = kept[i]
        /\ Append(kept, m)[Len(urgent) + 1] = m
    BY <1>2, <1>3, <1>4 DEF Contents
  <1>6. /\ Len(WaitingReports') = Len(urgent) + 1
        /\ \A i \in 1..Len(urgent) : WaitingReports'[i] = Transition(urgent[i])
        /\ WaitingReports'[Len(urgent) + 1] = m
    BY <1>1, <1>2 DEF Contents, Transition
  <1>7. \A i \in 1..Len(urgent) + 1 : WaitingReports'[i] = Append(kept, m)[i]
    <2>1. \A i \in 1..Len(urgent) + 1 : i \in 1..Len(urgent) \/ i = Len(urgent) + 1
      BY <1>2 DEF Contents
    <2>2. QED
      BY <1>3, <1>5, <1>6, <2>1
  <1>8. WaitingReports' = Append(kept, m)
    BY <1>2, <1>5, <1>6, <1>7, SeqEqual DEF Contents
  <1>9. QED
    BY <1>8 DEF kept, m

(* Taking the oldest urgent report takes the head of the mapped queue, and *)
(* so does taking the movement once no urgent report is left.              *)
LEMMA TakeUrgentTakes ==
    ASSUME TypeOK, TypeOK', TakeUrgent
    PROVE  /\ WaitingReports # <<>>
           /\ Head(WaitingReports) = Transition(Head(urgent))
           /\ WaitingReports' = Tail(WaitingReports)
  <1>1. /\ urgent \in Seq(UrgentReports) /\ urgent # <<>>
        /\ urgent' = Tail(urgent) /\ UNCHANGED <<pending, buttons, position>>
    BY DEF TakeUrgent, TypeOK
  <1>2. Contents /\ Contents'
    BY QueueContents, QueueContentsAfter
  <1>3. /\ Len(urgent') = Len(urgent) - 1 /\ Len(urgent) > 0
        /\ \A i \in 1..Len(urgent) - 1 : urgent'[i] = urgent[i + 1]
        /\ Head(urgent) = urgent[1]
    BY <1>1, QueueEnds
  <1>4. Len(WaitingReports) > 0 /\ WaitingReports \in Seq(Order!Reports)
    BY <1>2, <1>3 DEF Contents
  <1>5. WaitingReports # <<>>
    BY <1>4, EmptyQueue
  <1>6. /\ Tail(WaitingReports) \in Seq(Order!Reports)
        /\ Len(Tail(WaitingReports)) = Len(WaitingReports) - 1
        /\ \A i \in 1..Len(WaitingReports) - 1 :
              Tail(WaitingReports)[i] = WaitingReports[i + 1]
        /\ Head(WaitingReports) = WaitingReports[1]
    BY <1>4, <1>5, HeadTailProperties
  <1>7. Head(WaitingReports) = Transition(Head(urgent))
    BY <1>2, <1>3, <1>6 DEF Contents
  <1>8. Len(WaitingReports') = Len(WaitingReports) - 1
    BY <1>1, <1>2, <1>3 DEF Contents
  <1>9. \A i \in 1..Len(WaitingReports') : WaitingReports'[i] = Tail(WaitingReports)[i]
    <2>1. \A i \in 1..Len(urgent) - 1 :
             /\ WaitingReports'[i] = Transition(urgent[i + 1])
             /\ WaitingReports[i + 1] = Transition(urgent[i + 1])
      <3>1. \A i \in 1..Len(urgent) - 1 : i \in 1..Len(urgent') /\ i + 1 \in 1..Len(urgent)
        BY <1>2, <1>3 DEF Contents
      <3>2. QED
        BY <1>2, <1>3, <3>1 DEF Contents, Transition
    <2>2. pending => /\ WaitingReports'[Len(urgent)] = Movement
                     /\ WaitingReports[Len(urgent) + 1] = Movement
      BY <1>1, <1>2, <1>3 DEF Contents, Movement
    <2>3. \A i \in 1..Len(WaitingReports') :
             /\ i \in 1..Len(WaitingReports) - 1
             /\ i \in 1..Len(urgent) - 1 \/ (pending /\ i = Len(urgent))
      <3>1. Len(WaitingReports') = Len(urgent) - 1 + (IF pending THEN 1 ELSE 0)
        BY <1>2, <1>8 DEF Contents
      <3>2. Len(WaitingReports) \in Nat /\ Len(urgent) \in Nat
        BY <1>2, <1>4 DEF Contents
      <3>3. QED
        BY <1>8, <3>1, <3>2
    <2>4. QED
      BY <1>6, <2>1, <2>2, <2>3
  <1>10. WaitingReports' = Tail(WaitingReports)
    BY <1>2, <1>6, <1>8, <1>9, SeqEqual DEF Contents
  <1>11. QED
    BY <1>5, <1>7, <1>10

(* The pointer thread takes the movement when it is all that waits.        *)
LEMMA TakeMovementTakes ==
    ASSUME TypeOK, TypeOK', TakeMovement
    PROVE  /\ WaitingReports # <<>>
           /\ Head(WaitingReports) = Movement
           /\ WaitingReports' = Tail(WaitingReports)
  <1>1. urgent = <<>> /\ urgent' = <<>> /\ pending /\ pending' = FALSE
    BY DEF TakeMovement
  <1>2. Contents /\ Contents' /\ Len(urgent) = 0
    BY <1>1, QueueContents, QueueContentsAfter
  <1>3. Len(WaitingReports) = 1 /\ WaitingReports[1] = Movement
        /\ WaitingReports \in Seq(Order!Reports)
    BY <1>1, <1>2 DEF Contents
  <1>4. Len(WaitingReports') = 0 /\ WaitingReports' \in Seq(Order!Reports)
    BY <1>1, <1>2 DEF Contents
  <1>5. WaitingReports # <<>> /\ WaitingReports' = <<>>
    <2>1. Len(WaitingReports) # 0
      BY <1>3
    <2>2. WaitingReports # <<>>
      BY <1>3, <2>1, EmptyQueue
    <2>3. WaitingReports' = <<>>
      BY <1>4, EmptyQueue
    <2>4. QED
      BY <2>2, <2>3
  <1>6. /\ Tail(WaitingReports) \in Seq(Order!Reports) /\ Len(Tail(WaitingReports)) = 0
        /\ Head(WaitingReports) = WaitingReports[1]
    BY <1>3, <1>5, HeadTailProperties
  <1>7. QED
    BY <1>3, <1>5, <1>6, EmptyQueue

(* Nothing is outstanding while the foreground thread applies a key or     *)
(* releases the keyboard.                                                  *)
LEMMA NothingBeforeKeys ==
    ASSUME TypeOK, IInv, pc \in {"key", "keys"}
    PROVE  queue = <<>> /\ wire = <<>>
  <1>1. completed = generation /\ GenerationOrder /\ Phases
    BY DEF IInv, Settled
  <1>2. ~pending /\ thread # "send"
    BY <1>1 DEF GenerationOrder, TypeOK
  <1>3. urgent = <<>>
    <2>1. urgent # <<>> => Len(urgent) \in 1..Len(urgent)
      BY EmptyQueue DEF TypeOK
    <2>2. QED
      BY <1>1, <1>2, <2>1 DEF GenerationOrder, TypeOK
  <1>4. Contents /\ Len(urgent) = 0
    BY <1>3, QueueContents
  <1>5. WaitingReports \in Seq(Order!Reports) /\ Len(WaitingReports) = 0
    BY <1>2, <1>4 DEF Contents
  <1>6. WaitingReports = <<>>
    BY <1>5, EmptyQueue
  <1>7. QED
    BY <1>1, <1>2, <1>6 DEF queue, Phases

(* A keyboard report is sent when nothing waits: InputOrder's Keyboard.    *)
LEMMA KeyboardStep ==
    ASSUME TypeOK, TypeOK', IInv, pc \in {"key", "keys"}, pc' # "construct",
           NEW m \in SUBSET Modifiers, NEW u \in SUBSET Usages,
           Delivered(AfterKeyboard(host, m, u)), UNCHANGED <<input, wire>>
    PROVE  Order!Keyboard
  <1>1. queue = <<>> /\ wire = <<>>
    BY NothingBeforeKeys
  <1>2. WaitingReports' = WaitingReports
    BY SameQueue DEF input
  <1>3. host' \in {host, AfterKeyboard(host, m, u)}
    BY DEF Delivered
  <1>4. UNCHANGED <<buttons, scrolled, queue, wire>>
    BY <1>2 DEF input, queue
  <1>5. QED
    BY <1>1, <1>3, <1>4, SameReports DEF Order!Keyboard, queue

(* Every step of the two threads is a step of the abstract queue or leaves *)
(* it unchanged.                                                           *)
LEMMA StepRefines ==
    ASSUME TypeOK, TypeOK', IInv, [Next]_vars, ~EarlyStart
    PROVE  [Order!Next]_(Order!vars)
  <1> USE DEF session, call, keyboard, input, loop, hid
  <1>1. Phases /\ Settled /\ host \in Hosts
    BY DEF IInv, TypeOK
  <1>2. ASSUME UNCHANGED <<urgent, pending, buttons, scrolled, wire, host>>,
               pending => UNCHANGED position,
               (pc' = "construct") <=> (pc = "construct")
        PROVE  UNCHANGED Order!vars
    <2>1. WaitingReports' = WaitingReports
      BY <1>2, SameQueue
    <2>2. QED
      BY <1>2, <2>1 DEF Order!vars
  <1>3. CASE NewClient \/ ClientGone \/ Destroy
    BY <1>2, <1>3 DEF NewClient, ClientGone, Destroy
  <1>4. ASSUME NEW b \in Buttons, NEW p \in Positions, NEW w \in Wheels,
               Pointer(b, p, w)
        PROVE  Order!Accept
    <2>1. /\ pc = "idle" /\ pc' = "notify" /\ scrolled' = scrolled + w
          /\ UNCHANGED <<wire, host>>
      BY <1>4 DEF Pointer
    <2>2. queue = WaitingReports /\ queue' = WaitingReports'
      BY <2>1 DEF queue
    <2>3. CASE IsUrgent(b, w)
      <3> DEFINE r == [buttons |-> b, position |-> p, wheel |-> w, movement |-> FALSE]
      <3>1. PushUrgent(b, p, w)
        BY <1>4, <2>3 DEF Pointer
      <3>2. WaitingReports' = Append(Order!Transitions(WaitingReports), r)
        BY <2>1, <3>1, PushAppends
      <3>3. r \in Order!Reports
        <4>1. FALSE \in BOOLEAN
          OBVIOUS
        <4>2. w \in {-1, 0, 1}
          OBVIOUS
        <4>3. QED
          BY <4>1, <4>2 DEF Order!Reports
      <3>4. r.movement = (r.buttons = buttons /\ r.wheel = 0)
        BY <2>3 DEF IsUrgent
      <3>5. r.buttons = b /\ r.wheel = w /\ buttons' = b
        BY <3>1 DEF PushUrgent
      <3> HIDE DEF r
      <3>6. QED
        BY <2>1, <2>2, <3>2, <3>3, <3>4, <3>5 DEF Order!Accept, queue
    <2>4. CASE ~IsUrgent(b, w)
      <3> DEFINE r == [buttons |-> buttons, position |-> p, wheel |-> 0, movement |-> TRUE]
      <3>1. CoalesceMovement(p) /\ b = buttons /\ w = 0
        BY <1>4, <2>4 DEF Pointer, IsUrgent
      <3>2. WaitingReports' = Append(Order!Transitions(WaitingReports), r)
        BY <3>1, CoalesceAppends
      <3>3. r \in Order!Reports
        BY DEF Order!Reports, TypeOK
      <3>4. r.movement = (r.buttons = buttons /\ r.wheel = 0)
        OBVIOUS
      <3>5. r.buttons = buttons /\ r.wheel = 0 /\ buttons' = buttons
        BY <3>1 DEF CoalesceMovement
      <3> HIDE DEF r
      <3>6. QED
        BY <2>1, <2>2, <3>1, <3>2, <3>3, <3>4, <3>5 DEF Order!Accept, queue
    <2>5. QED
      BY <2>3, <2>4
  <1>5. ASSUME NEW down \in BOOLEAN, NEW k \in Keysyms, Key(down, k)
        PROVE  UNCHANGED Order!vars
    BY <1>2, <1>5 DEF Key
  <1>6. CASE FinishConstruction
    <2>1. /\ pc = "construct" /\ pc' = "idle" /\ urgent' = <<>> /\ pending' = FALSE
          /\ buttons' = NoButtons /\ UNCHANGED <<scrolled, wire, host>>
      BY <1>6 DEF FinishConstruction
    <2>2. buttons = NoButtons
      BY <1>1, <2>1 DEF Phases, Settled
    <2>3. Contents' /\ Len(urgent') = 0
      BY <2>1, QueueContentsAfter
    <2>4. Len(WaitingReports') = 0 /\ WaitingReports' \in Seq(Order!Reports)
      BY <2>1, <2>3 DEF Contents
    <2>5. WaitingReports' = <<>>
      BY <2>4, EmptyQueue
    <2>6. QED
      BY <2>1, <2>2, <2>5 DEF Order!vars
  <1>7. CASE Notify \/ Flush \/ FlushWake \/ Stop \/ Join
    BY <1>1, <1>2, <1>7 DEF Notify, AfterNotify, Flush, FlushWake, Stop, Join, Phases, TypeOK
  <1>8. CASE ApplyKey
    <2>1. CASE UNCHANGED hid
      BY <1>2, <1>8, <2>1 DEF ApplyKey
    <2>2. CASE ~UNCHANGED hid
      <3>1. keys' \in SUBSET TypedKeys
        BY <1>8 DEF TypeOK, ApplyKey, ChangedKeys, IsTyped
      <3>2. modifiers' \in SUBSET Modifiers
        BY <1>8 DEF TypeOK, ApplyKey, ChangedModifiers, Modifiers, KeyEvents
      <3>3. Reported(keys') \in SUBSET Usages
        BY <3>1, ReportedType
      <3>4. Delivered(AfterKeyboard(host, modifiers', Reported(keys')))
        BY <1>8, <2>2 DEF ApplyKey
      <3>5. pc = "key" /\ pc' # "construct" /\ UNCHANGED <<input, wire>>
        BY <1>8 DEF ApplyKey
      <3>6. Order!Keyboard
        BY <3>2, <3>3, <3>4, <3>5, KeyboardStep
      <3>7. QED
        BY <3>6 DEF Order!Next
    <2>3. QED
      BY <2>1, <2>2
  <1>9. CASE ReleaseButtons
    <2>1. CASE ButtonsHeld
      <3> DEFINE r == [buttons |-> NoButtons, position |-> position, wheel |-> 0,
                       movement |-> FALSE]
      <3>1. /\ PushUrgent(NoButtons, position, 0) /\ pc = "release" /\ pc' = "renotify"
            /\ UNCHANGED <<wire, host, scrolled>> /\ buttons # NoButtons
        BY <1>9, <2>1 DEF ReleaseButtons, ButtonsHeld
      <3>2. WaitingReports' = Append(Order!Transitions(WaitingReports), r)
        BY <3>1, PushAppends DEF TypeOK
      <3>3. r \in Order!Reports
        <4>1. FALSE \in BOOLEAN
          OBVIOUS
        <4>2. QED
          BY <4>1 DEF Order!Reports, TypeOK
      <3>4. r.movement = (r.buttons = buttons /\ r.wheel = 0)
        BY <3>1
      <3>5. r.buttons = NoButtons /\ r.wheel = 0 /\ buttons' = NoButtons
        BY <3>1 DEF PushUrgent
      <3>6. queue = WaitingReports /\ queue' = WaitingReports'
        BY <3>1 DEF queue
      <3>7. scrolled' = scrolled + 0
        BY <3>1 DEF TypeOK
      <3> HIDE DEF r
      <3>8. Order!Accept
        BY <3>1, <3>2, <3>3, <3>4, <3>5, <3>6, <3>7 DEF Order!Accept, queue
      <3>9. QED
        BY <3>8 DEF Order!Next
    <2>2. CASE ~ButtonsHeld
      BY <1>2, <1>9, <2>2 DEF ReleaseButtons
    <2>3. QED
      BY <2>1, <2>2
  <1>10. CASE ReleaseKeys
    <2>1. CASE modifiers # {} \/ keys # {}
      <3>1. /\ Delivered(AfterKeyboard(host, {}, {})) /\ pc = "keys"
            /\ pc' # "construct" /\ UNCHANGED <<input, wire>>
        BY <1>10, <2>1 DEF ReleaseKeys
      <3>2. Order!Keyboard
        BY <3>1, KeyboardStep
      <3>3. QED
        BY <3>2 DEF Order!Next
    <2>2. CASE modifiers = {} /\ keys = {}
      BY <1>2, <1>10, <2>2 DEF ReleaseKeys
    <2>3. QED
      BY <2>1, <2>2
  <1>11. CASE LoopExit \/ LoopSleep \/ LoopWake \/ LoopAwaitTick \/ LoopTimedWake
              \/ Complete \/ Tick
    BY <1>2, <1>11 DEF LoopExit, LoopSleep, LoopWake, LoopAwaitTick, LoopTimedWake,
                       Complete, Tick, loopOnly
  <1>12. CASE TakeUrgent
    <2>1. /\ pc # "construct" /\ pc' = pc /\ wire = <<>>
          /\ UNCHANGED <<buttons, scrolled, host>>
          /\ wire' = PointerPosts(Head(urgent).buttons, Head(urgent).position,
                                  Head(urgent).wheel)
      BY <1>1, <1>12 DEF TakeUrgent, AtLoopTop, Phases
    <2>2. /\ WaitingReports # <<>> /\ Head(WaitingReports) = Transition(Head(urgent))
          /\ WaitingReports' = Tail(WaitingReports)
      BY <1>12, TakeUrgentTakes
    <2>3. wire' = PointerPosts(Head(WaitingReports).buttons, Head(WaitingReports).position,
                               Head(WaitingReports).wheel)
      BY <2>1, <2>2 DEF Transition
    <2>4. Order!Take
      BY <2>1, <2>2, <2>3, SameReports DEF Order!Take
    <2>5. QED
      BY <2>4 DEF Order!Next
  <1>13. CASE TakeMovement
    <2>1. /\ pc # "construct" /\ pc' = pc /\ wire = <<>>
          /\ UNCHANGED <<buttons, scrolled, host>>
          /\ wire' = PointerPosts(buttons, position, 0)
      BY <1>1, <1>13 DEF TakeMovement, AtLoopTop, Phases
    <2>2. /\ WaitingReports # <<>> /\ Head(WaitingReports) = Movement
          /\ WaitingReports' = Tail(WaitingReports)
      BY <1>13, TakeMovementTakes
    <2>3. wire' = PointerPosts(Head(WaitingReports).buttons, Head(WaitingReports).position,
                               Head(WaitingReports).wheel)
      BY <2>1, <2>2 DEF Movement
    <2>4. Order!Take
      BY <2>1, <2>2, <2>3, SameReports DEF Order!Take
    <2>5. QED
      BY <2>4 DEF Order!Next
  <1>14. CASE SendPointer
    <2>1. /\ wire # <<>> /\ wire' = Tail(wire) /\ pc' = pc
          /\ UNCHANGED <<urgent, pending, buttons, position, scrolled>>
          /\ host' \in {host, AfterPost(host, Head(wire))}
      BY <1>14 DEF SendPointer, Delivered
    <2>2. WaitingReports' = WaitingReports
      BY <2>1, SameQueue
    <2>3. Order!Post
      BY <2>1, <2>2, SameReports DEF Order!Post
    <2>4. QED
      BY <2>3 DEF Order!Next
  <1>15. CASE Joined \/ UNCHANGED vars
    BY <1>2, <1>15 DEF Joined, vars
  <1>16. QED
    BY <1>3, <1>4, <1>5, <1>6, <1>7, <1>8, <1>9, <1>10, <1>11, <1>12, <1>13, <1>14, <1>15
       DEF Next, Foreground, PointerLoop, Order!Next

-----------------------------------------------------------------------------
(* InputState keeps the promise of InputOrder: no transition or tick is    *)
(* dropped or reordered, and no keyboard report passes pointer input.      *)
THEOREM OrderImplemented ==
    ASSUME ~EarlyStart
    PROVE  Spec => ImplementsOrder
  <1>1. Init => Order!Init
    BY SameReports DEF Init, Order!Init
  <1>2. TypeOK /\ TypeOK' /\ IInv /\ [Next]_vars => [Order!Next]_(Order!vars)
    BY StepRefines
  <1>3. QED
    BY <1>1, <1>2, TypeCorrect, Invariant, PTL DEF Spec, Order!Spec, ImplementsOrder
=============================================================================
