-------------------------- MODULE SharedRingProofs --------------------------
(***************************************************************************)
(* Theorems about SharedRing, for every number of slots, viewers and       *)
(* frames, with machine-checked proofs.                                    *)
(***************************************************************************)
EXTENDS SharedRing, TLAPS

USE RingAssumption DEF RingAssumption, Slots, None

SlotRecords == [state : {"free", "writing", "ready", "reading"},
                sequence : 0 .. MaxFrames, valid : BOOLEAN]

(* What the core's and the media thread's program points know. *)
Phases ==
    /\ core \in {"write", "publish"} =>
          /\ target \in Slots /\ slots[target].state = "writing"
          /\ published < MaxFrames
    /\ pc \in {"discard", "check"} => selected \in Slots

(* A slot is changed without a change of its type. *)
LEMMA SlotChange ==
    ASSUME NEW s \in Slots, slots \in [Slots -> SlotRecords],
           NEW r \in SlotRecords
    PROVE  [slots EXCEPT ![s] = r] \in [Slots -> SlotRecords]
  OBVIOUS

(* A state or a frame is written into a slot record. *)
LEMMA RecordChange ==
    ASSUME NEW r \in SlotRecords
    PROVE  /\ \A x \in {"free", "writing", "ready", "reading"} :
                 [r EXCEPT !.state = x] \in SlotRecords
           /\ \A n \in 0 .. MaxFrames, b \in BOOLEAN :
                 [r EXCEPT !.sequence = n, !.valid = b] \in SlotRecords
  <1>1. ASSUME NEW x \in {"free", "writing", "ready", "reading"}
        PROVE  [r EXCEPT !.state = x] \in SlotRecords
    BY DEF SlotRecords
  <1>2. ASSUME NEW n \in 0 .. MaxFrames, NEW b \in BOOLEAN
        PROVE  [r EXCEPT !.sequence = n, !.valid = b] \in SlotRecords
    BY DEF SlotRecords
  <1>3. QED
    BY <1>1, <1>2

(* The records of slots are of their type after every step. *)
LEMMA SlotsTyped ==
    ASSUME TypeOK, Phases, Next
    PROVE  slots' \in [Slots -> SlotRecords]
  <1>1. slots \in [Slots -> SlotRecords]
    BY DEF TypeOK, SlotRecords
  <1>2. ASSUME NEW s \in Slots, NEW x \in {"free", "writing", "ready", "reading"}
        PROVE  [slots EXCEPT ![s].state = x] \in [Slots -> SlotRecords]
    BY <1>1, RecordChange
  <1>3. ASSUME LetGo PROVE slots' \in [Slots -> SlotRecords]
    <2>1. \A s \in Slots : [slots[s] EXCEPT !.state = "free"] \in SlotRecords
      BY <1>1, RecordChange
    <2>2. QED
      BY <1>1, <1>3, <2>1 DEF LetGo
  <1>4. ASSUME NEW s \in Slots, Claim(s) PROVE slots' \in [Slots -> SlotRecords]
    BY <1>4, <1>2 DEF Claim
  <1>5. CASE Write
    <2>1. PICK valid \in Validity :
             slots' = [slots EXCEPT ![target] =
                          [@ EXCEPT !.sequence = published + 1, !.valid = valid]]
      BY <1>5 DEF Write
    <2>2. target \in Slots /\ published + 1 \in 0 .. MaxFrames
      <3>1. target \in Slots /\ published < MaxFrames
        BY <1>5 DEF Write, Phases
      <3>2. published \in 0 .. MaxFrames
        BY DEF TypeOK
      <3>3. QED
        BY <3>1, <3>2
    <2>3. slots[target] \in SlotRecords
      BY <1>1, <2>2
    <2>4. valid \in BOOLEAN
      BY RingAssumption
    <2> DEFINE r == [slots[target] EXCEPT !.sequence = published + 1, !.valid = valid]
    <2>5. r \in SlotRecords
      BY <2>2, <2>3, <2>4, RecordChange
    <2>6. slots' = [slots EXCEPT ![target] = r]
      BY <2>1
    <2> HIDE DEF r
    <2>7. QED
      BY <1>1, <2>2, <2>5, <2>6, SlotChange
  <1>6. CASE Publish
    <2>1. target \in Slots /\ slots' = [slots EXCEPT ![target].state = "ready"]
      BY <1>6 DEF Publish, Phases
    <2>2. QED
      BY <1>2, <2>1
  <1>7. CASE Select
    <2>1. selected \in Slots \cup {None}
      BY DEF TypeOK
    <2>2. \/ selected \in Slots /\ slots' = [slots EXCEPT ![selected].state = "reading"]
          \/ UNCHANGED slots
      BY <1>7, <2>1 DEF Select
    <2>3. QED
      BY <1>1, <1>2, <2>2
  <1>8. CASE Discard
    <2>1. index \in Slots
      BY DEF TypeOK
    <2>2. slots' = [slots EXCEPT ![index].state = "free"] \/ UNCHANGED slots
      BY <1>8 DEF Discard
    <2>3. QED
      BY <1>1, <1>2, <2>1, <2>2
  <1>9. CASE Refuse
    <2>1. selected \in Slots /\ slots' = [slots EXCEPT ![selected].state = "free"]
      BY <1>9 DEF Refuse, Phases
    <2>2. QED
      BY <1>2, <2>1
  <1>10. CASE Deliver
    BY <1>10, <1>3 DEF Deliver
  <1>11. CASE EndPass
    BY <1>11, <1>3 DEF EndPass
  <1>12. ASSUME NEW v \in Viewers, FinishJPEG(v) PROVE slots' \in [Slots -> SlotRecords]
    BY <1>12, <1>3 DEF FinishJPEG
  <1>13. CASE Signal
    BY <1>13, <1>1 DEF Signal
  <1>14. CASE Poll \/ Clear \/ Scan \/ Compare
    BY <1>14, <1>1 DEF Poll, Clear, Scan, Compare, ring
  <1>15. CASE BeginPass \/ \E v \in Viewers : QueueJPEG(v)
    BY <1>15, <1>1 DEF BeginPass, QueueJPEG, ring
  <1>16. QED
    BY <1>4, <1>5, <1>6, <1>7, <1>8, <1>9, <1>10, <1>11, <1>12, <1>13, <1>14, <1>15
       DEF Next, CoreGoesOn, MediaThread

(* The rest of the type invariant, the slots aside, is kept by every step. *)
OtherTypes ==
    /\ notified \in BOOLEAN /\ event \in BOOLEAN
    /\ core \in {"idle", "write", "publish", "signal"}
    /\ target \in Slots \cup {None} /\ published \in 0 .. MaxFrames
    /\ pc \in {"poll", "clear", "scan", "compare", "claim", "discard", "check"}
    /\ index \in Slots /\ selected \in Slots \cup {None}
    /\ newest \in 0 .. MaxFrames
    /\ latest \in Slots \cup {None} /\ frame \in Slots \cup {None}
    /\ pending \in [Viewers -> Slots \cup {None}]
    /\ leased \in [Slots -> 0 .. MaxFrames]

(* Every step keeps them. *)
LEMMA OthersTyped ==
    ASSUME TypeOK, Phases, Next
    PROVE  OtherTypes'
  <1> USE DEF ring, producer, take, leases, Advance, Returned
  <1>1. OtherTypes /\ slots \in [Slots -> SlotRecords]
    BY DEF TypeOK, OtherTypes, SlotRecords
  <1>2. TRUE \in BOOLEAN /\ FALSE \in BOOLEAN /\ 1 \in Slots
    BY RingAssumption
  <1>3. ASSUME NEW s \in Slots, Claim(s) PROVE OtherTypes'
    BY <1>1, <1>3 DEF Claim, OtherTypes
  <1>4. CASE Write
    <2>1. core' = "publish" /\ UNCHANGED <<notified, event, target, published, take, leases>>
      BY <1>4 DEF Write
    <2>2. QED
      BY <1>1, <2>1 DEF OtherTypes
  <1>5. CASE Publish
    <2>1. /\ core' = "signal" /\ target' = None /\ published' = published + 1
          /\ UNCHANGED <<notified, event, take, leases>>
      BY <1>5 DEF Publish
    <2>2. published' \in 0 .. MaxFrames
      <3>1. published < MaxFrames
        BY <1>5 DEF Publish, Phases
      <3>2. published \in 0 .. MaxFrames
        BY <1>1 DEF OtherTypes
      <3>3. QED
        BY <2>1, <3>1, <3>2, RingAssumption
    <2>3. QED
      BY <1>1, <2>1, <2>2 DEF OtherTypes
  <1>6. CASE Signal
    <2>1. notified' \in BOOLEAN /\ event' \in BOOLEAN
      BY <1>1, <1>2, <1>6, Zenon DEF Signal, OtherTypes
    <2>2. QED
      BY <1>1, <1>6, <2>1 DEF Signal, OtherTypes
  <1>7. CASE Poll
    BY <1>1, <1>2, <1>7 DEF Poll, OtherTypes
  <1>8. CASE Clear
    <2>1. notified' \in BOOLEAN
      BY <1>2, <1>8 DEF Clear, ClearNotified
    <2>2. /\ pc' = "scan" /\ index' = 1 /\ selected' = None /\ newest' = 0
          /\ UNCHANGED <<event, producer, leases>>
      BY <1>8 DEF Clear
    <2>3. newest' \in 0 .. MaxFrames
      BY <2>2, RingAssumption
    <2>4. QED
      BY <1>1, <1>2, <2>1, <2>2, <2>3 DEF OtherTypes
  <1>9. CASE Scan
    <2>1. index' \in Slots /\ pc' \in {"compare", "scan", "claim"}
      BY <1>1, <1>2, <1>9, RingAssumption DEF Scan, OtherTypes
    <2>2. UNCHANGED <<notified, event, producer, selected, newest, leases>>
      BY <1>9 DEF Scan
    <2>3. QED
      BY <1>1, <2>1, <2>2 DEF OtherTypes
  <1>10. CASE Compare
    <2>1. slots[index].sequence \in 0 .. MaxFrames
      BY <1>1 DEF OtherTypes, SlotRecords
    <2>2. selected' \in Slots \cup {None} /\ newest' \in 0 .. MaxFrames
      BY <1>1, <1>10, <2>1 DEF Compare, OtherTypes
    <2>3. index' \in Slots /\ pc' \in {"scan", "claim"}
      BY <1>1, <1>2, <1>10, RingAssumption DEF Compare, OtherTypes
    <2>4. UNCHANGED <<notified, event, producer, leases>>
      BY <1>10 DEF Compare
    <2>5. QED
      BY <1>1, <2>2, <2>3, <2>4 DEF OtherTypes
  <1>11. CASE Select
    <2>1. selected \in Slots => slots[selected].sequence \in 0 .. MaxFrames
      BY <1>1 DEF OtherTypes, SlotRecords
    <2>2. leased' \in [Slots -> 0 .. MaxFrames]
      <3>1. leased \in [Slots -> 0 .. MaxFrames] /\ selected \in Slots \cup {None}
        BY <1>1 DEF OtherTypes
      <3>2. \/ /\ selected \in Slots
               /\ leased' = [leased EXCEPT ![selected] = slots[selected].sequence]
            \/ UNCHANGED leased
        BY <1>11, <3>1 DEF Select
      <3>3. CASE /\ selected \in Slots
                 /\ leased' = [leased EXCEPT ![selected] = slots[selected].sequence]
        <4>1. slots[selected].sequence \in 0 .. MaxFrames
          BY <2>1, <3>3
        <4>2. \A n \in 0 .. MaxFrames :
                 [leased EXCEPT ![selected] = n] \in [Slots -> 0 .. MaxFrames]
          BY <3>1, <3>3
        <4>3. QED
          BY <3>3, <4>1, <4>2
      <3>4. CASE UNCHANGED leased
        BY <3>1, <3>4
      <3>5. QED
        BY <3>2, <3>3, <3>4, Zenon
    <2>3. /\ pc' \in {"discard", "poll"} /\ index' = 1
          /\ \/ UNCHANGED <<selected, newest>>
             \/ selected' = None /\ newest' = 0
      BY <1>11 DEF Select
    <2>4. UNCHANGED <<notified, event, producer, latest, frame, pending>>
      BY <1>11 DEF Select
    <2>5. selected' \in Slots \cup {None} /\ newest' \in 0 .. MaxFrames
      BY <1>1, <2>3, RingAssumption DEF OtherTypes
    <2>6. QED
      BY <1>1, <1>2, <2>2, <2>3, <2>4, <2>5 DEF OtherTypes
  <1>12. CASE Discard
    <2>1. index' \in Slots /\ pc' \in {"discard", "check"}
      <3>1. index \in Slots /\ 1 \in Slots
        BY <1>1, <1>2 DEF OtherTypes
      <3>2. Advance("discard", "check")
        BY <1>12 DEF Discard
      <3>3. QED
        BY <3>1, <3>2, RingAssumption
    <2>2. UNCHANGED <<notified, event, producer, selected, newest, leases>>
      BY <1>12 DEF Discard
    <2>3. QED
      BY <1>1, <2>1, <2>2 DEF OtherTypes
  <1>13. CASE Refuse
    <2>1. /\ pc' = "poll" /\ index' = 1 /\ selected' = None /\ newest' = 0
          /\ UNCHANGED <<notified, event, producer, leases>>
      BY <1>13 DEF Refuse
    <2>2. newest' \in 0 .. MaxFrames
      BY <2>1, RingAssumption
    <2>3. QED
      BY <1>1, <1>2, <2>1, <2>2 DEF OtherTypes
  <1>14. CASE Deliver
    <2>1. /\ pc' = "poll" /\ index' = 1 /\ selected' = None /\ newest' = 0
          /\ UNCHANGED <<notified, event, producer, frame, pending, leased>>
      BY <1>14 DEF Deliver
    <2>2. newest' \in 0 .. MaxFrames
      BY <2>1, RingAssumption
    <2>3. latest' \in Slots
      BY <1>14 DEF Deliver, Phases
    <2>4. QED
      BY <1>1, <1>2, <2>1, <2>2, <2>3 DEF OtherTypes
  <1>15. CASE BeginPass \/ EndPass
    <2>1. frame' \in Slots \cup {None}
      BY <1>1, <1>15 DEF BeginPass, EndPass, OtherTypes
    <2>2. UNCHANGED <<notified, event, producer, take, latest, pending, leased>>
      BY <1>15 DEF BeginPass, EndPass
    <2>3. QED
      BY <1>1, <2>1, <2>2 DEF OtherTypes
  <1>16. ASSUME NEW v \in Viewers, QueueJPEG(v) \/ FinishJPEG(v) PROVE OtherTypes'
    <2>1. pending' \in [Viewers -> Slots \cup {None}]
      BY <1>1, <1>16 DEF QueueJPEG, FinishJPEG, OtherTypes
    <2>2. QED
      BY <1>1, <1>16, <2>1 DEF QueueJPEG, FinishJPEG, OtherTypes
  <1>17. QED
    BY <1>3, <1>4, <1>5, <1>6, <1>7, <1>8, <1>9, <1>10, <1>11, <1>12, <1>13, <1>14,
       <1>15, <1>16 DEF Next, CoreGoesOn, MediaThread

(* Every step keeps the types. *)
LEMMA TypesKept ==
    ASSUME TypeOK, Phases, [Next]_vars
    PROVE  TypeOK'
  <1>1. CASE Next
    BY <1>1, SlotsTyped, OthersTyped DEF TypeOK, OtherTypes, SlotRecords
  <1>2. CASE UNCHANGED vars
    BY <1>2 DEF TypeOK, vars, ring, producer, take, leases
  <1>3. QED
    BY <1>1, <1>2

-----------------------------------------------------------------------------
(* The inductive invariant. *)

(* A slot that is being taken has no other holder yet. *)
TakenAlone == \A s \in Slots : Taken(s) => ~Leased(s)

(* Sequence numbers grow: the next frame's is above all others'. *)
Numbers ==
    /\ \A s \in Slots : slots[s].state # "writing" => slots[s].sequence <= published
    /\ core = "publish" => slots[target].sequence = published + 1

(* What is READY is newer than what was delivered, and so is the frame     *)
(* that is being taken; the discarding loop leaves nothing older behind.   *)
Fresh ==
    /\ latest # None =>
          \A s \in Slots :
              slots[s].state = "ready" \/ Taken(s) =>
                  slots[s].sequence > slots[latest].sequence
    /\ \A s \in Slots :
          slots[s].state = "ready" /\ (pc = "check" \/ (pc = "discard" /\ s < index)) =>
              slots[s].sequence > slots[selected].sequence

IInv == TypeOK /\ Phases /\ LeaseIntact /\ NoSlotLost /\ TakenAlone /\ Numbers /\ Fresh
(* What the invariant says of the holders of one slot. *)
Owned(s) ==
    /\ Leased(s) \/ Taken(s) =>
          slots[s].state = "reading" /\ slots[s].sequence = leased[s]
    /\ slots[s].state = "reading" => Leased(s) \/ Taken(s)
    /\ ~(Taken(s) /\ Leased(s))

Ownership == \A s \in Slots : Owned(s)

(* It is the three invariants about leases. *)
LEMMA OwnershipIs == Ownership <=> LeaseIntact /\ NoSlotLost /\ TakenAlone
  BY DEF Ownership, Owned, LeaseIntact, NoSlotLost, TakenAlone

(* What changing the state of one slot leaves alone. *)
LEMMA StateChange ==
    ASSUME slots \in [Slots -> SlotRecords], NEW t \in Slots, NEW x,
           slots' = [slots EXCEPT ![t].state = x]
    PROVE  \A s \in Slots :
              /\ slots'[s].sequence = slots[s].sequence
              /\ slots'[s].state = IF s = t THEN x ELSE slots[s].state
  BY DEF SlotRecords

(* The same of the slots whose last lease ends. *)
LEMMA LeaseEnds ==
    ASSUME slots \in [Slots -> SlotRecords], LetGo
    PROVE  \A s \in Slots :
              /\ slots'[s].sequence = slots[s].sequence
              /\ slots'[s].state = IF Released(s) THEN "free" ELSE slots[s].state
  <1> SUFFICES ASSUME NEW s \in Slots
               PROVE  /\ slots'[s].sequence = slots[s].sequence
                      /\ slots'[s].state = IF Released(s) THEN "free" ELSE slots[s].state
    OBVIOUS
  <1>1. slots'[s] = IF Released(s) THEN [slots[s] EXCEPT !.state = "free"] ELSE slots[s]
    BY DEF LetGo
  <1>2. slots[s] \in SlotRecords
    OBVIOUS
  <1>3. QED
    BY <1>1, <1>2 DEF SlotRecords

(* Ownership survives a step that leaves the leases and the slots that are *)
(* being read alone.                                                       *)
LEMMA OwnersUntouched ==
    ASSUME Ownership, UNCHANGED leases,
           \A s \in Slots : Taken(s)' <=> Taken(s),
           \A s \in Slots : slots[s].state = "reading" => slots'[s] = slots[s],
           \A s \in Slots : slots'[s].state = "reading" => slots[s].state = "reading"
    PROVE  Ownership'
  <1> SUFFICES ASSUME NEW s \in Slots PROVE Owned(s)'
    BY DEF Ownership
  <1>1. Owned(s) /\ (Taken(s)' <=> Taken(s))
    BY DEF Ownership
  <1>2. (Leased(s)' <=> Leased(s)) /\ leased'[s] = leased[s]
    BY DEF Leased, leases
  <1>3. /\ slots[s].state = "reading" => slots'[s] = slots[s]
        /\ slots'[s].state = "reading" => slots[s].state = "reading"
    OBVIOUS
  <1>4. QED
    BY <1>1, <1>2, <1>3 DEF Owned

(* Ownership survives a step that hands leases over or lets go of them.    *)
LEMMA OwnersLetGo ==
    ASSUME slots \in [Slots -> SlotRecords], Ownership, LetGo, leased' = leased,
           \A s \in Slots : Leased(s)' => Leased(s) \/ Taken(s),
           \A s \in Slots : Taken(s)' => Taken(s),
           \A s \in Slots : Taken(s) => Taken(s)' \/ Leased(s)',
           \A s \in Slots : ~(Taken(s)' /\ Leased(s)')
    PROVE  Ownership'
  <1> SUFFICES ASSUME NEW s \in Slots PROVE Owned(s)'
    BY DEF Ownership
  <1>1. /\ slots'[s].sequence = slots[s].sequence
        /\ slots'[s].state = IF Released(s) THEN "free" ELSE slots[s].state
    BY LeaseEnds
  <1>2. Released(s) <=> Leased(s) /\ ~Leased(s)'
    BY DEF Released
  <1>3. Owned(s) /\ leased'[s] = leased[s]
    BY DEF Ownership
  <1>4. /\ Leased(s)' => Leased(s) \/ Taken(s)
        /\ Taken(s)' => Taken(s)
        /\ Taken(s) => Taken(s)' \/ Leased(s)'
        /\ ~(Taken(s)' /\ Leased(s)')
    OBVIOUS
  <1>5. CASE Released(s)
    BY <1>1, <1>2, <1>3, <1>4, <1>5 DEF Owned
  <1>6. CASE ~Released(s)
    <2>1. slots'[s].state = slots[s].state
      BY <1>1, <1>6
    <2>2. Leased(s) => Leased(s)'
      BY <1>2, <1>6
    <2>3. QED
      BY <1>1, <1>3, <1>4, <2>1, <2>2, Zenon DEF Owned
  <1>7. QED
    BY <1>5, <1>6

(* Every step keeps ownership. *)
LEMMA OwnershipKept ==
    ASSUME TypeOK, Phases, Ownership, Next
    PROVE  Ownership'
  <1> USE DEF ring, producer, take, leases, Advance, Returned
  <1>1. slots \in [Slots -> SlotRecords] /\ index \in Slots
    BY DEF TypeOK, SlotRecords
  <1>2. ASSUME NEW t \in Slots, Claim(t) PROVE Ownership'
    <2>1. \A s \in Slots : /\ s # t => slots'[s] = slots[s]
                           /\ slots[t].state # "reading" /\ slots'[t].state = "writing"
      BY <1>1, <1>2 DEF Claim, SlotRecords
    <2>2. \A s \in Slots : Taken(s)' <=> Taken(s)
      BY <1>2 DEF Claim, Taken
    <2>3. QED
      BY <1>2, <2>1, <2>2, OwnersUntouched DEF Claim
  <1>3. CASE Write
    <2>1. target \in Slots /\ slots[target].state = "writing"
      BY <1>3 DEF Write, Phases
    <2>2. \A s \in Slots : /\ s # target => slots'[s] = slots[s]
                           /\ slots'[target].state = "writing"
      BY <1>1, <1>3, <2>1 DEF Write, SlotRecords
    <2>3. \A s \in Slots : Taken(s)' <=> Taken(s)
      BY <1>3 DEF Write, Taken
    <2>4. QED
      BY <1>3, <2>1, <2>2, <2>3, OwnersUntouched DEF Write
  <1>4. CASE Publish
    <2>1. target \in Slots /\ slots[target].state = "writing"
      BY <1>4 DEF Publish, Phases
    <2>2. \A s \in Slots : /\ s # target => slots'[s] = slots[s]
                           /\ slots'[target].state = "ready"
      BY <1>1, <1>4, <2>1 DEF Publish, SlotRecords
    <2>3. \A s \in Slots : Taken(s)' <=> Taken(s)
      BY <1>4 DEF Publish, Taken
    <2>4. QED
      BY <1>4, <2>1, <2>2, <2>3, OwnersUntouched DEF Publish
  <1>5. CASE Signal \/ Poll \/ Clear \/ Scan \/ Compare
    <2>1. slots' = slots /\ UNCHANGED leases
      BY <1>5 DEF Signal, Poll, Clear, Scan, Compare
    <2>2. \A s \in Slots : Taken(s)' <=> Taken(s)
      BY <1>5 DEF Signal, Poll, Clear, Scan, Compare, Taken
    <2>3. QED
      BY <2>1, <2>2, OwnersUntouched
  <1>6. CASE Discard
    <2>1. \A s \in Slots :
             /\ slots'[s] = slots[s]
                \/ (slots[s].state = "ready" /\ slots'[s].state = "free")
      BY <1>1, <1>6 DEF Discard, Superseded, SlotRecords
    <2>2. \A s \in Slots : Taken(s)' <=> Taken(s)
      BY <1>6 DEF Discard, Taken
    <2>3. UNCHANGED leases
      BY <1>6 DEF Discard
    <2>4. QED
      BY <2>1, <2>2, <2>3, OwnersUntouched
  <1>7. CASE Select
    <2>1. CASE selected # None /\ slots[selected].state = "ready"
      <3>1. selected \in Slots
        BY <2>1 DEF TypeOK
      <3>2. \A s \in Slots : /\ s # selected => slots'[s] = slots[s]
                             /\ slots'[selected].state = "reading"
                             /\ slots'[s].sequence = slots[s].sequence
        BY <1>1, <1>7, <2>1, <3>1 DEF Select, SlotRecords
      <3>3. leased \in [Slots -> 0 .. MaxFrames]
        BY DEF TypeOK
      <3>4. /\ leased'[selected] = slots[selected].sequence
            /\ \A s \in Slots : s # selected => leased'[s] = leased[s]
        BY <1>7, <2>1, <3>1, <3>3 DEF Select
      <3>5. \A s \in Slots : ~Taken(s) /\ (Taken(s)' <=> s = selected)
        BY <1>7, <2>1 DEF Select, Taken
      <3>6. \A s \in Slots : Leased(s)' <=> Leased(s)
        BY <1>7 DEF Select, Leased
      <3>7. ASSUME NEW s \in Slots PROVE Owned(s)'
        <4>1. Owned(s)
          BY DEF Ownership
        <4>2. CASE s = selected
          <5>1. ~Leased(s)
            BY <4>1, <4>2, <2>1 DEF Owned
          <5>2. QED
            BY <5>1, <4>2, <3>2, <3>4, <3>5, <3>6 DEF Owned
        <4>3. CASE s # selected
          BY <4>1, <4>3, <3>2, <3>4, <3>5, <3>6 DEF Owned
        <4>4. QED
          BY <4>2, <4>3
      <3>8. QED
        BY <3>7 DEF Ownership
    <2>2. CASE ~(selected # None /\ slots[selected].state = "ready")
      <3>1. slots' = slots /\ UNCHANGED leases
        BY <1>7, <2>2 DEF Select
      <3>2. \A s \in Slots : ~Taken(s) /\ ~Taken(s)'
        BY <1>7, <2>2 DEF Select, Taken
      <3>3. QED
        BY <3>1, <3>2, OwnersUntouched
    <2>3. QED
      BY <2>1, <2>2
  <1>8. CASE Refuse
    <2>1. selected \in Slots
      BY <1>8 DEF Refuse, Phases
    <2>2. \A s \in Slots : /\ s # selected => slots'[s] = slots[s]
                           /\ slots'[selected].state = "free"
      BY <1>1, <1>8, <2>1 DEF Refuse, SlotRecords
    <2>3. \A s \in Slots : (Taken(s) <=> s = selected) /\ ~Taken(s)'
      BY <1>8 DEF Refuse, Taken
    <2>4. \A s \in Slots : (Leased(s)' <=> Leased(s)) /\ leased'[s] = leased[s]
      BY <1>8 DEF Refuse, Leased
    <2>5. ASSUME NEW s \in Slots PROVE Owned(s)'
      <3>1. Owned(s)
        BY DEF Ownership
      <3>2. QED
        BY <3>1, <2>2, <2>3, <2>4 DEF Owned
    <2>6. QED
      BY <2>5 DEF Ownership
  <1>9. CASE Deliver
    <2>1. LetGo /\ leased' = leased
      BY <1>9 DEF Deliver
    <2>2. \A s \in Slots : (Taken(s) <=> s = selected) /\ ~Taken(s)'
      BY <1>9 DEF Deliver, Taken
    <2>3. \A s \in Slots : Leased(s)' => s = selected \/ Leased(s)
      BY <1>9 DEF Deliver, Leased
    <2>4. \A s \in Slots : s = selected => Leased(s)'
      BY <1>9 DEF Deliver, Leased
    <2>5. QED
      BY <1>1, <2>1, <2>2, <2>3, <2>4, OwnersLetGo
  <1>10. CASE BeginPass
    <2>1. slots' = slots /\ leased' = leased
      BY <1>10 DEF BeginPass
    <2>2. \A s \in Slots : (Taken(s)' <=> Taken(s)) /\ (Leased(s)' <=> Leased(s))
      BY <1>10 DEF BeginPass, Taken, Leased
    <2>3. QED
      BY <2>1, <2>2 DEF Ownership, Owned
  <1>11. ASSUME NEW v \in Viewers, QueueJPEG(v) PROVE Ownership'
    <2>1. slots' = slots /\ leased' = leased
      BY <1>11 DEF QueueJPEG
    <2>2. pending \in [Viewers -> Slots \cup {None}]
      BY DEF TypeOK
    <2>3. \A s \in Slots : (Taken(s)' <=> Taken(s)) /\ (Leased(s)' <=> Leased(s))
      BY <1>11, <2>2 DEF QueueJPEG, Taken, Leased
    <2>4. QED
      BY <2>1, <2>3 DEF Ownership, Owned
  <1>12. CASE EndPass
    <2>1. LetGo /\ leased' = leased
      BY <1>12 DEF EndPass
    <2>2. \A s \in Slots : (Taken(s)' <=> Taken(s)) /\ (Leased(s)' => Leased(s))
      BY <1>12 DEF EndPass, Taken, Leased
    <2>3. \A s \in Slots : ~(Taken(s) /\ Leased(s))
      BY DEF Ownership, Owned
    <2>4. QED
      BY <1>1, <2>1, <2>2, <2>3, OwnersLetGo
  <1>13. ASSUME NEW v \in Viewers, FinishJPEG(v) PROVE Ownership'
    <2>1. LetGo /\ leased' = leased
      BY <1>13 DEF FinishJPEG
    <2>2. pending \in [Viewers -> Slots \cup {None}]
      BY DEF TypeOK
    <2>3. \A s \in Slots : (Taken(s)' <=> Taken(s)) /\ (Leased(s)' => Leased(s))
      BY <1>13, <2>2 DEF FinishJPEG, Taken, Leased
    <2>4. \A s \in Slots : ~(Taken(s) /\ Leased(s))
      BY DEF Ownership, Owned
    <2>5. QED
      BY <1>1, <2>1, <2>3, <2>4, OwnersLetGo
  <1>14. QED
    BY <1>2, <1>3, <1>4, <1>5, <1>6, <1>7, <1>8, <1>9, <1>10, <1>11, <1>12, <1>13
       DEF Next, CoreGoesOn, MediaThread
(* How a step changes the slots, seen from outside: a slot keeps its       *)
(* sequence number unless the core writes it, one that is being written    *)
(* stays so unless the core publishes it, only the core makes slots READY, *)
(* and only READY ones are taken.                                          *)
LEMMA SlotSteps ==
    ASSUME TypeOK, Phases, Ownership, Next, ~Write, ~Publish
    PROVE  \A s \in Slots :
              /\ slots'[s].sequence = slots[s].sequence
              /\ slots[s].state = "writing" => slots'[s].state = "writing"
              /\ slots'[s].state = "ready" => slots[s].state = "ready"
              /\ slots'[s].state = "reading" => slots[s].state \in {"ready", "reading"}
  <1> USE DEF ring, producer, take, leases
  <1>1. slots \in [Slots -> SlotRecords] /\ index \in Slots
    BY DEF TypeOK, SlotRecords
  <1>2. ASSUME LetGo
        PROVE  \A s \in Slots :
                  /\ slots'[s].sequence = slots[s].sequence
                  /\ slots[s].state = "writing" => slots'[s].state = "writing"
                  /\ slots'[s].state = "ready" => slots[s].state = "ready"
                  /\ slots'[s].state = "reading" => slots[s].state \in {"ready", "reading"}
    <2> TAKE s \in Slots
    <2>1. /\ slots'[s].sequence = slots[s].sequence
          /\ slots'[s].state = IF Released(s) THEN "free" ELSE slots[s].state
      BY <1>1, <1>2, LeaseEnds
    <2>2. Released(s) => slots[s].state = "reading"
      BY DEF Released, Ownership, Owned
    <2>3. QED
      BY <2>1, <2>2
  <1>3. ASSUME NEW t \in Slots, Claim(t)
        PROVE  \A s \in Slots :
                  /\ slots'[s].sequence = slots[s].sequence
                  /\ slots[s].state = "writing" => slots'[s].state = "writing"
                  /\ slots'[s].state = "ready" => slots[s].state = "ready"
                  /\ slots'[s].state = "reading" => slots[s].state \in {"ready", "reading"}
    <2>1. slots' = [slots EXCEPT ![t].state = "writing"]
      BY <1>3 DEF Claim
    <2>2. QED
      BY <1>1, <2>1, StateChange
  <1>4. CASE Signal \/ Poll \/ Clear \/ Scan \/ Compare \/ BeginPass
    BY <1>4 DEF Signal, Poll, Clear, Scan, Compare, BeginPass
  <1>5. CASE Select
    <2>1. CASE selected # None /\ slots[selected].state = "ready"
      <3>1. selected \in Slots /\ slots' = [slots EXCEPT ![selected].state = "reading"]
        BY <1>5, <2>1 DEF Select, TypeOK
      <3>2. QED
        BY <1>1, <2>1, <3>1, StateChange
    <2>2. CASE ~(selected # None /\ slots[selected].state = "ready")
      BY <1>5, <2>2 DEF Select
    <2>3. QED
      BY <2>1, <2>2
  <1>6. CASE Discard
    <2>1. CASE index # selected /\ Superseded(index)
      <3>1. slots' = [slots EXCEPT ![index].state = "free"]
            /\ slots[index].state = "ready"
        BY <1>6, <2>1 DEF Discard, Superseded
      <3>2. QED
        BY <1>1, <3>1, StateChange
    <2>2. CASE ~(index # selected /\ Superseded(index))
      BY <1>6, <2>2 DEF Discard
    <2>3. QED
      BY <2>1, <2>2
  <1>7. CASE Refuse
    <2>1. selected \in Slots /\ Taken(selected)
          /\ slots' = [slots EXCEPT ![selected].state = "free"]
      BY <1>7 DEF Refuse, Phases, Taken
    <2>2. slots[selected].state = "reading"
      BY <2>1 DEF Ownership, Owned
    <2>3. QED
      BY <1>1, <2>1, <2>2, StateChange
  <1>8. CASE Deliver
    BY <1>2, <1>8 DEF Deliver
  <1>9. CASE EndPass
    BY <1>2, <1>9 DEF EndPass
  <1>10. ASSUME NEW v \in Viewers, QueueJPEG(v)
         PROVE  slots' = slots
    BY <1>10 DEF QueueJPEG
  <1>11. ASSUME NEW v \in Viewers, FinishJPEG(v)
         PROVE  LetGo
    BY <1>11 DEF FinishJPEG
  <1>12. QED
    BY <1>2, <1>3, <1>4, <1>5, <1>6, <1>7, <1>8, <1>9, <1>10, <1>11
       DEF Next, CoreGoesOn, MediaThread

(* What Write and Publish do to the slots. *)
LEMMA CoreSteps ==
    ASSUME TypeOK, Phases, Write \/ Publish
    PROVE  /\ target \in Slots /\ slots[target].state = "writing"
           /\ published < MaxFrames
           /\ \A s \in Slots : s # target => slots'[s] = slots[s]
           /\ Write => /\ slots'[target].state = "writing"
                       /\ slots'[target].sequence = published + 1
           /\ Publish => /\ slots'[target].state = "ready"
                         /\ slots'[target].sequence = slots[target].sequence
  <1>1. slots \in [Slots -> SlotRecords]
    BY DEF TypeOK, SlotRecords
  <1>2. target \in Slots /\ slots[target].state = "writing" /\ published < MaxFrames
    BY DEF Write, Publish, Phases
  <1>3. CASE Write
    <2>1. ~Publish
      BY <1>3 DEF Write, Publish
    <2>2. /\ \A s \in Slots : s # target => slots'[s] = slots[s]
          /\ slots'[target].state = "writing"
          /\ slots'[target].sequence = published + 1
      BY <1>1, <1>2, <1>3 DEF Write, SlotRecords
    <2>3. QED
      BY <1>2, <2>1, <2>2
  <1>4. CASE Publish
    <2>1. ~Write
      BY <1>4 DEF Write, Publish
    <2>2. slots' = [slots EXCEPT ![target].state = "ready"]
      BY <1>4 DEF Publish
    <2>3. \A s \in Slots : s # target => slots'[s] = slots[s]
      BY <1>1, <1>2, <2>2
    <2>4. QED
      BY <1>1, <1>2, <2>1, <2>2, <2>3, StateChange
  <1>5. QED
    BY <1>3, <1>4

(* What every step of the core's sees of its program counter. *)
LEMMA CoreCounter ==
    ASSUME Next, ~Write, ~Publish
    PROVE  \/ UNCHANGED <<core, target, published>>
           \/ \E t \in Slots : Claim(t)
           \/ Signal
  <1>1. QED
    BY DEF Next, CoreGoesOn, MediaThread, Poll, Clear, Scan, Compare, Select, Discard,
           Refuse, Deliver, BeginPass, EndPass, QueueJPEG, FinishJPEG, producer

(* Every step keeps what the program points know. *)
LEMMA PhasesKept ==
    ASSUME TypeOK, Phases, Ownership, Next
    PROVE  Phases'
  <1> DEFINE CorePhase == core \in {"write", "publish"} =>
                /\ target \in Slots /\ slots[target].state = "writing"
                /\ published < MaxFrames
             MediaPhase == pc \in {"discard", "check"} => selected \in Slots
  <1>1. CorePhase /\ MediaPhase
    BY DEF Phases
  <1>2. slots \in [Slots -> SlotRecords]
    BY DEF TypeOK, SlotRecords
  <1>3. CorePhase'
    <2>1. CASE Write
      BY <2>1, CoreSteps DEF Write
    <2>2. CASE Publish
      BY <2>2 DEF Publish
    <2>3. ASSUME NEW t \in Slots, Claim(t) PROVE CorePhase'
      <3>1. slots'[t].state = "writing" /\ target' = t /\ published' = published
        BY <1>2, <2>3 DEF Claim, SlotRecords
      <3>2. published < MaxFrames
        BY <2>3 DEF Claim
      <3>3. QED
        BY <3>1, <3>2
    <2>4. CASE Signal
      BY <2>4 DEF Signal
    <2>5. CASE ~Write /\ ~Publish /\ UNCHANGED <<core, target, published>>
      BY <1>1, <2>5, SlotSteps
    <2>6. QED
      BY <2>1, <2>2, <2>3, <2>4, <2>5, CoreCounter
  <1>4. MediaPhase'
    <2> USE DEF take, Advance, Returned
    <2>1. CASE Select
      BY <2>1 DEF Select, TypeOK
    <2>2. CASE Poll \/ Clear \/ Scan \/ Compare \/ Discard \/ Refuse \/ Deliver
      BY <1>1, <2>2 DEF Poll, Clear, Scan, Compare, Discard, Refuse, Deliver
    <2>3. CASE UNCHANGED take
      BY <1>1, <2>3
    <2>4. QED
      BY <2>1, <2>2, <2>3 DEF Next, CoreGoesOn, MediaThread, Claim, Write, Publish,
         Signal, BeginPass, EndPass, QueueJPEG, FinishJPEG
  <1>5. QED
    BY <1>3, <1>4 DEF Phases
(* Every step keeps the sequence numbers of the slots below the next one.  *)
LEMMA NumbersKept ==
    ASSUME TypeOK, Phases, Ownership, Numbers, Next
    PROVE  Numbers'
  <1>1. /\ \A s \in Slots : slots[s].sequence \in Nat
        /\ published \in Nat
    BY DEF TypeOK
  <1>2. CASE Write
    <2>1. published' = published /\ target' = target
      BY <1>2 DEF Write
    <2>2. QED
      BY <1>2, <2>1, CoreSteps DEF Numbers
  <1>3. CASE Publish
    <2>1. /\ published' = published + 1 /\ core' # "publish"
          /\ slots[target].sequence = published + 1
      BY <1>3 DEF Publish, Numbers
    <2>2. ASSUME NEW s \in Slots, slots'[s].state # "writing"
          PROVE  slots'[s].sequence <= published'
      <3>1. CASE s = target
        BY <3>1, <1>3, <1>1, <2>1, CoreSteps
      <3>2. CASE s # target
        BY <3>2, <1>3, <1>1, <2>1, <2>2, CoreSteps DEF Numbers
      <3>3. QED
        BY <3>1, <3>2
    <2>3. QED
      BY <2>1, <2>2 DEF Numbers
  <1>4. CASE ~Write /\ ~Publish
    <2>1. \A s \in Slots : slots'[s].sequence = slots[s].sequence
                           /\ (slots'[s].state # "writing" => slots[s].state # "writing")
      BY <1>4, SlotSteps
    <2>2. published' = published
      BY <1>4, CoreCounter DEF Claim, Signal
    <2>3. core' = "publish" => core = "publish" /\ target' = target /\ target \in Slots
      BY <1>4, CoreCounter DEF Claim, Signal, Phases
    <2>4. QED
      BY <2>1, <2>2, <2>3 DEF Numbers
  <1>5. QED
    BY <1>2, <1>3, <1>4

(* What a step of the core leaves alone. *)
LEMMA FreshAfterCore ==
    ASSUME TypeOK, Phases, Ownership, Numbers, Fresh, Write \/ Publish
    PROVE  Fresh'
  <1>1. /\ \A s \in Slots : slots[s].sequence \in Nat
        /\ published \in Nat
    BY DEF TypeOK
  <1>2. UNCHANGED <<pc, index, selected, latest>>
    BY DEF Write, Publish, take, leases
  <1>3. \A s \in Slots : Taken(s)' <=> Taken(s)
    BY <1>2 DEF Taken
  <1>4. \A s \in Slots : slots[s].state = "reading" =>
           slots'[s] = slots[s] /\ slots[s].sequence <= published
    BY CoreSteps DEF Numbers
  <1>5. \A s \in Slots : Taken(s) \/ Leased(s) => slots[s].state = "reading"
    BY DEF Ownership, Owned
  <1>6. ASSUME NEW s \in Slots, slots'[s].state = "ready"
        PROVE  \/ slots'[s] = slots[s]
               \/ slots'[s].sequence = published + 1
    <2>1. CASE Write
      BY <1>6, <2>1, CoreSteps
    <2>2. CASE Publish
      <3>1. core = "publish"
        BY <2>2 DEF Publish
      <3>2. QED
        BY <2>2, <3>1, CoreSteps DEF Numbers
    <2>3. QED
      BY <2>1, <2>2
  <1>7. ASSUME latest' # None, NEW s \in Slots,
               slots'[s].state = "ready" \/ Taken(s)'
        PROVE  slots'[s].sequence > slots'[latest'].sequence
    <2>1. latest \in Slots /\ Leased(latest) /\ latest' = latest
      BY <1>2, <1>7 DEF TypeOK, Leased
    <2>2. /\ slots'[latest] = slots[latest] /\ slots[latest].sequence <= published
          /\ slots[latest].sequence \in Nat
      BY <2>1, <1>1, <1>4, <1>5
    <2>3. CASE Taken(s)'
      BY <2>1, <2>2, <2>3, <1>3, <1>4, <1>5 DEF Fresh
    <2>4. CASE slots'[s].state = "ready" /\ slots'[s] = slots[s]
      BY <2>1, <2>2, <2>4 DEF Fresh
    <2>5. CASE slots'[s].sequence = published + 1
      BY <2>1, <2>2, <2>5, <1>1
    <2>6. QED
      BY <1>6, <1>7, <2>3, <2>4, <2>5
  <1>8. ASSUME NEW s \in Slots, slots'[s].state = "ready",
               pc' = "check" \/ (pc' = "discard" /\ s < index')
        PROVE  slots'[s].sequence > slots'[selected'].sequence
    <2>1. selected \in Slots /\ Taken(selected) /\ selected' = selected
      BY <1>2, <1>8 DEF Phases, Taken
    <2>2. /\ slots'[selected] = slots[selected] /\ slots[selected].sequence <= published
          /\ slots[selected].sequence \in Nat
      BY <2>1, <1>1, <1>4, <1>5
    <2>3. CASE slots'[s] = slots[s]
      BY <2>1, <2>2, <2>3, <1>2, <1>8 DEF Fresh
    <2>4. CASE slots'[s].sequence = published + 1
      BY <2>1, <2>2, <2>4, <1>1
    <2>5. QED
      BY <1>6, <1>8, <2>3, <2>4
  <1>9. QED
    BY <1>7, <1>8 DEF Fresh

(* The same of a step that neither delivers nor moves the media thread     *)
(* into or along the discarding loop.                                      *)
LEMMA FreshUntouched ==
    ASSUME Fresh, latest' = latest, latest \in Slots \cup {None},
           pc' \in {"discard", "check"} => UNCHANGED <<pc, index, selected>>,
           pc' \in {"discard", "check"} => selected \in Slots,
           \A s \in Slots : /\ slots'[s].sequence = slots[s].sequence
                            /\ slots'[s].state = "ready" => slots[s].state = "ready"
    PROVE  Fresh'
  <1>1. \A s \in Slots : Taken(s)' => Taken(s)
    BY DEF Taken
  <1>2. latest' # None =>
          \A s \in Slots :
              slots'[s].state = "ready" \/ Taken(s)' =>
                  slots'[s].sequence > slots'[latest'].sequence
    BY <1>1 DEF Fresh
  <1>3. ASSUME NEW s \in Slots, slots'[s].state = "ready",
               pc' = "check" \/ (pc' = "discard" /\ s < index')
        PROVE  slots'[s].sequence > slots'[selected'].sequence
    BY <1>3 DEF Fresh
  <1>4. QED
    BY <1>2, <1>3 DEF Fresh

(* Every step leaves what is READY newer than what was delivered.          *)
LEMMA FreshKept ==
    ASSUME TypeOK, Phases, Ownership, Numbers, Fresh, Next
    PROVE  Fresh'
  <1> USE DEF take, leases, Advance, Returned
  <1>1. latest \in Slots \cup {None} /\ index \in Slots
    BY DEF TypeOK
  <1>2. CASE Write \/ Publish
    BY <1>2, FreshAfterCore
  <1>3. CASE ~Write /\ ~Publish
    <2>1. \A s \in Slots : /\ slots'[s].sequence = slots[s].sequence
                           /\ slots'[s].state = "ready" => slots[s].state = "ready"
      BY <1>3, SlotSteps
    <2>2. ASSUME latest' = latest,
                 pc' \in {"discard", "check"} => UNCHANGED <<pc, index, selected>>
          PROVE  Fresh'
      <3>1. pc' \in {"discard", "check"} => selected \in Slots
        BY <2>2 DEF Phases
      <3>2. QED
        BY <1>1, <2>1, <2>2, <3>1, FreshUntouched
    <2>3. CASE Poll \/ Clear \/ Scan \/ Compare \/ Refuse
      BY <2>2, <2>3 DEF Poll, Clear, Scan, Compare, Refuse
    <2>4. CASE Select
      <3>1. CASE selected # None /\ slots[selected].state = "ready"
        <4>1. /\ selected \in Slots /\ latest' = latest /\ selected' = selected
              /\ pc' = "discard" /\ index' = 1
          BY <2>4, <3>1 DEF Select, TypeOK
        <4>2. \A s \in Slots : Taken(s)' <=> s = selected
          BY <4>1 DEF Taken
        <4>3. latest' # None =>
                \A s \in Slots :
                    slots'[s].state = "ready" \/ Taken(s)' =>
                        slots'[s].sequence > slots'[latest'].sequence
          BY <1>1, <2>1, <3>1, <4>1, <4>2 DEF Fresh
        <4>4. QED
          BY <4>1, <4>3 DEF Fresh
      <3>2. CASE ~(selected # None /\ slots[selected].state = "ready")
        BY <2>2, <2>4, <3>2 DEF Select
      <3>3. QED
        BY <3>1, <3>2
    <2>5. CASE Discard
      <3>1. /\ latest' = latest /\ selected' = selected /\ selected \in Slots
            /\ pc = "discard" /\ Taken(selected)
        BY <2>5 DEF Discard, Phases, Taken
      <3>2. \A s \in Slots : Taken(s)' => Taken(s)
        BY <2>5, <3>1 DEF Discard, Taken
      <3>3. latest' # None =>
              \A s \in Slots :
                  slots'[s].state = "ready" \/ Taken(s)' =>
                      slots'[s].sequence > slots'[latest'].sequence
        BY <1>1, <2>1, <3>1, <3>2 DEF Fresh
      <3>4. slots[selected].state = "reading"
        BY <3>1 DEF Ownership, Owned
      <3>5. slots'[index].state # "ready"
        <4>1. CASE index = selected
          BY <4>1, <3>1, <3>4, <2>1
        <4>2. CASE index # selected /\ slots[index].state = "ready"
          <5>1. slots' = [slots EXCEPT ![index].state = "free"]
            BY <2>5, <4>2 DEF Discard, Superseded
          <5>2. slots \in [Slots -> SlotRecords]
            BY DEF TypeOK, SlotRecords
          <5>3. QED
            BY <5>1, <5>2, <1>1, StateChange
        <4>3. CASE slots[index].state # "ready"
          BY <4>3, <1>1, <2>1
        <4>4. QED
          BY <4>1, <4>2, <4>3
      <3>6. ASSUME NEW s \in Slots, slots'[s].state = "ready",
                   pc' = "check" \/ (pc' = "discard" /\ s < index')
            PROVE  slots'[s].sequence > slots'[selected'].sequence
        <4>1. s # index
          BY <3>5, <3>6
        <4>2. s < index
          BY <4>1, <1>1, <2>5, <3>6, RingAssumption DEF Discard
        <4>3. QED
          BY <4>2, <2>1, <3>1, <3>6 DEF Fresh
      <3>7. QED
        BY <3>3, <3>6 DEF Fresh
    <2>6. CASE Deliver
      <3>1. /\ pc = "check" /\ selected \in Slots /\ latest' = selected /\ pc' = "poll"
        BY <2>6 DEF Deliver, Phases
      <3>2. \A s \in Slots : ~Taken(s)'
        BY <3>1 DEF Taken
      <3>3. QED
        BY <2>1, <3>1, <3>2 DEF Fresh
    <2>7. CASE UNCHANGED <<take, latest>>
      BY <2>2, <2>7
    <2>8. QED
      BY <1>3, <2>3, <2>4, <2>5, <2>6, <2>7
         DEF Next, CoreGoesOn, MediaThread, Claim, Signal, BeginPass, EndPass,
             QueueJPEG, FinishJPEG
  <1>4. QED
    BY <1>2, <1>3

-----------------------------------------------------------------------------
(* The inductive invariant holds in every state.                           *)
THEOREM Invariant == Spec => []IInv
  <1>1. Init => IInv
    <2> SUFFICES ASSUME Init PROVE IInv
      OBVIOUS
    <2>1. TRUE \in BOOLEAN /\ FALSE \in BOOLEAN /\ 0 \in 0 .. MaxFrames /\ 1 \in Slots
      BY RingAssumption
    <2>2. slots \in [Slots -> SlotRecords]
      BY <2>1 DEF Init, SlotRecords
    <2>3. TypeOK
      BY <2>1, <2>2 DEF Init, TypeOK, SlotRecords
    <2>4. \A s \in Slots : ~Leased(s) /\ ~Taken(s) /\ slots[s].state = "free"
      BY DEF Init, Leased, Taken
    <2>5. QED
      BY <2>3, <2>4 DEF Init, IInv, Phases, LeaseIntact, NoSlotLost, TakenAlone,
         Numbers, Fresh
  <1>2. IInv /\ [Next]_vars => IInv'
    <2> SUFFICES ASSUME IInv, [Next]_vars PROVE IInv'
      OBVIOUS
    <2>1. CASE Next
      <3>1. TypeOK /\ Phases /\ Ownership /\ Numbers /\ Fresh
        BY OwnershipIs DEF IInv
      <3>2. LeaseIntact' /\ NoSlotLost' /\ TakenAlone'
        <4>1. Ownership'
          BY <2>1, <3>1, OwnershipKept
        <4>2. QED
          BY <4>1 DEF Ownership, Owned, LeaseIntact, NoSlotLost, TakenAlone
      <3>3. QED
        BY <2>1, <3>1, <3>2, TypesKept, PhasesKept, NumbersKept, FreshKept DEF IInv
    <2>2. CASE UNCHANGED vars
      BY <2>2 DEF IInv, vars, ring, producer, take, leases, TypeOK, Phases, LeaseIntact,
         NoSlotLost, TakenAlone, Numbers, Fresh, Leased, Taken
    <2>3. QED
      BY <2>1, <2>2
  <1>3. QED
    BY <1>1, <1>2, PTL DEF Spec

(* Every variable keeps its type: the loops of TakeLatestFrame stay inside *)
(* the mapping, however many slots there are.                              *)
THEOREM TypeCorrect == Spec => []TypeOK
  <1>1. IInv => TypeOK
    BY DEF IInv
  <1>2. QED
    BY <1>1, Invariant, PTL

(* No frame that latest_frame_, a pass or a viewer's output holds is       *)
(* touched, neither by the core nor by a later TakeLatestFrame.            *)
THEOREM HeldFramesIntact == Spec => []LeaseIntact
  <1>1. IInv => LeaseIntact
    BY DEF IInv
  <1>2. QED
    BY <1>1, Invariant, PTL

(* RingLease gives every slot back.                                        *)
THEOREM SlotsComeBack == Spec => []NoSlotLost
  <1>1. IInv => NoSlotLost
    BY DEF IInv
  <1>2. QED
    BY <1>1, Invariant, PTL

(* latest_frame_ never goes back to an older frame, although the scan      *)
(* reads sequence numbers that the core may be changing.                   *)
FramesInOrder ==
    [][latest' # latest /\ latest # None => leased'[latest'] > leased[latest]]_vars

(* Neither does what the viewers see: the order of what SetFrame stores.   *)
THEOREM FramesKeepOrder == Spec => FramesInOrder
  <1>1. ASSUME IInv, IInv', [Next]_vars, latest' # latest, latest # None
        PROVE  leased'[latest'] > leased[latest]
    <2>1. Deliver
      BY <1>1 DEF vars, leases, Next, CoreGoesOn, MediaThread, Claim, Write, Publish,
         Signal, Poll, Clear, Scan, Compare, Select, Discard, Refuse, BeginPass,
         EndPass, QueueJPEG, FinishJPEG
    <2>2. /\ pc = "check" /\ latest' = selected /\ leased' = leased
          /\ selected \in Slots /\ latest \in Slots
      BY <1>1, <2>1 DEF Deliver, IInv, Phases, TypeOK
    <2>3. Taken(selected) /\ Leased(latest)
      BY <2>2 DEF Taken, Leased
    <2>4. /\ slots[selected].sequence = leased[selected]
          /\ slots[latest].sequence = leased[latest]
      BY <1>1, <2>2, <2>3 DEF IInv, LeaseIntact
    <2>5. slots[selected].sequence > slots[latest].sequence
      BY <1>1, <2>2, <2>3 DEF IInv, Fresh
    <2>6. QED
      BY <2>2, <2>4, <2>5
  <1>2. IInv /\ IInv' /\ [Next]_vars =>
           [latest' # latest /\ latest # None => leased'[latest'] > leased[latest]]_vars
    BY <1>1
  <1>3. QED
    BY <1>2, Invariant, PTL DEF Spec, FramesInOrder

-----------------------------------------------------------------------------
(* No frame is forgotten: the safety half of FramesAreTaken.  A media      *)
(* thread that sleeps in poll with a frame READY has been woken, or the    *)
(* core is still on its way to the eventfd (protocol_ipc.cpp:700).         *)
NoFrameForgotten ==
    pc = "poll" /\ (\E s \in Slots : slots[s].state = "ready") =>
        event \/ core # "idle"

(* Why: the flag is set only while a wakeup is on its way or the media     *)
(* thread is about to clear it, so whatever is published after Clear       *)
(* signals again; a frame READY without a wakeup to come was there at      *)
(* Clear, and the pass has yet to look at it, to take it or to discard it. *)
Quiet == ~event /\ core = "idle"

Announced ==
    /\ notified => event \/ pc = "clear"
    /\ Quiet =>
        /\ pc \in {"scan", "compare", "claim"} /\ selected # None
              => slots[selected].state = "ready"
        /\ pc = "compare" => slots[index].state = "ready"
        /\ \A s \in Slots : slots[s].state = "ready" =>
              \/ pc = "clear"
              \/ pc \in {"scan", "compare"} /\ (s >= index \/ selected # None)
              \/ pc = "claim" /\ selected # None
              \/ pc = "discard" /\ s >= index

(* A step that changes neither signals, program counters nor which slots   *)
(* are READY keeps it.                                                     *)
LEMMA AnnouncedUntouched ==
    ASSUME TypeOK, Announced, UNCHANGED <<notified, event, core, take>>,
           \A s \in Slots : slots'[s].state = "ready" <=> slots[s].state = "ready"
    PROVE  Announced'
  <1>1. UNCHANGED <<pc, index, selected>> /\ index \in Slots
        /\ selected \in Slots \cup {None}
    BY DEF take, TypeOK
  <1>2. QED
    BY <1>1 DEF Announced, Quiet

(* What ends a lease leaves the READY slots READY, and makes none.         *)
LEMMA ReadyAfterLetGo ==
    ASSUME TypeOK, Ownership, LetGo
    PROVE  \A s \in Slots : slots'[s].state = "ready" <=> slots[s].state = "ready"
  <1> TAKE s \in Slots
  <1>1. slots'[s].state = IF Released(s) THEN "free" ELSE slots[s].state
    BY LeaseEnds DEF TypeOK, SlotRecords
  <1>2. Released(s) => slots[s].state = "reading"
    BY DEF Released, Ownership, Owned
  <1>3. QED
    BY <1>1, <1>2

(* The scan moves past a slot only if it is not READY or one is selected.  *)
LEMMA ScanKeepsAnnounced ==
    ASSUME TypeOK, Announced, Scan \/ Compare
    PROVE  Announced'
  <1>1. /\ UNCHANGED <<notified, event, core, slots>>
        /\ index \in Slots /\ selected \in Slots \cup {None}
    BY DEF Scan, Compare, ring, producer, TypeOK
  <1>2. CASE Scan
    <2>1. pc = "scan" /\ selected' = selected
      BY <1>2 DEF Scan
    <2>2. CASE slots[index].state = "ready"
      <3>1. pc' = "compare" /\ index' = index
        BY <1>2, <2>2 DEF Scan
      <3>2. QED
        BY <1>1, <2>1, <2>2, <3>1 DEF Announced, Quiet
    <2>3. CASE slots[index].state # "ready" /\ index < SlotCount
      <3>1. pc' = "scan" /\ index' = index + 1
        BY <1>2, <2>3 DEF Scan, Advance
      <3>2. \A s \in Slots : slots[s].state = "ready" /\ s >= index => s >= index + 1
        BY <1>1, <2>3
      <3>3. QED
        BY <1>1, <2>1, <3>1, <3>2 DEF Announced, Quiet
    <2>4. CASE slots[index].state # "ready" /\ ~(index < SlotCount)
      <3>1. pc' = "claim"
        BY <1>2, <2>4 DEF Scan, Advance
      <3>2. \A s \in Slots : slots[s].state = "ready" => ~(s >= index)
        BY <1>1, <2>4
      <3>3. QED
        BY <1>1, <2>1, <3>1, <3>2 DEF Announced, Quiet
    <2>5. QED
      BY <2>2, <2>3, <2>4
  <1>3. CASE Compare
    <2>1. pc = "compare" /\ pc' \in {"scan", "claim"}
      BY <1>3 DEF Compare, Advance
    <2>2. selected' # None /\ selected' \in {index, selected}
      BY <1>1, <1>3 DEF Compare, MoreRecent
    <2>3. Quiet => slots[selected'].state = "ready"
      BY <1>1, <2>1, <2>2 DEF Announced
    <2>4. QED
      BY <1>1, <2>1, <2>2, <2>3 DEF Announced, Quiet
  <1>4. QED
    BY <1>2, <1>3

(* The exchange succeeds if nothing was published since the scan.          *)
LEMMA SelectKeepsAnnounced ==
    ASSUME TypeOK, Announced, Select
    PROVE  Announced'
  <1>1. /\ pc = "claim" /\ UNCHANGED <<notified, event, core>>
        /\ selected \in Slots \cup {None} /\ slots \in [Slots -> SlotRecords]
    BY DEF Select, producer, TypeOK, SlotRecords
  <1>2. CASE selected # None /\ slots[selected].state = "ready"
    <2>1. pc' = "discard" /\ index' = 1
      BY <1>2 DEF Select
    <2>2. \A s \in Slots : s >= 1
      OBVIOUS
    <2>3. QED
      BY <1>1, <2>1, <2>2 DEF Announced, Quiet
  <1>3. CASE ~(selected # None /\ slots[selected].state = "ready")
    <2>1. pc' = "poll" /\ slots' = slots
      BY <1>3 DEF Select, Returned
    <2>2. Quiet => \A s \in Slots : slots[s].state # "ready"
      BY <1>1, <1>3 DEF Announced
    <2>3. QED
      BY <1>1, <2>1, <2>2 DEF Announced, Quiet
  <1>4. QED
    BY <1>2, <1>3

(* The loop that discards leaves no READY slot behind it.                  *)
LEMMA DiscardKeepsAnnounced ==
    ASSUME TypeOK, Phases, Ownership, Announced, Discard
    PROVE  Announced'
  <1>1. /\ pc = "discard" /\ UNCHANGED <<notified, event, core, selected>>
        /\ selected \in Slots /\ index \in Slots /\ Taken(selected)
        /\ slots \in [Slots -> SlotRecords]
    BY DEF Discard, Phases, Taken, producer, TypeOK, SlotRecords
  <1>2. slots[selected].state = "reading"
    BY <1>1 DEF Ownership, Owned
  <1>3. \A s \in Slots : slots'[s].state = "ready" => slots[s].state = "ready" /\ s # index
    <2>1. CASE index # selected /\ slots[index].state = "ready"
      <3>1. slots' = [slots EXCEPT ![index].state = "free"]
        BY <2>1 DEF Discard, Superseded
      <3>2. QED
        BY <1>1, <3>1, StateChange
    <2>2. CASE ~(index # selected /\ slots[index].state = "ready")
      <3>1. slots' = slots
        BY <2>2 DEF Discard, Superseded
      <3>2. QED
        BY <1>2, <2>2, <3>1
    <2>3. QED
      BY <2>1, <2>2
  <1>4. CASE index < SlotCount
    <2>1. pc' = "discard" /\ index' = index + 1
      BY <1>4 DEF Discard, Advance
    <2>2. \A s \in Slots : s # index /\ s >= index => s >= index + 1
      BY <1>1
    <2>3. QED
      BY <1>1, <1>3, <2>1, <2>2 DEF Announced, Quiet
  <1>5. CASE ~(index < SlotCount)
    <2>1. pc' = "check"
      BY <1>5 DEF Discard, Advance
    <2>2. \A s \in Slots : ~(s # index /\ s >= index)
      BY <1>1, <1>5
    <2>3. QED
      BY <1>1, <1>3, <2>1, <2>2 DEF Announced, Quiet
  <1>6. QED
    BY <1>4, <1>5

(* Every step keeps the account of the frames.                             *)
LEMMA AnnouncedKept ==
    ASSUME TypeOK, Phases, Ownership, Announced, Next
    PROVE  Announced'
  <1> USE DEF ring, producer, take, leases
  <1>1. ASSUME NEW t \in Slots, Claim(t) PROVE Announced'
    BY <1>1 DEF Claim, Announced, Quiet
  <1>2. CASE Write \/ Publish
    <2>1. core' # "idle" /\ notified' = notified /\ event' = event /\ pc' = pc
      BY <1>2 DEF Write, Publish
    <2>2. QED
      BY <2>1, Zenon DEF Announced, Quiet
  <1>3. CASE Signal
    <2>1. pc' = pc /\ (event' <=> (event \/ ~notified))
      BY <1>3 DEF Signal
    <2>2. ~event' => pc' = "clear"
      BY <2>1 DEF Announced
    <2>3. QED
      BY <2>2 DEF Announced, Quiet
  <1>4. CASE Poll
    BY <1>4 DEF Poll, Announced, Quiet
  <1>5. CASE Clear
    <2>1. pc' = "scan" /\ index' = 1 /\ selected' = None /\ notified' = FALSE
      BY <1>5 DEF Clear, ClearNotified
    <2>2. \A s \in Slots : s >= 1
      OBVIOUS
    <2>3. QED
      BY <2>1, <2>2 DEF Announced, Quiet
  <1>6. CASE Scan \/ Compare
    BY <1>6, ScanKeepsAnnounced
  <1>7. CASE Select
    BY <1>7, SelectKeepsAnnounced
  <1>8. CASE Discard
    BY <1>8, DiscardKeepsAnnounced
  <1>9. CASE Refuse \/ Deliver
    <2>1. pc = "check" /\ pc' = "poll" /\ UNCHANGED <<notified, event, core>>
      BY <1>9 DEF Refuse, Deliver, Returned
    <2>2. \A s \in Slots : slots'[s].state = "ready" => slots[s].state = "ready"
      BY <1>9, SlotSteps DEF Refuse, Deliver, Write, Publish
    <2>3. QED
      BY <2>1, <2>2, Zenon DEF Announced, Quiet
  <1>10. CASE BeginPass
    BY <1>10, AnnouncedUntouched DEF BeginPass
  <1>11. CASE EndPass
    BY <1>11, AnnouncedUntouched, ReadyAfterLetGo DEF EndPass
  <1>12. ASSUME NEW v \in Viewers, QueueJPEG(v) PROVE Announced'
    BY <1>12, AnnouncedUntouched DEF QueueJPEG
  <1>13. ASSUME NEW v \in Viewers, FinishJPEG(v) PROVE Announced'
    BY <1>13, AnnouncedUntouched, ReadyAfterLetGo DEF FinishJPEG
  <1>14. QED
    BY <1>1, <1>2, <1>3, <1>4, <1>5, <1>6, <1>7, <1>8, <1>9, <1>10, <1>11, <1>12, <1>13
       DEF Next, CoreGoesOn, MediaThread

(* The media thread never sleeps on a frame: one that is READY while the   *)
(* thread polls has a wakeup, or the core is about to give it one.         *)
THEOREM NoFrameIsForgotten == Spec => []NoFrameForgotten
  <1>1. Init => Announced
    BY DEF Init, Announced, Quiet
  <1>2. IInv /\ Announced /\ [Next]_vars => Announced'
    <2> SUFFICES ASSUME IInv, Announced, [Next]_vars PROVE Announced'
      OBVIOUS
    <2>1. CASE Next
      <3>1. TypeOK /\ Phases /\ Ownership
        BY OwnershipIs DEF IInv
      <3>2. QED
        BY <2>1, <3>1, AnnouncedKept
    <2>2. CASE UNCHANGED vars
      BY <2>2 DEF vars, ring, producer, take, Announced, Quiet
    <2>3. QED
      BY <2>1, <2>2
  <1>3. Announced => NoFrameForgotten
    BY DEF Announced, Quiet, NoFrameForgotten
  <1>4. QED
    BY <1>1, <1>2, <1>3, Invariant, PTL DEF Spec

-----------------------------------------------------------------------------
(* The ring implements the mailbox.  A frame that anybody sees has a       *)
(* number, 0 being none.                                                   *)
Positive ==
    \A s \in Slots :
        slots[s].state \in {"ready", "reading"} => slots[s].sequence > 0

(* Numbers are written before a slot is published. *)
LEMMA PositiveKept ==
    ASSUME TypeOK, Phases, Ownership, Numbers, Positive, Next
    PROVE  Positive'
  <1>1. CASE Write
    BY <1>1, CoreSteps DEF Positive
  <1>2. CASE Publish
    <2>1. core = "publish" /\ published + 1 > 0
      BY <1>2 DEF Publish, TypeOK
    <2>2. slots'[target].sequence = published + 1
      BY <1>2, <2>1, CoreSteps DEF Numbers
    <2>3. QED
      BY <1>2, <2>1, <2>2, CoreSteps DEF Positive
  <1>3. CASE ~Write /\ ~Publish
    BY <1>3, SlotSteps DEF Positive
  <1>4. QED
    BY <1>1, <1>2, <1>3

(* No step changes what a holder sees. *)
LEMMA HeldUnchanged ==
    ASSUME TypeOK, Phases, Ownership, Next
    PROVE  \A s \in Slots : Leased(s) \/ Taken(s) =>
              slots'[s].sequence = slots[s].sequence
  <1>1. \A s \in Slots : Leased(s) \/ Taken(s) => slots[s].state = "reading"
    BY DEF Ownership, Owned
  <1>2. CASE Write \/ Publish
    BY <1>1, <1>2, CoreSteps
  <1>3. CASE ~Write /\ ~Publish
    BY <1>3, SlotSteps
  <1>4. QED
    BY <1>2, <1>3

(* So the mailbox's views change only when the leases do. *)
LEMMA ViewsUnchanged ==
    ASSUME TypeOK, Phases, Ownership, Next
    PROVE  /\ latest' = latest => Seen(latest)' = Seen(latest)
           /\ frame' = frame => Seen(frame)' = Seen(frame)
           /\ \A v \in Viewers : pending'[v] = pending[v] =>
                 Seen(pending[v])' = Seen(pending[v])
  <1>1. ASSUME latest' = latest PROVE Seen(latest)' = Seen(latest)
    <2>1. latest # None => latest \in Slots /\ Leased(latest)
      BY DEF TypeOK, Leased
    <2>2. QED
      BY <1>1, <2>1, HeldUnchanged DEF Seen
  <1>2. ASSUME frame' = frame PROVE Seen(frame)' = Seen(frame)
    <2>1. frame # None => frame \in Slots /\ Leased(frame)
      BY DEF TypeOK, Leased
    <2>2. QED
      BY <1>2, <2>1, HeldUnchanged DEF Seen
  <1>3. ASSUME NEW v \in Viewers, pending'[v] = pending[v]
        PROVE  Seen(pending[v])' = Seen(pending[v])
    <2>1. pending[v] # None => pending[v] \in Slots /\ Leased(pending[v])
      BY DEF TypeOK, Leased
    <2>2. QED
      BY <1>3, <2>1, HeldUnchanged DEF Seen
  <1>4. QED
    BY <1>1, <1>2, <1>3

(* The mailbox's variables, as the ring gives them. *)
Offers == {slots[s].sequence : s \in Waiting}
Outputs == [v \in Viewers |-> Seen(pending[v])]

(* Which of them a step leaves alone. *)
LEMMA OutputsUnchanged ==
    ASSUME TypeOK, Phases, Ownership, Next, pending' = pending
    PROVE  Outputs' = Outputs
  <1>1. \A v \in Viewers : Seen(pending[v])' = Seen(pending[v])
    BY ViewsUnchanged
  <1>2. QED
    BY <1>1 DEF Outputs

(* Steps that make no slot READY offer nothing. *)
LEMMA NothingOffered ==
    ASSUME TypeOK, Phases, Ownership, Next, ~Publish,
           \A s \in Slots : Taken(s)' => Taken(s) \/ slots[s].state = "ready"
    PROVE  Offers' \subseteq Offers
  <1>1. ASSUME NEW s \in Slots, s \in Waiting'
        PROVE  s \in Waiting /\ slots'[s].sequence = slots[s].sequence
    <2>1. slots'[s].state = "ready" \/ Taken(s)'
      BY <1>1 DEF Waiting
    <2>2. CASE Write
      <3>1. slots[target].state = "writing" /\ slots'[target].state = "writing"
            /\ \A t \in Slots : t # target => slots'[t] = slots[t]
        BY <2>2, CoreSteps
      <3>2. s # target
        <4>1. Taken(s)' => Taken(s)
          BY <2>2 DEF Write, Taken, take
        <4>2. Taken(s) => slots[s].state = "reading"
          BY DEF Ownership, Owned
        <4>3. QED
          BY <2>1, <3>1, <4>1, <4>2
      <3>3. Taken(s)' => Taken(s)
        BY <2>2 DEF Write, Taken, take
      <3>4. QED
        BY <2>1, <3>1, <3>2, <3>3 DEF Waiting
    <2>3. CASE ~Write
      BY <2>1, <2>3, SlotSteps DEF Waiting
    <2>4. QED
      BY <2>2, <2>3
  <1>2. QED
    BY <1>1 DEF Offers, Waiting

(* Leases that end offer and withdraw nothing. *)
LEMMA OffersUnchanged ==
    ASSUME TypeOK, Phases, Ownership, Next, ~Write, ~Publish,
           \A s \in Slots : slots[s].state = "ready" => slots'[s].state = "ready",
           \A s \in Slots : Taken(s)' <=> Taken(s)
    PROVE  Offers' = Offers
  <1>1. \A s \in Slots : slots'[s].sequence = slots[s].sequence
                         /\ (slots'[s].state = "ready" <=> slots[s].state = "ready")
    BY SlotSteps
  <1>2. \A s \in Slots : s \in Waiting' <=> s \in Waiting
    BY <1>1 DEF Waiting
  <1>3. Waiting' = Waiting /\ Waiting \subseteq Slots
    BY <1>2 DEF Waiting
  <1>4. QED
    BY <1>1, <1>3 DEF Offers

(* LetGo leaves what is READY. *)
LEMMA ReadyStays ==
    ASSUME TypeOK, Ownership, LetGo
    PROVE  \A s \in Slots : slots[s].state = "ready" => slots'[s].state = "ready"
  <1> TAKE s \in Slots
  <1>1. slots \in [Slots -> SlotRecords]
    BY DEF TypeOK, SlotRecords
  <1>2. slots'[s].state = IF Released(s) THEN "free" ELSE slots[s].state
    BY <1>1, LeaseEnds
  <1>3. Released(s) => slots[s].state = "reading"
    BY DEF Released, Ownership, Owned
  <1>4. QED
    BY <1>2, <1>3

(* Who acts. *)
LEMMA MediaIsNotCore ==
    ASSUME Poll \/ Clear \/ Scan \/ Compare \/ Select \/ Discard \/ Refuse \/ Deliver
    PROVE  ~Write /\ ~Publish
  BY DEF Poll, Clear, Scan, Compare, Select, Discard, Refuse, Deliver, producer,
         Write, Publish

(* The same of the viewers' side. *)
LEMMA ViewersAreNotCore ==
    ASSUME EndPass \/ \E v \in Viewers : FinishJPEG(v)
    PROVE  ~Write /\ ~Publish
  BY DEF EndPass, FinishJPEG, producer, Write, Publish

(* Who holds a frame sees one. *)
LEMMA SeenHolds ==
    ASSUME TypeOK, Ownership, Positive
    PROVE  /\ Seen(latest) = 0 <=> latest = None
           /\ Seen(frame) = 0 <=> frame = None
           /\ \A v \in Viewers : Seen(pending[v]) = 0 <=> pending[v] = None
  <1>1. \A s \in Slots : Leased(s) => slots[s].state = "reading"
    BY DEF Ownership, Owned
  <1>2. \A s \in Slots : Leased(s) => slots[s].sequence > 0
    BY <1>1 DEF Positive
  <1>3. latest # None => latest \in Slots /\ Leased(latest)
    BY DEF TypeOK, Leased
  <1>4. frame # None => frame \in Slots /\ Leased(frame)
    BY DEF TypeOK, Leased
  <1>5. \A v \in Viewers : pending[v] # None => pending[v] \in Slots /\ Leased(pending[v])
    BY DEF TypeOK, Leased
  <1>6. QED
    BY <1>2, <1>3, <1>4, <1>5 DEF Seen

(* Every step of the ring is one of the mailbox, or none. *)
LEMMA MailboxStep ==
    ASSUME TypeOK, TypeOK', Phases, Ownership, Numbers, Fresh, Positive, Next
    PROVE  [Mailbox!Next]_(Mailbox!vars)
  <1> USE DEF ring, producer, take, leases, Advance, Returned
  <1>1. /\ Offers = {slots[s].sequence : s \in Waiting}
        /\ Outputs = [v \in Viewers |-> Seen(pending[v])]
    BY DEF Offers, Outputs
  <1>2. ASSUME UNCHANGED <<published, latest, frame, pending>>, ~Publish,
               \A s \in Slots : Taken(s)' => Taken(s) \/ slots[s].state = "ready"
        PROVE  Mailbox!Withdraw
    <2>1. Offers' \subseteq Offers
      BY <1>2, NothingOffered
    <2>2. Seen(latest)' = Seen(latest) /\ Seen(frame)' = Seen(frame)
      BY <1>2, ViewsUnchanged
    <2>3. Outputs' = Outputs
      BY <1>2, OutputsUnchanged
    <2>4. QED
      BY <1>2, <2>1, <2>2, <2>3 DEF Mailbox!Withdraw, Offers, Outputs
  <1>3. ASSUME NEW s \in Slots, Claim(s) PROVE Mailbox!Withdraw
    <2>1. ~Publish /\ UNCHANGED <<published, latest, frame, pending, pc, selected>>
      BY <1>3 DEF Claim, Publish
    <2>2. QED
      BY <1>2, <2>1 DEF Taken
  <1>4. CASE Write \/ Signal
    <2>1. ~Publish /\ UNCHANGED <<published, latest, frame, pending, pc, selected>>
      BY <1>4 DEF Write, Signal, Publish
    <2>2. Mailbox!Withdraw
      BY <1>2, <2>1 DEF Taken
    <2>3. QED
      BY <2>2 DEF Mailbox!Next
  <1>5. CASE Poll \/ Clear \/ Scan \/ Compare \/ Discard \/ Refuse
    <2>1. ~Publish
      BY <1>5, MediaIsNotCore
    <2>2. /\ UNCHANGED <<published, latest, frame, pending>>
          /\ \A s \in Slots : Taken(s)' => Taken(s)
      BY <1>5 DEF Poll, Clear, Scan, Compare, Discard, Refuse, Taken
    <2>3. Mailbox!Withdraw
      BY <1>2, <2>1, <2>2
    <2>4. QED
      BY <2>3 DEF Mailbox!Next
  <1>6. CASE Select
    <2>1. ~Publish
      BY <1>6, MediaIsNotCore
    <2>2. UNCHANGED <<published, latest, frame, pending>>
      BY <1>6 DEF Select
    <2>3. ASSUME NEW s \in Slots, Taken(s)' PROVE slots[s].state = "ready"
      BY <1>6, <2>3 DEF Select, Taken
    <2>4. Mailbox!Withdraw
      BY <1>2, <2>1, <2>2, <2>3
    <2>5. QED
      BY <2>4 DEF Mailbox!Next
  <1>7. CASE Publish
    <2>1. /\ core = "publish" /\ published' = published + 1
          /\ UNCHANGED <<latest, frame, pending, pc, selected>>
      BY <1>7 DEF Publish
    <2>2. Seen(latest)' = Seen(latest) /\ Seen(frame)' = Seen(frame)
          /\ Outputs' = Outputs
      BY <2>1, ViewsUnchanged, OutputsUnchanged
    <2>3. Offers' = Offers \cup {published + 1}
      <3>1. /\ target \in Slots /\ slots[target].state = "writing"
            /\ \A s \in Slots : s # target => slots'[s] = slots[s]
            /\ slots'[target].state = "ready"
            /\ slots'[target].sequence = published + 1
        BY <1>7, <2>1, CoreSteps DEF Numbers
      <3>2. \A s \in Slots : Taken(s)' <=> Taken(s)
        BY <2>1 DEF Taken
      <3>3. target \notin Waiting
        BY <3>1 DEF Waiting, Ownership, Owned
      <3>4. Waiting' = Waiting \cup {target}
        BY <3>1, <3>2 DEF Waiting
      <3>5. \A s \in Waiting : slots'[s].sequence = slots[s].sequence
        BY <3>1, <3>3 DEF Waiting
      <3>6. QED
        BY <3>1, <3>4, <3>5 DEF Offers
    <2>4. published < MaxFrames
      BY <1>7, CoreSteps
    <2>5. Mailbox!Publish
      BY <2>1, <2>2, <2>3, <2>4 DEF Mailbox!Publish, Offers, Outputs
    <2>6. QED
      BY <2>5 DEF Mailbox!Next
  <1>8. CASE Deliver
    <2> DEFINE n == slots[selected].sequence
    <2>1. /\ pc = "check" /\ pc' = "poll" /\ selected \in Slots /\ Taken(selected)
          /\ latest' = selected /\ UNCHANGED <<published, frame, pending>> /\ LetGo
      BY <1>8 DEF Deliver, Phases, Taken
    <2>2. \A s \in Slots : slots[s].sequence \in Nat /\ n \in Nat
      <3>1. \A s \in Slots : slots[s].sequence \in Nat
        <4>1. slots \in [Slots -> SlotRecords]
          BY DEF TypeOK, SlotRecords
        <4>2. \A r \in SlotRecords : r.sequence \in Nat
          BY DEF SlotRecords
        <4>3. QED
          BY <4>1, <4>2
      <3>2. QED
        BY <2>1, <3>1
    <2>3. slots'[selected].sequence = n
      BY <2>1, HeldUnchanged
    <2>4. Seen(latest)' = n
      BY <2>1, <2>3, RingAssumption DEF Seen
    <2>5. Seen(frame)' = Seen(frame) /\ Outputs' = Outputs
      BY <2>1, ViewsUnchanged, OutputsUnchanged
    <2>6. ASSUME NEW s \in Waiting PROVE s = selected \/ slots[s].sequence > n
      <3>1. s \in Slots /\ (slots[s].state = "ready" \/ Taken(s))
        BY <2>6 DEF Waiting
      <3>2. Taken(s) => s = selected
        BY DEF Taken
      <3>3. QED
        BY <2>1, <3>1, <3>2 DEF Fresh
    <2>7. n \in Offers /\ selected \in Waiting
      BY <2>1 DEF Offers, Waiting
    <2>8. \A m \in Offers : n <= m
      BY <2>2, <2>6 DEF Offers, Waiting
    <2>9. n > Seen(latest)
      <3>1. CASE latest = None
        <4>1. slots[selected].state = "reading"
          BY <2>1 DEF Ownership, Owned
        <4>2. QED
          BY <3>1, <4>1, <2>1 DEF Seen, Positive
      <3>2. CASE latest # None
        BY <2>1, <3>2 DEF Seen, Fresh
      <3>3. QED
        BY <3>1, <3>2
    <2>10. Offers' = Offers \ {n}
      <3>1. ~Write /\ ~Publish
        BY <1>8, MediaIsNotCore
      <3>2. \A s \in Slots : slots'[s].sequence = slots[s].sequence
                             /\ (slots'[s].state = "ready" <=> slots[s].state = "ready")
        BY <2>1, <3>1, SlotSteps, ReadyStays
      <3>3. \A s \in Slots : ~Taken(s)' /\ (Taken(s) => s = selected)
        BY <2>1 DEF Taken
      <3>4. slots[selected].state # "ready"
        BY <2>1 DEF Ownership, Owned
      <3>5. Waiting' = Waiting \ {selected}
        BY <3>2, <3>3, <3>4 DEF Waiting
      <3>6. Waiting \subseteq Slots
        BY DEF Waiting
      <3>7. \A s \in Waiting : s # selected => slots[s].sequence # n
        BY <2>2, <2>6, <3>6
      <3> HIDE DEF n
      <3>8. Offers' = {slots[s].sequence : s \in Waiting \ {selected}}
        BY <3>2, <3>5, <3>6 DEF Offers
      <3>9. n = slots[selected].sequence
        BY DEF n
      <3>10. QED
        BY <3>7, <3>8, <3>9 DEF Offers
    <2> HIDE DEF n
    <2>11. PICK m \in Offers : m = n
      BY <2>7
    <2>12. Mailbox!Arrive(m)
      BY <2>1, <2>4, <2>5, <2>8, <2>9, <2>10, <2>11 DEF Mailbox!Arrive, Offers, Outputs
    <2>13. QED
      BY <2>11, <2>12 DEF Mailbox!Next, Offers
  <1>9. CASE BeginPass
    <2>1. /\ frame = None /\ latest # None /\ frame' = latest
          /\ UNCHANGED <<slots, published, latest, pending, pc, selected>>
      BY <1>9 DEF BeginPass
    <2>2. Offers' = Offers
      BY <2>1 DEF Offers, Waiting, Taken
    <2>3. Seen(latest)' = Seen(latest) /\ Outputs' = Outputs
      BY <2>1, ViewsUnchanged, OutputsUnchanged
    <2>4. Seen(frame) = 0 /\ Seen(latest) # 0
      BY <2>1, SeenHolds
    <2>5. Seen(frame)' = Seen(latest)
      BY <2>1 DEF Seen
    <2>6. Mailbox!BeginPass
      BY <2>1, <2>2, <2>3, <2>4, <2>5 DEF Mailbox!BeginPass, Offers, Outputs
    <2>7. QED
      BY <2>6 DEF Mailbox!Next
  <1>10. ASSUME NEW v \in Viewers, QueueJPEG(v) PROVE Mailbox!QueueJPEG(v)
    <2>1. /\ frame # None /\ pending[v] = None /\ pending' = [pending EXCEPT ![v] = frame]
          /\ UNCHANGED <<slots, published, latest, frame, pc, selected>>
      BY <1>10 DEF QueueJPEG
    <2>2. Offers' = Offers
      BY <2>1 DEF Offers, Waiting, Taken
    <2>3. Seen(latest)' = Seen(latest) /\ Seen(frame)' = Seen(frame)
      BY <2>1, ViewsUnchanged
    <2>4. Seen(frame) # 0 /\ Outputs[v] = 0
      BY <2>1, SeenHolds DEF Outputs
    <2>5. Outputs' = [Outputs EXCEPT ![v] = Seen(frame)]
      <3>1. pending \in [Viewers -> Slots \cup {None}]
        BY DEF TypeOK
      <3>2. \A w \in Viewers : w # v => Seen(pending[w])' = Seen(pending[w])
        BY <2>1, <3>1, ViewsUnchanged
      <3>3. Seen(pending[v])' = Seen(frame)
        BY <2>1, <3>1 DEF Seen
      <3>4. QED
        BY <3>2, <3>3 DEF Outputs
    <2>6. QED
      BY <2>1, <2>2, <2>3, <2>4, <2>5 DEF Mailbox!QueueJPEG, Offers, Outputs
  <1>11. CASE EndPass
    <2>1. /\ frame # None /\ frame' = None /\ LetGo
          /\ UNCHANGED <<published, latest, pending, pc, selected>>
      BY <1>11 DEF EndPass
    <2>2. Offers' = Offers
      <3>1. ~Write /\ ~Publish
        BY <1>11, ViewersAreNotCore
      <3>2. QED
        BY <2>1, <3>1, OffersUnchanged, ReadyStays DEF Taken
    <2>3. Seen(latest)' = Seen(latest) /\ Outputs' = Outputs
      BY <2>1, ViewsUnchanged, OutputsUnchanged
    <2>4. Seen(frame) # 0 /\ Seen(frame)' = 0
      BY <2>1, SeenHolds DEF Seen
    <2>5. Mailbox!EndPass
      BY <2>1, <2>2, <2>3, <2>4 DEF Mailbox!EndPass, Offers, Outputs
    <2>6. QED
      BY <2>5 DEF Mailbox!Next
  <1>12. ASSUME NEW v \in Viewers, FinishJPEG(v) PROVE Mailbox!FinishJPEG(v)
    <2>1. /\ pending[v] # None /\ pending' = [pending EXCEPT ![v] = None] /\ LetGo
          /\ UNCHANGED <<published, latest, frame, pc, selected>>
      BY <1>12 DEF FinishJPEG
    <2>2. Offers' = Offers
      <3>1. ~Write /\ ~Publish
        BY <1>12, ViewersAreNotCore
      <3>2. QED
        BY <2>1, <3>1, OffersUnchanged, ReadyStays DEF Taken
    <2>3. Seen(latest)' = Seen(latest) /\ Seen(frame)' = Seen(frame)
      BY <2>1, ViewsUnchanged
    <2>4. Outputs[v] # 0
      BY <2>1, SeenHolds DEF Outputs
    <2>5. Outputs' = [Outputs EXCEPT ![v] = 0]
      <3>1. pending \in [Viewers -> Slots \cup {None}]
        BY DEF TypeOK
      <3>2. \A w \in Viewers : w # v => Seen(pending[w])' = Seen(pending[w])
        BY <2>1, <3>1, ViewsUnchanged
      <3>3. Seen(pending[v])' = 0
        BY <2>1, <3>1 DEF Seen
      <3>4. QED
        BY <3>2, <3>3 DEF Outputs
    <2>6. QED
      BY <2>1, <2>2, <2>3, <2>4, <2>5 DEF Mailbox!FinishJPEG, Offers, Outputs
  <1>13. QED
    BY <1>3, <1>4, <1>5, <1>6, <1>7, <1>8, <1>9, <1>10, <1>11, <1>12
       DEF Next, CoreGoesOn, MediaThread, Mailbox!Next

(* The shared ring is a mailbox, although its readers and its writer share *)
(* the memory: what TakeLatestFrame gives SetFrame stays what the core     *)
(* published, in order, until the last who uses it is done.                *)
THEOREM RingIsMailbox == Spec => ImplementsMailbox
  <1>1. Init => Mailbox!Init /\ Positive
    <2> SUFFICES ASSUME Init PROVE Mailbox!Init /\ Positive
      OBVIOUS
    <2>1. \A s \in Slots : slots[s].state = "free" /\ ~Taken(s)
      BY DEF Init, Taken
    <2>2. Waiting = {}
      BY <2>1 DEF Waiting
    <2>3. QED
      BY <2>1, <2>2 DEF Init, Mailbox!Init, Seen, Positive
  <1>2. IInv /\ Positive /\ [Next]_vars => Positive'
    <2> SUFFICES ASSUME IInv, Positive, [Next]_vars PROVE Positive'
      OBVIOUS
    <2>1. TypeOK /\ Phases /\ Ownership /\ Numbers
      BY OwnershipIs DEF IInv
    <2>2. CASE UNCHANGED vars
      BY <2>2 DEF vars, ring, Positive
    <2>3. QED
      BY <2>1, <2>2, PositiveKept
  <1>3. IInv /\ IInv' /\ Positive /\ [Next]_vars => [Mailbox!Next]_(Mailbox!vars)
    <2> SUFFICES ASSUME IInv, IInv', Positive, [Next]_vars
                 PROVE  [Mailbox!Next]_(Mailbox!vars)
      OBVIOUS
    <2>1. TypeOK /\ TypeOK' /\ Phases /\ Ownership /\ Numbers /\ Fresh
      BY OwnershipIs DEF IInv
    <2>2. CASE UNCHANGED vars
      BY <2>2 DEF vars, ring, producer, take, leases, Mailbox!vars, Waiting, Taken, Seen
    <2>3. QED
      BY <2>1, <2>2, MailboxStep
  <1>4. QED
    BY <1>1, <1>2, <1>3, Invariant, PTL DEF Spec, Mailbox!Spec, ImplementsMailbox
=============================================================================
