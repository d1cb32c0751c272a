----------------------------- MODULE InputOrder -----------------------------
(***************************************************************************)
(* What InputState promises the viewers, without threads, locks or         *)
(* generations: pointer input is a first-in first-out queue in which a     *)
(* pure movement waiting at the end may be replaced by what follows it, a  *)
(* button transition or a wheel tick is never dropped or reordered, and a  *)
(* keyboard report is sent only when no earlier pointer input is waiting.  *)
(* A post may be lost on its way to the host: AdminHID does not retry.     *)
(***************************************************************************)
EXTENDS HIDReports

CONSTANTS Buttons,     (* RFB button masks, NoButtons among them           *)
          Positions,   (* absolute positions, already scaled for HID       *)
          Modifiers,   (* modifier bits                                    *)
          Usages       (* HID usages of the other keys                     *)

VARIABLES held,        (* the button mask the viewers last asked for       *)
          scrolled,    (* wheel ticks the viewers have asked for           *)
          queue,       (* reports accepted and not yet being sent          *)
          wire,        (* the posts of the report being sent               *)
          host         (* what the controlled host has received            *)

vars == <<held, scrolled, queue, wire, host>>

Reports == [buttons : Buttons, position : Positions, wheel : {-1, 0, 1},
            movement : BOOLEAN]

Init == /\ held = NoButtons
        /\ scrolled = 0
        /\ queue = <<>>
        /\ wire = <<>>
        /\ host \in [buttons : {NoButtons}, position : Positions, scroll : {0},
                     modifiers : {{}}, usages : {{}}]

(* The queue without the movement that may wait at its end. *)
Transitions(q) ==
    IF q # <<>> /\ q[Len(q)].movement THEN SubSeq(q, 1, Len(q) - 1) ELSE q

(* Only a report that neither changes the buttons nor turns the wheel is a *)
(* movement.                                                               *)
Accept == /\ \E r \in Reports :
                /\ r.movement = (r.buttons = held /\ r.wheel = 0)
                /\ queue' = Append(Transitions(queue), r)
                /\ held' = r.buttons
                /\ scrolled' = scrolled + r.wheel
          /\ UNCHANGED <<wire, host>>

Take == /\ wire = <<>>
        /\ queue # <<>>
        /\ wire' = LET r == Head(queue)
                   IN PointerPosts(r.buttons, r.position, r.wheel)
        /\ queue' = Tail(queue)
        /\ UNCHANGED <<held, scrolled, host>>

Post == /\ wire # <<>>
        /\ wire' = Tail(wire)
        /\ host' \in {host, AfterPost(host, Head(wire))}
        /\ UNCHANGED <<held, scrolled, queue>>

Keyboard == /\ queue = <<>>
            /\ wire = <<>>
            /\ \E m \in SUBSET Modifiers, u \in SUBSET Usages :
                  host' \in {host, AfterKeyboard(host, m, u)}
            /\ UNCHANGED <<held, scrolled, queue, wire>>

Next == Accept \/ Take \/ Post \/ Keyboard

Spec == Init /\ [][Next]_vars
=============================================================================
