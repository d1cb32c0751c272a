----------------------------- MODULE HIDReports -----------------------------
(***************************************************************************)
(* The HID reports the VNC extension posts to the admin API, and what the  *)
(* controlled host makes of them.  The host is outside the repository: it  *)
(* is modelled from the three calls InputState makes, SendAbsoluteMouse,   *)
(* SendMouse and SendKeyboard.                                             *)
(***************************************************************************)
EXTENDS Integers, Sequences

(* No button pressed: an RFB mask is a number, and 0 is the empty one. *)
NoButtons == 0

(* The posts SendPointer makes for one report: the absolute report first,  *)
(* then the wheel.  |wheel| is at most 1, so its loop runs at most once.   *)
PointerPosts(buttons, position, wheel) ==
    LET post(kind) == [kind |-> kind, buttons |-> buttons,
                       position |-> position, wheel |-> wheel]
    IN IF wheel = 0 THEN << post("absolute") >>
                    ELSE << post("absolute"), post("wheel") >>

(* The host after it received a pointer post. *)
AfterPost(host, post) ==
    IF post.kind = "absolute"
    THEN [host EXCEPT !.buttons = post.buttons, !.position = post.position]
    ELSE [host EXCEPT !.buttons = post.buttons, !.scroll = @ + post.wheel]

(* The host after a keyboard report: it replaces everything held before. *)
AfterKeyboard(host, modifiers, usages) ==
    [host EXCEPT !.modifiers = modifiers, !.usages = usages]

(* A key or a button of the host is held down. *)
Holding(host) ==
    \/ host.buttons # NoButtons
    \/ host.modifiers # {}
    \/ host.usages # {}
=============================================================================
