----------------------------- MODULE HIDChannel -----------------------------
(***************************************************************************)
(* What AdminHID promises the callers of its Send functions, without       *)
(* connections: one post at a time, never carried out twice, and carried   *)
(* out before it is reported to have succeeded.  A post that is reported   *)
(* to have failed may have been carried out, and may even be carried out   *)
(* later, among the posts that follow it.                                  *)
(***************************************************************************)
EXTENDS Integers

CONSTANT MaxPosts      (* bound on the posts that are made                 *)

VARIABLES begun,       (* how many posts have been begun; they are numbers *)
          posting,      (* the post in progress, if there is one           *)
          applied,      (* how often the core has carried out each post    *)
          result,       (* what the caller of each post was told           *)
          doubtful      (* failed posts that may still be carried out      *)

vars == <<begun, posting, applied, result, doubtful>>

Posts == 1 .. MaxPosts

Init == /\ begun = 0
        /\ posting = {}
        /\ applied = [n \in Posts |-> 0]
        /\ result = [n \in Posts |-> "none"]
        /\ doubtful = {}

Begin == /\ posting = {} /\ begun < MaxPosts
         /\ begun' = begun + 1
         /\ posting' = {begun + 1}
         /\ UNCHANGED <<applied, result, doubtful>>

Apply(n) == /\ n \in posting \cup doubtful /\ applied[n] = 0
            /\ applied' = [applied EXCEPT ![n] = 1]
            /\ doubtful' = doubtful \ {n}
            /\ UNCHANGED <<begun, posting, result>>

Succeed(n) == /\ n \in posting /\ applied[n] = 1
              /\ posting' = {}
              /\ result' = [result EXCEPT ![n] = "sent"]
              /\ UNCHANGED <<begun, applied, doubtful>>

Fail(n) == /\ n \in posting
           /\ posting' = {}
           /\ result' = [result EXCEPT ![n] = "failed"]
           /\ \/ UNCHANGED doubtful
              \/ applied[n] = 0 /\ doubtful' = doubtful \cup {n}
           /\ UNCHANGED <<begun, applied>>

(* The core drops requests that nobody waits for. *)
Forget == /\ doubtful' \in SUBSET doubtful
          /\ UNCHANGED <<begun, posting, applied, result>>

Next == Begin \/ Forget \/ \E n \in Posts : Apply(n) \/ Succeed(n) \/ Fail(n)

Spec == Init /\ [][Next]_vars
=============================================================================
