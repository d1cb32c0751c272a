----------------------------- MODULE MCAdminHID -----------------------------
(***************************************************************************)
(* AdminHID with the two threads that post.                                *)
(***************************************************************************)
EXTENDS AdminHID

CONSTANTS foreground, pointer

MCCallers == {foreground, pointer}
=============================================================================
