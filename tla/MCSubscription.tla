--------------------------- MODULE MCSubscription ---------------------------
(***************************************************************************)
(* Subscription on a small instance: two subscriptions, whose connections  *)
(* may take each other's descriptor.                                       *)
(***************************************************************************)
EXTENDS Subscription
=============================================================================
