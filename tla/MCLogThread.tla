---------------------------- MODULE MCLogThread -----------------------------
(***************************************************************************)
(* Two senders with up to two messages each, one address and two texts:  *)
(* enough for a message that replaces an earlier one of the same address,  *)
(* for one that must not, and for messages racing with Terminate.          *)
(***************************************************************************)
EXTENDS LogThread
=============================================================================
