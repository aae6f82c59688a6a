---------------------------- MODULE MCJoinFuture ----------------------------
(* The instance of JoinFuture for TLC; JoinFuture.cfg gives its constants. *)
EXTENDS JoinFuture
=============================================================================
