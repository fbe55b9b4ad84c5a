----------------------------- MODULE MCCapture -----------------------------
(* Connections of two protocols, whose nodes share a bucket of the table. *)
EXTENDS Capture, TLC

CONSTANTS smtp, imap

MCTuples == {smtp, imap}
MCHash == smtp :> 0 @@ imap :> 0
MCProto == smtp :> "SMTP" @@ imap :> "IMAP"
=============================================================================
