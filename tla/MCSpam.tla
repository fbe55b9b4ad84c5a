------------------------------- MODULE MCSpam -------------------------------
(* Three words, two of which share a bucket; a mail with two of them.    *)
EXTENDS Spam, TLC

CONSTANTS cheap, offer, hello

MCWords == {cheap, offer, hello}
MCHash == hello :> 0 @@ cheap :> 1 @@ offer :> 1
MCFile == <<hello, cheap, offer>>
MCMails == {<<offer, hello>>}
MCLessons == {<<cheap, cheap>>}
=============================================================================
