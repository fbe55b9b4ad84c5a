----------------------------- MODULE MCWebmail -----------------------------
(***************************************************************************)
(* Webmail on a small instance.  All mails start free and the properties   *)
(* checked with the symmetry are safety properties, so mails that differ   *)
(* only in name need not be told apart.                                    *)
(***************************************************************************)
EXTENDS Webmail, TLC

Symmetry == Permutations(Mails)
=============================================================================
