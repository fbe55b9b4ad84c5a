------------------------------ MODULE MCNoweb ------------------------------
(***************************************************************************)
(* Noweb on a small instance.  All mails start free and the properties     *)
(* checked with the symmetry are safety properties, so mails that differ   *)
(* only in name need not be told apart.                                    *)
(***************************************************************************)
EXTENDS Noweb, TLC

Symmetry == Permutations(Mails)
=============================================================================
