----------------------------- MODULE MCSendMail -----------------------------
(* SendMail for TLC: a list of two.                                        *)
EXTENDS SendMail, TLC

CONSTANTS p, q

MCRecipients == {p, q}
MCList == <<p, q>>
Symmetry == Permutations(Loops)
=============================================================================
