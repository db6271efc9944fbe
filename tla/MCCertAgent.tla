---------------------------- MODULE MCCertAgent ----------------------------
(* Small instances of CertAgent for TLC. *)
EXTENDS CertAgent, TLC

CONSTANTS s1, e1, s2, e2

\* Two pairs of one signing and one encryption certificate.
Pairs == {[sign |-> s1, enc |-> e1], [sign |-> s2, enc |-> e2]}

TwoDestroys == {{s1}, {s1, e2}}

Symmetry == Permutations(Workers) \cup Permutations(Names)
=============================================================================
