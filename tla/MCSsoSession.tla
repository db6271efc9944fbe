---------------------------- MODULE MCSsoSession ----------------------------
(* Small instances of SsoSession for TLC. *)
EXTENDS SsoSession, TLC

CONSTANTS w1, w2

Request(app, mark, user, type) ==
    [app |-> app, mark |-> mark, user |-> user, type |-> type]

\* Two applications behind one mark, by PIN; or any user of the second.
PinRequests == {Request("a", "m", "u", "PIN"), Request("b", "m", Blank, "PIN")}

\* One application by key, and a user without application whose caller
\* leaves the type out.
KeyRequests == {Request("a", "m", Blank, "UKEY"), Request(Blank, "m", "u", Uninit)}

UkeyRequests == {Request("a", "m", Blank, "UKEY")}

Symmetry == Permutations(Workers)
=============================================================================
