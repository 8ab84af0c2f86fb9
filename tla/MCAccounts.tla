----------------------------- MODULE MCAccounts -----------------------------
(* Accounts on a small instance: three identities, the owner's one of      *)
(* them, that sign in as browser logins or as guests as the config says.   *)
EXTENDS Accounts

CONSTANTS a1, a2, i1, i2, i3, k1, k2, n1, l1, c1

MCAccount == {a1, a2}
MCIdentity == {i1, i2, i3}
MCConnection == {k1, k2}
MCName == {n1}
MCCode == {l1}
MCCourse == {c1}
MCRoomId == {1}

(* Before the owner configures an issuer, and after. *)
Unconfigured == [browser |-> {}, anonymous |-> TRUE, linking |-> FALSE]
Configured == [browser |-> Identity, anonymous |-> FALSE, linking |-> TRUE]
MCConfig == {Unconfigured, Configured}
=============================================================================
