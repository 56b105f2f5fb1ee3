------------------------ MODULE CertificateLifecycle ------------------------
(***************************************************************************)
(* What the registry promises about every document hash, whoever asks and  *)
(* however transactions are ordered: it is issued at most once, by one     *)
(* issuer at one date, and revoked at most once, for good.                 *)
(***************************************************************************)
EXTENDS Integers

CONSTANTS Hashes, Issuers, absent

VARIABLE record

Absent == [status |-> "NOT_FOUND", issuer |-> absent, issuedAt |-> 0]

Issued == [status : {"ACTIVE"}, issuer : Issuers, issuedAt : Nat \ {0}]

Init == record = [h \in Hashes |-> Absent]

Issue(h) ==
    /\ record[h].status = "NOT_FOUND"
    /\ record'[h] \in Issued
    /\ record' = [record EXCEPT ![h] = record'[h]]

Revoke(h) ==
    /\ record[h].status = "ACTIVE"
    /\ record' = [record EXCEPT ![h].status = "REVOKED"]

Next == \E h \in Hashes : Issue(h) \/ Revoke(h)

Spec == Init /\ [][Next]_record
=============================================================================
