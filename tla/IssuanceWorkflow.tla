-------------------------- MODULE IssuanceWorkflow --------------------------
(***************************************************************************)
(* What the application backend promises about certificate requests, told  *)
(* as if every route were one atomic step that looks at the registry and   *)
(* at the private database at the same instant.  It keeps exactly the      *)
(* checks that survive the handlers' awaits: a confirmation needs a        *)
(* registry entry of the institution's wallet, a withdrawal needs a        *)
(* revoked one, and a reservation needs nothing of the registry, because   *)
(* the hash may be issued between the backend's question and its write.    *)
(***************************************************************************)
CONSTANTS Requests, Hashes, Wallets, noHash, noWallet

VARIABLES
    registry,  \* of each hash, the public [status, issuer]
    work       \* of each request, the private [status, hash, citizen, issuer]

Unissued == [status |-> "NOT_FOUND", issuer |-> noWallet]
Blank == [status |-> "NONE", hash |-> noHash, citizen |-> noWallet, issuer |-> noWallet]

Init ==
    /\ registry = [h \in Hashes |-> Unissued]
    /\ work = [r \in Requests |-> Blank]

Issue(h) == \E a \in Wallets :
    /\ registry[h] = Unissued
    /\ registry' = [registry EXCEPT ![h] = [status |-> "ACTIVE", issuer |-> a]]
    /\ UNCHANGED work

Revoke(h) ==
    /\ registry[h].status = "ACTIVE"
    /\ registry' = [registry EXCEPT ![h].status = "REVOKED"]
    /\ UNCHANGED work

Submit(r, citizen, issuer) ==
    /\ work[r] = Blank
    /\ citizen # issuer
    /\ work' = [work EXCEPT ![r] = [status |-> "PENDING", hash |-> noHash,
                                    citizen |-> citizen, issuer |-> issuer]]
    /\ UNCHANGED registry

Reject(r) ==
    /\ work[r].status = "PENDING"
    /\ work' = [work EXCEPT ![r].status = "REJECTED"]
    /\ UNCHANGED registry

Reserve(r, h) ==
    /\ work[r].status = "PENDING"
    /\ \A q \in Requests : work[q].hash # h
    /\ work' = [work EXCEPT ![r].status = "PROCESSING", ![r].hash = h]
    /\ UNCHANGED registry

Confirm(r) ==
    /\ work[r].status = "PROCESSING"
    /\ registry[work[r].hash].status # "NOT_FOUND"
    /\ registry[work[r].hash].issuer = work[r].issuer
    /\ work' = [work EXCEPT ![r].status = "ISSUED"]
    /\ UNCHANGED registry

Withdraw(r) ==
    /\ work[r].status = "ISSUED"
    /\ registry[work[r].hash].status = "REVOKED"
    /\ work' = [work EXCEPT ![r].status = "REVOKED"]
    /\ UNCHANGED registry

Next ==
    \/ \E h \in Hashes : Issue(h) \/ Revoke(h)
    \/ \E r \in Requests, citizen, issuer \in Wallets : Submit(r, citizen, issuer)
    \/ \E r \in Requests : Reject(r) \/ Confirm(r) \/ Withdraw(r)
    \/ \E r \in Requests, h \in Hashes : Reserve(r, h)

Spec == Init /\ [][Next]_<<registry, work>>
=============================================================================
