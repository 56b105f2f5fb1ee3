---------------------------- MODULE AppLiveness ----------------------------
(***************************************************************************)
(* What must eventually happen in the application backend.  The fairness:  *)
(* a handler in flight ends, because every RPC call settles; and users who *)
(* are refused, or whose page or server went away, come back and ask again *)
(* (the Reconcile and Revoke buttons).  No transaction is ever forced:     *)
(* what a wallet signs, and when a process restarts, stays free.           *)
(***************************************************************************)
EXTENDS AppWorkflow

HandlersEnd == \A c \in Calls : WF_vars(~At(c, "idle") /\ Serve(c))

UsersComeBack ==
    \A c \in Calls, a \in Accounts :
        SF_vars(Begin(c, a)) /\ SF_vars(call[c].sender = a /\ DeriveAuthorization(c))

IssuersReconcile ==
    \A c \in Calls, r \in Requests :
        /\ SF_vars(\E t \in DOMAIN log : ValidateIssuance(c, r, t))
        /\ SF_vars(\E attempt \in readableAttempts : confirmIssuance(c, attempt))

IssuersRevoke ==
    \A c \in Calls, r \in Requests :
        /\ SF_vars(CheckRevocable(c, r))
        /\ SF_vars(prepareRevocation(c))
        /\ SF_vars(\E t \in DOMAIN log : ValidateRevocation(c, r, t))
        /\ SF_vars(\E attempt \in drafts : confirmRevocation(c, attempt))

AppFairSpec ==
    AppSpec /\ HandlersEnd /\ UsersComeBack /\ IssuersReconcile /\ IssuersRevoke

IssuedOnChain(r) ==
    /\ request[r].status = "PROCESSING"
    /\ certificates[request[r].hash].status # "NOT_FOUND"
    /\ certificates[request[r].hash].issuer = workIssuer(r)
    /\ workIssuer(r) \in issuers

\* A reservation whose transaction was mined is not lost with the page or the
\* process that prepared it: as long as the certificate stands and its issuer stays
\* authorized, the request ends up ISSUED, because its attempt id can be read again.
IssuanceReconciled ==
    \A r \in Requests :
        IssuedOnChain(r) ~> \/ request[r].status = "ISSUED"
                            \/ certificates[request[r].hash].status = "REVOKED"
                            \/ workIssuer(r) \notin issuers

\* "A PROCESSING request is a recoverable reservation": the same, whatever happens
\* to the certificate afterwards.
ReservationRecoverable ==
    \A r \in Requests :
        IssuedOnChain(r) ~> \/ request[r].status = "ISSUED"
                            \/ workIssuer(r) \notin issuers

RevokedByItsIssuer(r) ==
    /\ assignment[r].status = "ACTIVE"
    /\ assignment[r].revocationAttempt # NULL
    /\ \E t \in DOMAIN log : Evidence("CertificateRevoked", assignment[r], t)
    /\ assignment[r].issuer \in issuers

\* "Revocation follows the same prepare/confirm pattern": a prepared revocation
\* whose transaction its issuer got mined ends up recorded.
RevocationReconciled ==
    \A r \in Requests :
        RevokedByItsIssuer(r) ~> \/ assignment[r].status = "REVOKED"
                                 \/ assignment[r].issuer \notin issuers
=============================================================================
