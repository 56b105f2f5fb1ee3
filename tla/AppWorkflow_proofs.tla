------------------------- MODULE AppWorkflow_proofs -------------------------
(***************************************************************************)
(* Proofs about the application backend, for any number of wallets,        *)
(* institutions, requests, documents and calls in flight.                  *)
(***************************************************************************)
EXTENDS AppWorkflow, PramaanChain_proofs

LEMMA RowTypes ==
    /\ BlankRequest \in RequestRow
    /\ BlankAssignment \in AssignmentRow
    /\ Idle \in Handler /\ HandlerOK(Idle)
BY DEF HandlerOK, BlankRequest, RequestRow, BlankAssignment, AssignmentRow, Idle, Handler, Steps,
       Wallet, Institution, NULL

CallsOK == call \in [Calls -> Handler] /\ \A c \in Calls : HandlerOK(call[c])

\* A handler that waits again, or ends, is still a handler.
LEMMA AwaitType ==
    ASSUME CallsOK, NEW c \in Calls,
           \/ Respond(c)
           \/ \E state \in Handler : HandlerOK(state) /\ Await(c, state)
    PROVE  CallsOK'
BY RowTypes DEF Respond, Await, CallsOK

LEMMA DeactivatedType ==
    ASSUME AppTypeOK, NEW wallets
    PROVE  deactivated(wallets) \in [Accounts \X Institutions -> {"NONE", "ACTIVE", "INACTIVE"}]
BY DEF AppTypeOK, deactivated

\* The middleware, and the first half of each route: only the handler changes.
AsksOnly(c) ==
    \/ \E a \in Accounts : Begin(c, a) \/ CheckIssuerWallet(c, a)
    \/ DeriveAuthorization(c)
    \/ CheckSelf(c)
    \/ \E i \in Institutions : CheckInstitution(c, i)
    \/ \E r \in Requests : CheckRevocable(c, r)
    \/ \E h \in Hashes : CheckUnissued(c, h)
    \/ \E r \in Requests, t \in DOMAIN log : ValidateIssuance(c, r, t) \/ ValidateRevocation(c, r, t)

LEMMA AskType ==
    ASSUME AppTypeOK, NEW c \in Calls, AsksOnly(c) \/ Refuse(c)
    PROVE  AppTypeOK' /\ UNCHANGED <<chainVars, dbVars, drafts>>
<1> USE DEF Wallet, Institution
<1>1. call[c] \in Handler /\ HandlerOK(call[c])
  BY DEF AppTypeOK
<1>2. UNCHANGED <<chainVars, dbVars, drafts>>
  BY DEF AsksOnly, Refuse, Begin, CheckIssuerWallet, DeriveAuthorization, CheckSelf,
         CheckInstitution, CheckRevocable, CheckUnissued, ValidateIssuance, ValidateRevocation
<1>3. CallsOK'
  <2>1. ASSUME NEW a \in Accounts, Begin(c, a) PROVE \E state \in Handler : HandlerOK(state) /\ Await(c, state)
    <3> DEFINE s == [Idle EXCEPT !.step = "authorizing", !.sender = a, !.member = isMember(a),
                       !.citizen = isCitizen(a)]
    <3>1. s \in Handler /\ HandlerOK(s)
      BY DEF Idle, Handler, Steps, isMember, isCitizen, NULL, HandlerOK
    <3> QED BY <2>1, <3>1 DEF Begin
  <2>2. ASSUME NEW a \in Accounts, CheckIssuerWallet(c, a)
        PROVE  \E state \in Handler : HandlerOK(state) /\ Await(c, state)
    <3> DEFINE s == [call[c] EXCEPT !.step = "registering", !.wallet = a]
    <3>1. s \in Handler /\ HandlerOK(s)
      BY <1>1, <2>2 DEF At, CheckIssuerWallet, Handler, Steps, HandlerOK
    <3> QED BY <2>2, <3>1 DEF CheckIssuerWallet
  <2>3. ASSUME DeriveAuthorization(c) PROVE \E state \in Handler : HandlerOK(state) /\ Await(c, state)
    <3> DEFINE s == [call[c] EXCEPT !.step = "authorized",
              !.authorized = call[c].member /\ isAuthorizedIssuer(call[c].sender)]
    <3>1. s \in Handler /\ HandlerOK(s)
      BY <1>1, <2>3 DEF At, DeriveAuthorization, Handler, Steps, isAuthorizedIssuer, HandlerOK
    <3> QED BY <2>3, <3>1 DEF DeriveAuthorization
  <2>4. ASSUME CheckSelf(c) PROVE \E state \in Handler : HandlerOK(state) /\ Await(c, state)
    <3> DEFINE s == [call[c] EXCEPT !.step = "connecting"]
    <3>1. s \in Handler /\ HandlerOK(s)
      BY <1>1, <2>4 DEF At, CheckSelf, Handler, Steps, HandlerOK
    <3> QED BY <2>4, <3>1 DEF CheckSelf
  <2>5. ASSUME NEW i \in Institutions, CheckInstitution(c, i)
        PROVE  \E state \in Handler : HandlerOK(state) /\ Await(c, state)
    <3> DEFINE s == [call[c] EXCEPT !.step = "connectable", !.institution = i]
    <3>1. s \in Handler /\ HandlerOK(s)
      BY <1>1, <2>5 DEF At, CheckInstitution, Handler, Steps, HandlerOK
    <3> QED BY <2>5, <3>1 DEF CheckInstitution
  <2>6. ASSUME NEW r \in Requests, CheckRevocable(c, r) PROVE \E state \in Handler : HandlerOK(state) /\ Await(c, state)
    <3> DEFINE s == [call[c] EXCEPT !.step = "revocable", !.request = r]
    <3>1. s \in Handler /\ HandlerOK(s)
      BY <1>1, <2>6 DEF At, CheckRevocable, Handler, Steps, HandlerOK
    <3> QED BY <2>6, <3>1 DEF CheckRevocable
  <2>7. ASSUME NEW h \in Hashes, CheckUnissued(c, h) PROVE \E state \in Handler : HandlerOK(state) /\ Await(c, state)
    <3> DEFINE s == [call[c] EXCEPT !.step = "unissued", !.hash = h]
    <3>1. s \in Handler /\ HandlerOK(s)
      BY <1>1, <2>7 DEF At, CheckUnissued, Handler, Steps, HandlerOK
    <3> QED BY <2>7, <3>1 DEF CheckUnissued
  <2>8. ASSUME NEW r \in Requests, NEW t \in DOMAIN log, ValidateIssuance(c, r, t)
        PROVE  \E state \in Handler : HandlerOK(state) /\ Await(c, state)
    <3>1. certificates[request[r].hash].issuedAt \in Nat /\ t \in Nat
      BY DEF AppTypeOK, ChainTypeOK, RequestRow, Certificate
    <3> DEFINE s == [call[c] EXCEPT !.step = "issued", !.request = r, !.transaction = t,
              !.at = certificates[request[r].hash].issuedAt]
    <3>2. s \in Handler /\ HandlerOK(s)
      BY <1>1, <3>1, <2>8 DEF At, ValidateIssuance, Handler, Steps, HandlerOK
    <3> QED BY <2>8, <3>2 DEF ValidateIssuance
  <2>9. ASSUME NEW r \in Requests, NEW t \in DOMAIN log, ValidateRevocation(c, r, t)
        PROVE  \E state \in Handler : HandlerOK(state) /\ Await(c, state)
    <3>1. certificates[assignment[r].hash].revokedAt \in Nat /\ t \in Nat
      BY DEF AppTypeOK, ChainTypeOK, AssignmentRow, Certificate
    <3> DEFINE s == [call[c] EXCEPT !.step = "revoked", !.request = r, !.transaction = t,
              !.at = certificates[assignment[r].hash].revokedAt]
    <3>2. s \in Handler /\ HandlerOK(s)
      BY <1>1, <3>1, <2>9 DEF At, ValidateRevocation, Handler, Steps, HandlerOK
    <3> QED BY <2>9, <3>2 DEF ValidateRevocation
  <2>10. Refuse(c) => Respond(c)
    BY DEF Refuse
  <2> QED BY <2>1, <2>2, <2>3, <2>4, <2>5, <2>6, <2>7, <2>8, <2>9, <2>10, AwaitType
          DEF AsksOnly, AppTypeOK, CallsOK
<1> QED BY <1>2, <1>3 DEF AppTypeOK, ChainTypeOK, chainVars, dbVars, CallsOK

\* The second half of each route: the database is written and the handler ends.
LEMMA WriteType ==
    ASSUME AppTypeOK, NEW c \in Calls,
           \/ \E i \in Institutions : createInstitution(c, i)
           \/ connectCitizen(c)
           \/ \E r \in Requests, i \in Institutions : createRequest(c, r, i)
           \/ \E r \in Requests : rejectRequest(c, r) \/ prepareIssuance(c, r)
           \/ \E attempt \in readableAttempts : confirmIssuance(c, attempt)
           \/ prepareRevocation(c)
           \/ \E attempt \in drafts : confirmRevocation(c, attempt)
    PROVE  AppTypeOK' /\ UNCHANGED chainVars
<1> USE DEF Wallet, Institution
<1>1. call[c] \in Handler /\ HandlerOK(call[c])
  BY DEF AppTypeOK
<1>2. call[c].request \in Requests \cup {NoRequest} /\ call[c].sender \in Wallet
      /\ call[c].transaction \in Nat /\ call[c].at \in Nat
      /\ call[c].hash \in Hashes \cup {ZeroHash} /\ call[c].wallet \in Wallet
  BY <1>1 DEF Handler
<1>3. UNCHANGED chainVars => ChainTypeOK'
  BY DEF AppTypeOK, ChainTypeOK, chainVars
<1>4. Respond(c) => CallsOK'
  BY AwaitType DEF AppTypeOK, CallsOK
<1>5. ASSUME NEW i \in Institutions, createInstitution(c, i)
      PROVE  AppTypeOK' /\ UNCHANGED chainVars
  <2>1. relationship' \in [Accounts \X Institutions -> {"NONE", "ACTIVE", "INACTIVE"}]
    BY <1>5, DeactivatedType DEF createInstitution, deactivateCitizen
  <2>2. membership' \in [Institutions -> Wallet]
    BY <1>2, <1>5 DEF createInstitution, AppTypeOK
  <2> QED BY <1>3, <1>4, <1>5, <2>1, <2>2 DEF createInstitution, AppTypeOK, CallsOK
<1>6. ASSUME connectCitizen(c) PROVE AppTypeOK' /\ UNCHANGED chainVars
  <2>1. relationship' \in [Accounts \X Institutions -> {"NONE", "ACTIVE", "INACTIVE"}]
    BY <1>6 DEF connectCitizen, AppTypeOK
  <2> QED BY <1>3, <1>4, <1>6, <2>1 DEF connectCitizen, AppTypeOK, CallsOK
<1>7. ASSUME NEW r \in Requests, NEW i \in Institutions, createRequest(c, r, i)
      PROVE  AppTypeOK' /\ UNCHANGED chainVars
  <2>1. [BlankRequest EXCEPT !.citizen = call[c].sender, !.institution = i,
                             !.status = "PENDING"] \in RequestRow
    BY <1>2, RowTypes DEF RequestRow
  <2>2. request' \in [Requests -> RequestRow]
    BY <1>7, <2>1 DEF createRequest, AppTypeOK
  <2> QED BY <1>3, <1>4, <1>7, <2>2 DEF createRequest, AppTypeOK, CallsOK
<1>8. ASSUME NEW r \in Requests, rejectRequest(c, r)
      PROVE  AppTypeOK' /\ UNCHANGED chainVars
  <2>1. request[r] \in RequestRow
    BY DEF AppTypeOK
  <2>2. rejected(request[r]) \in RequestRow
    BY <2>1 DEF rejected, RequestRow
  <2>3. request' \in [Requests -> RequestRow]
    BY <1>8, <2>2 DEF rejectRequest, AppTypeOK
  <2> QED BY <1>3, <1>4, <1>8, <2>3 DEF rejectRequest, AppTypeOK, CallsOK
<1>9. ASSUME NEW r \in Requests, prepareIssuance(c, r)
      PROVE  AppTypeOK' /\ UNCHANGED chainVars
  <2>1. request[r] \in RequestRow /\ attempts + 1 \in Nat
    BY DEF AppTypeOK
  <2>2. [request[r] EXCEPT !.status = "PROCESSING", !.hash = call[c].hash,
                           !.attempt = attempts + 1] \in RequestRow
    BY <1>2, <2>1 DEF RequestRow
  <2>3. request' \in [Requests -> RequestRow] /\ attempts' \in Nat
    BY <1>9, <2>1, <2>2 DEF prepareIssuance, AppTypeOK
  <2> QED BY <1>3, <1>4, <1>9, <2>3 DEF prepareIssuance, AppTypeOK, CallsOK
<1>10. ASSUME NEW attempt, confirmIssuance(c, attempt)
       PROVE  AppTypeOK' /\ UNCHANGED chainVars
  <2>1. call[c].request \in Requests
    BY <1>1, <1>10 DEF confirmIssuance, At, HandlerOK
  <2>2. request[call[c].request] \in RequestRow
    BY <2>1 DEF AppTypeOK
  <2>3. [BlankAssignment EXCEPT !.status = "ACTIVE", !.hash = request[call[c].request].hash,
             !.issuer = call[c].sender, !.issuedAt = call[c].at,
             !.transaction = call[c].transaction] \in AssignmentRow
    BY <1>2, <2>2, RowTypes DEF AssignmentRow, RequestRow
  <2>4. [request[call[c].request] EXCEPT !.status = "ISSUED",
             !.transaction = call[c].transaction] \in RequestRow
    BY <1>2, <2>2 DEF RequestRow
  <2>5. assignment' \in [Requests -> AssignmentRow] /\ request' \in [Requests -> RequestRow]
    BY <1>10, <2>3, <2>4 DEF confirmIssuance, AppTypeOK
  <2> QED BY <1>3, <1>4, <1>10, <2>5 DEF confirmIssuance, AppTypeOK, CallsOK
<1>11. ASSUME prepareRevocation(c) PROVE AppTypeOK' /\ UNCHANGED chainVars
  <2>1. call[c].request \in Requests
    BY <1>1, <1>11 DEF prepareRevocation, At, HandlerOK
  <2>2. assignment[call[c].request] \in AssignmentRow /\ attempts + 1 \in Nat
    BY <2>1 DEF AppTypeOK
  <2>3. [assignment[call[c].request] EXCEPT !.revocationAttempt = attempts + 1]
            \in AssignmentRow
    BY <2>2 DEF AssignmentRow
  <2>4. assignment[call[c].request].revocationAttempt \in Nat
    BY <2>2 DEF AssignmentRow
  <2>5. /\ assignment' \in [Requests -> AssignmentRow]
        /\ attempts' \in Nat /\ drafts' \in SUBSET Nat
    BY <1>11, <2>2, <2>3, <2>4 DEF prepareRevocation, AppTypeOK
  <2> QED BY <1>3, <1>4, <1>11, <2>5 DEF prepareRevocation, AppTypeOK, CallsOK
<1>12. ASSUME NEW attempt, confirmRevocation(c, attempt)
       PROVE  AppTypeOK' /\ UNCHANGED chainVars
  <2>1. call[c].request \in Requests
    BY <1>1, <1>12 DEF confirmRevocation, At, HandlerOK
  <2>2. assignment[call[c].request] \in AssignmentRow
    BY <2>1 DEF AppTypeOK
  <2>3. [assignment[call[c].request] EXCEPT !.status = "REVOKED", !.revokedAt = call[c].at,
             !.revocationTransaction = call[c].transaction] \in AssignmentRow
    BY <1>2, <2>2 DEF AssignmentRow
  <2>4. assignment' \in [Requests -> AssignmentRow]
    BY <1>12, <2>3 DEF confirmRevocation, AppTypeOK
  <2> QED BY <1>3, <1>4, <1>12, <2>4 DEF confirmRevocation, AppTypeOK, CallsOK
<1> QED BY <1>5, <1>6, <1>7, <1>8, <1>9, <1>10, <1>11, <1>12

LEMMA EnvironmentType ==
    ASSUME AppTypeOK, Chain \/ Restart \/ ClosePage \/ UNCHANGED vars
    PROVE  AppTypeOK' /\ [ChainNext]_chainVars
<1>1. ASSUME Chain PROVE AppTypeOK' /\ [ChainNext]_chainVars
  <2>1. ChainTypeOK'
    BY <1>1, ChainTypeInductive DEF Chain, AppTypeOK
  <2> QED BY <1>1, <2>1 DEF Chain, AppTypeOK, appVars, dbVars
<1>2. UNCHANGED chainVars => ChainTypeOK'
  BY DEF AppTypeOK, ChainTypeOK, chainVars
<1>3. ASSUME Restart PROVE AppTypeOK' /\ [ChainNext]_chainVars
  <2>1. relationship' \in [Accounts \X Institutions -> {"NONE", "ACTIVE", "INACTIVE"}]
    BY <1>3, DeactivatedType DEF Restart
  <2>2. call' \in [Calls -> Handler] /\ \A c \in Calls : HandlerOK(call'[c])
    BY <1>3, RowTypes DEF Restart
  <2> QED BY <1>2, <1>3, <2>1, <2>2 DEF Restart, AppTypeOK
<1>4. ASSUME ClosePage PROVE AppTypeOK' /\ [ChainNext]_chainVars
  BY <1>2, <1>4 DEF ClosePage, AppTypeOK, dbVars
<1>5. ASSUME UNCHANGED vars PROVE AppTypeOK' /\ [ChainNext]_chainVars
  BY <1>2, <1>5 DEF AppTypeOK, vars, appVars, dbVars
<1> QED BY <1>1, <1>3, <1>4, <1>5

\* Every step is the environment's, the first half of a route, or its second half.
Writes(c) ==
    \/ \E i \in Institutions : createInstitution(c, i)
    \/ connectCitizen(c)
    \/ \E r \in Requests, i \in Institutions : createRequest(c, r, i)
    \/ \E r \in Requests : rejectRequest(c, r) \/ prepareIssuance(c, r)
    \/ \E attempt \in readableAttempts : confirmIssuance(c, attempt)
    \/ prepareRevocation(c)
    \/ \E attempt \in drafts : confirmRevocation(c, attempt)

LEMMA StepCases ==
    ASSUME [AppNext]_vars
    PROVE  \/ Chain \/ Restart \/ ClosePage \/ UNCHANGED vars
           \/ \E c \in Calls : AsksOnly(c) \/ Refuse(c) \/ Writes(c)
BY DEF AppNext, Serve, AsksOnly, Writes

LEMMA AppTypeInductive ==
    ASSUME AppTypeOK, [AppNext]_vars
    PROVE  AppTypeOK' /\ [ChainNext]_chainVars
<1>1. \A c \in Calls : Writes(c) => AppTypeOK' /\ UNCHANGED chainVars
  BY WriteType DEF Writes
<1>2. \A c \in Calls : AsksOnly(c) \/ Refuse(c) => AppTypeOK' /\ UNCHANGED chainVars
  BY AskType
<1> QED BY <1>1, <1>2, StepCases, EnvironmentType

LEMMA AppTypeInitial == AppInit => AppTypeOK
<1> SUFFICES ASSUME AppInit PROVE AppTypeOK
  OBVIOUS
<1>1. ChainTypeOK
  BY DeployerAssumption, BlankType DEF AppInit, ChainInit, ChainTypeOK
<1> QED BY <1>1, RowTypes DEF AppInit, AppTypeOK, Wallet

\* The private database, the handlers in flight and the registry keep their types,
\* and no handler writes with an argument it has not validated.
THEOREM AppTypeCorrect == AppSpec => []AppTypeOK
BY AppTypeInitial, AppTypeInductive, PTL DEF AppSpec

\* Whatever the backend does, the contract goes its own way: everything proved of the
\* contract alone holds beside the backend.
THEOREM AppKeepsContract == AppSpec => ChainSpec
<1>1. AppInit => ChainInit
  BY DEF AppInit
<1>2. AppTypeOK /\ [AppNext]_vars => [ChainNext]_chainVars
  BY AppTypeInductive
<1> QED BY <1>1, <1>2, AppTypeCorrect, PTL DEF AppSpec, ChainSpec

-----------------------------------------------------------------------------
(* Roles. *)

\* A step that leaves both tables alone keeps the roles apart.
LEMMA RolesKeptByOthers ==
    ASSUME RolesExclusive, UNCHANGED <<membership, relationship>>
    PROVE  RolesExclusive'
BY DEF RolesExclusive, isMember, isCitizen

\* Deactivation only ever takes relationships away.
LEMMA DeactivatedNotActive ==
    ASSUME NEW wallets, NEW a \in Accounts, NEW i \in Institutions
    PROVE  /\ deactivated(wallets)[<<a, i>>] = "ACTIVE" => relationship[<<a, i>>] = "ACTIVE"
           /\ a \in wallets => deactivated(wallets)[<<a, i>>] # "ACTIVE"
BY DEF deactivated

LEMMA RolesInductive ==
    ASSUME AppTypeOK, RolesExclusive, [AppNext]_vars
    PROVE  RolesExclusive'
<1>1. ASSUME NEW c \in Calls, NEW i \in Institutions, createInstitution(c, i)
      PROVE  RolesExclusive'
  <2> SUFFICES ASSUME NEW a \in Accounts, isMember(a)' PROVE ~isCitizen(a)'
    BY DEF RolesExclusive
  <2> SUFFICES ASSUME NEW j \in Institutions PROVE relationship'[<<a, j>>] # "ACTIVE"
    BY DEF isCitizen
  <2>1. relationship' = deactivated({call[c].wallet})
    BY <1>1 DEF createInstitution, deactivateCitizen
  <2>2. CASE a = call[c].wallet
    BY <2>1, <2>2, DeactivatedNotActive
  <2>3. CASE a # call[c].wallet
    <3>1. isMember(a)
      BY <1>1, <2>3 DEF createInstitution, isMember, AppTypeOK
    <3>2. relationship[<<a, j>>] # "ACTIVE"
      BY <3>1 DEF RolesExclusive, isCitizen
    <3> QED BY <2>1, <3>2, DeactivatedNotActive
  <2> QED BY <2>2, <2>3
<1>2. ASSUME NEW c \in Calls, connectCitizen(c) PROVE RolesExclusive'
  <2> SUFFICES ASSUME NEW a \in Accounts, isMember(a) PROVE ~isCitizen(a)'
    BY <1>2 DEF RolesExclusive, connectCitizen, isMember
  <2>1. a # call[c].sender
    BY <1>2 DEF connectCitizen, mayBecomeCitizen
  <2>2. \A j \in Institutions : relationship'[<<a, j>>] = relationship[<<a, j>>]
    BY <1>2, <2>1 DEF connectCitizen, AppTypeOK
  <2> QED BY <2>2 DEF RolesExclusive, isCitizen
<1>3. ASSUME Restart PROVE RolesExclusive'
  <2> SUFFICES ASSUME NEW a \in Accounts, isMember(a) PROVE ~isCitizen(a)'
    BY <1>3 DEF RolesExclusive, Restart, isMember
  <2> QED BY <1>3, DeactivatedNotActive DEF Restart, isCitizen
<1>4. ASSUME NEW c \in Calls, AsksOnly(c) \/ Refuse(c) PROVE RolesExclusive'
  BY <1>4, AskType, RolesKeptByOthers DEF dbVars
<1>5. ASSUME Chain \/ ClosePage \/ UNCHANGED vars PROVE RolesExclusive'
  BY <1>5, RolesKeptByOthers DEF Chain, ClosePage, vars, appVars, dbVars
<1>6. ASSUME NEW c \in Calls,
             \/ \E r \in Requests, i \in Institutions : createRequest(c, r, i)
             \/ \E r \in Requests : rejectRequest(c, r) \/ prepareIssuance(c, r)
             \/ \E attempt \in readableAttempts : confirmIssuance(c, attempt)
             \/ prepareRevocation(c)
             \/ \E attempt \in drafts : confirmRevocation(c, attempt)
      PROVE  RolesExclusive'
  BY <1>6, RolesKeptByOthers DEF createRequest, rejectRequest, prepareIssuance,
         confirmIssuance, prepareRevocation, confirmRevocation
<1> QED BY <1>1, <1>2, <1>3, <1>4, <1>5, <1>6, StepCases DEF Writes

\* Issuer and citizen are mutually exclusive, however the wallet's connect calls and
\* the administrator's registrations overlap.
THEOREM RolesStayExclusive == AppSpec => []RolesExclusive
<1>1. AppInit => RolesExclusive
  BY DEF AppInit, RolesExclusive, isCitizen
<1> QED BY <1>1, RolesInductive, AppTypeCorrect, PTL DEF AppSpec

-----------------------------------------------------------------------------
(* Whom a request is addressed to. *)

\* A citizen is connected to institutions that other wallets hold, and a handler that
\* connects one has found the institution registered.
Connected ==
    /\ \A r \in Requests : request[r].status # "NONE" => request[r].institution \in Institutions
    /\ \A a \in Accounts, i \in Institutions :
           relationship[<<a, i>>] # "NONE" => membership[i] \notin {a, ZeroAddress}
    /\ \A c \in Calls : At(c, "connectable") => membership[call[c].institution] # ZeroAddress

SelfInv == AppTypeOK /\ NoSelfIssuance /\ Connected

\* An institution that has a wallet keeps it.
LEMMA MembershipStable ==
    ASSUME AppTypeOK, [AppNext]_vars
    PROVE  \A i \in Institutions : membership[i] # ZeroAddress => membership'[i] = membership[i]
<1>1. ASSUME NEW c \in Calls, NEW i \in Institutions, createInstitution(c, i)
      PROVE  \A j \in Institutions : membership[j] # ZeroAddress => membership'[j] = membership[j]
  BY <1>1 DEF createInstitution, AppTypeOK
<1>2. ASSUME NEW c \in Calls, Writes(c), ~\E i \in Institutions : createInstitution(c, i)
      PROVE  membership' = membership
  BY <1>2 DEF Writes, connectCitizen, createRequest, rejectRequest, prepareIssuance,
         confirmIssuance, prepareRevocation, confirmRevocation
<1>3. ASSUME NEW c \in Calls, AsksOnly(c) \/ Refuse(c) PROVE membership' = membership
  BY <1>3, AskType DEF dbVars
<1>4. ASSUME Chain \/ Restart \/ ClosePage \/ UNCHANGED vars PROVE membership' = membership
  BY <1>4 DEF Chain, Restart, ClosePage, vars, appVars, dbVars
<1> QED BY <1>1, <1>2, <1>3, <1>4, StepCases

\* What a handler that has just asked the chain knows.
Asked(c) ==
    \/ \E i \in Institutions :
           /\ CheckInstitution(c, i)
           /\ call'[c].step = "connectable" /\ call'[c].institution = i
    \/ \E r \in Requests, t \in DOMAIN log :
           /\ ValidateIssuance(c, r, t)
           /\ call'[c].step = "issued" /\ call'[c].request = r /\ call'[c].transaction = t
           /\ call'[c].sender = call[c].sender
           /\ call'[c].at = certificates[request[r].hash].issuedAt
    \/ \E r \in Requests, t \in DOMAIN log :
           /\ ValidateRevocation(c, r, t)
           /\ call'[c].step = "revoked" /\ call'[c].request = r /\ call'[c].transaction = t
           /\ call'[c].sender = call[c].sender
           /\ call'[c].at = certificates[assignment[r].hash].revokedAt
    \/ call'[c].step \notin {"connectable", "issued", "revoked"}

LEMMA AwaitFields ==
    ASSUME AppTypeOK, NEW c \in Calls, NEW state, Await(c, state)
    PROVE  call'[c] = state /\ \A d \in Calls \ {c} : call'[d] = call[d]
BY DEF Await, AppTypeOK

LEMMA AskFields ==
    ASSUME AppTypeOK, NEW c \in Calls, AsksOnly(c)
    PROVE  Asked(c) /\ \A d \in Calls \ {c} : call'[d] = call[d]
<1>1. call[c] \in Handler
  BY DEF AppTypeOK
<1>2. ASSUME NEW a \in Accounts, Begin(c, a) PROVE Asked(c) /\ \A d \in Calls \ {c} : call'[d] = call[d]
  <2>1. Await(c, [Idle EXCEPT !.step = "authorizing", !.sender = a,
                              !.member = isMember(a), !.citizen = isCitizen(a)])
    BY <1>2 DEF Begin
  <2>2. [Idle EXCEPT !.step = "authorizing", !.sender = a,
                     !.member = isMember(a), !.citizen = isCitizen(a)].step = "authorizing"
    BY DEF Idle
  <2> QED BY <2>1, <2>2, AwaitFields DEF Asked
<1>3. ASSUME NEW a \in Accounts, CheckIssuerWallet(c, a)
      PROVE  Asked(c) /\ \A d \in Calls \ {c} : call'[d] = call[d]
  <2>1. Await(c, [call[c] EXCEPT !.step = "registering", !.wallet = a])
    BY <1>3 DEF CheckIssuerWallet
  <2>2. [call[c] EXCEPT !.step = "registering", !.wallet = a].step = "registering"
    BY <1>1 DEF Handler
  <2> QED BY <2>1, <2>2, AwaitFields DEF Asked
<1>4. ASSUME DeriveAuthorization(c) \/ CheckSelf(c)
      PROVE  Asked(c) /\ \A d \in Calls \ {c} : call'[d] = call[d]
  <2> DEFINE derived == [call[c] EXCEPT !.step = "authorized",
                             !.authorized = call[c].member /\ isAuthorizedIssuer(call[c].sender)]
             checked == [call[c] EXCEPT !.step = "connecting"]
  <2>1. Await(c, derived) \/ Await(c, checked)
    BY <1>4 DEF DeriveAuthorization, CheckSelf
  <2>2. derived.step = "authorized" /\ checked.step = "connecting"
    BY <1>1 DEF Handler
  <2> HIDE DEF derived, checked
  <2>3. call'[c].step \in {"authorized", "connecting"} /\ \A d \in Calls \ {c} : call'[d] = call[d]
    BY <2>1, <2>2, AwaitFields
  <2> QED BY <2>3 DEF Asked
<1>5. ASSUME NEW i \in Institutions, CheckInstitution(c, i)
      PROVE  Asked(c) /\ \A d \in Calls \ {c} : call'[d] = call[d]
  <2> DEFINE state == [call[c] EXCEPT !.step = "connectable", !.institution = i]
  <2>1. Await(c, state)
    BY <1>5 DEF CheckInstitution
  <2>2. state.step = "connectable" /\ state.institution = i
    BY <1>1 DEF Handler
  <2> HIDE DEF state
  <2>3. /\ call'[c].step = "connectable"
        /\ call'[c].institution = i
        /\ \A d \in Calls \ {c} : call'[d] = call[d]
    BY <2>1, <2>2, AwaitFields
  <2> QED BY <1>5, <2>3 DEF Asked
<1>6. ASSUME NEW r \in Requests, CheckRevocable(c, r)
      PROVE  Asked(c) /\ \A d \in Calls \ {c} : call'[d] = call[d]
  <2>1. Await(c, [call[c] EXCEPT !.step = "revocable", !.request = r])
    BY <1>6 DEF CheckRevocable
  <2>2. [call[c] EXCEPT !.step = "revocable", !.request = r].step = "revocable"
    BY <1>1 DEF Handler
  <2> QED BY <2>1, <2>2, AwaitFields DEF Asked
<1>7. ASSUME NEW h \in Hashes, CheckUnissued(c, h)
      PROVE  Asked(c) /\ \A d \in Calls \ {c} : call'[d] = call[d]
  <2>1. Await(c, [call[c] EXCEPT !.step = "unissued", !.hash = h])
    BY <1>7 DEF CheckUnissued
  <2>2. [call[c] EXCEPT !.step = "unissued", !.hash = h].step = "unissued"
    BY <1>1 DEF Handler
  <2> QED BY <2>1, <2>2, AwaitFields DEF Asked
<1>8. ASSUME NEW r \in Requests, NEW t \in DOMAIN log, ValidateIssuance(c, r, t)
      PROVE  Asked(c) /\ \A d \in Calls \ {c} : call'[d] = call[d]
  <2> DEFINE state == [call[c] EXCEPT !.step = "issued", !.request = r, !.transaction = t,
                                  !.at = certificates[request[r].hash].issuedAt]
  <2>1. Await(c, state)
    BY <1>8 DEF ValidateIssuance
  <2>2. state.step = "issued" /\ state.request = r /\ state.transaction = t /\ state.sender = call[c].sender /\ state.at = certificates[request[r].hash].issuedAt
    BY <1>1 DEF Handler
  <2> HIDE DEF state
  <2>3. /\ call'[c].step = "issued"
        /\ call'[c].request = r
        /\ call'[c].transaction = t
        /\ call'[c].sender = call[c].sender
        /\ call'[c].at = certificates[request[r].hash].issuedAt
        /\ \A d \in Calls \ {c} : call'[d] = call[d]
    BY <2>1, <2>2, AwaitFields
  <2> QED BY <1>8, <2>3 DEF Asked
<1>9. ASSUME NEW r \in Requests, NEW t \in DOMAIN log, ValidateRevocation(c, r, t)
      PROVE  Asked(c) /\ \A d \in Calls \ {c} : call'[d] = call[d]
  <2> DEFINE state == [call[c] EXCEPT !.step = "revoked", !.request = r, !.transaction = t,
                                  !.at = certificates[assignment[r].hash].revokedAt]
  <2>1. Await(c, state)
    BY <1>9 DEF ValidateRevocation
  <2>2. state.step = "revoked" /\ state.request = r /\ state.transaction = t /\ state.sender = call[c].sender /\ state.at = certificates[assignment[r].hash].revokedAt
    BY <1>1 DEF Handler
  <2> HIDE DEF state
  <2>3. /\ call'[c].step = "revoked"
        /\ call'[c].request = r
        /\ call'[c].transaction = t
        /\ call'[c].sender = call[c].sender
        /\ call'[c].at = certificates[assignment[r].hash].revokedAt
        /\ \A d \in Calls \ {c} : call'[d] = call[d]
    BY <2>1, <2>2, AwaitFields
  <2> QED BY <1>9, <2>3 DEF Asked
<1> QED BY <1>2, <1>3, <1>4, <1>5, <1>6, <1>7, <1>8, <1>9 DEF AsksOnly

\* A handler stays as it was, ends, or has just asked while everything else stood still.
LEMMA HandlerCases ==
    ASSUME AppTypeOK, [AppNext]_vars, NEW c \in Calls
    PROVE  \/ call'[c] = call[c]
           \/ call'[c].step = "idle"
           \/ Asked(c) /\ UNCHANGED <<chainVars, dbVars, drafts>>
<1>1. ASSUME NEW d \in Calls, AsksOnly(d)
      PROVE  call'[c] = call[c] \/ (Asked(c) /\ UNCHANGED <<chainVars, dbVars, drafts>>)
  BY <1>1, AskFields, AskType
<1>2. ASSUME NEW d \in Calls, Writes(d) \/ Refuse(d)
      PROVE  call'[c] = call[c] \/ call'[c].step = "idle"
  <2>1. Respond(d)
    BY <1>2 DEF Writes, Refuse, createInstitution, connectCitizen, createRequest,
       rejectRequest, prepareIssuance, confirmIssuance, prepareRevocation, confirmRevocation
  <2> QED BY <2>1 DEF Respond, AppTypeOK, Idle
<1>3. ASSUME Chain \/ ClosePage \/ Restart \/ UNCHANGED vars
      PROVE  call'[c] = call[c] \/ call'[c].step = "idle"
  BY <1>3 DEF Chain, ClosePage, Restart, vars, appVars, Idle
<1> QED BY <1>1, <1>2, <1>3, StepCases

\* The tables of citizens, institutions and requests, one writer at a time.
LEMMA RelationshipSteps ==
    ASSUME AppTypeOK, [AppNext]_vars, NEW a \in Accounts, NEW i \in Institutions,
           relationship'[<<a, i>>] # "NONE"
    PROVE  \/ relationship[<<a, i>>] # "NONE"
           \/ \E c \in Calls : /\ At(c, "connectable") /\ call[c].institution = i
                               /\ ~isMember(a)
                               /\ membership' = membership
<1>1. ASSUME NEW c \in Calls, connectCitizen(c)
      PROVE  \/ relationship[<<a, i>>] # "NONE"
             \/ /\ At(c, "connectable") /\ call[c].institution = i
                /\ ~isMember(a)
                /\ membership' = membership
  <2>1. call[c].sender \in Accounts /\ call[c].institution \in Institutions
    BY <1>1 DEF connectCitizen, At, AppTypeOK, HandlerOK
  <2>2. <<a, i>> = <<call[c].sender, call[c].institution>> \/ relationship'[<<a, i>>] = relationship[<<a, i>>]
    BY <1>1, <2>1 DEF connectCitizen, AppTypeOK
  <2> QED BY <1>1, <2>2 DEF connectCitizen, mayBecomeCitizen
<1>2. ASSUME NEW wallets, relationship' = deactivated(wallets)
      PROVE  relationship[<<a, i>>] # "NONE"
  BY <1>2 DEF deactivated
<1>3. ASSUME NEW c \in Calls, NEW j \in Institutions, createInstitution(c, j)
      PROVE  relationship[<<a, i>>] # "NONE"
  <2> PICK wallets : wallets = {call[c].wallet}
    OBVIOUS
  <2> QED BY <1>2, <1>3 DEF createInstitution, deactivateCitizen
<1>4. ASSUME Restart PROVE relationship[<<a, i>>] # "NONE"
  <2> PICK wallets : wallets = {b \in Accounts : isMember(b)}
    OBVIOUS
  <2> QED BY <1>2, <1>4 DEF Restart
<1>5. ASSUME NEW c \in Calls, Writes(c), ~connectCitizen(c),
             ~\E j \in Institutions : createInstitution(c, j)
      PROVE  relationship' = relationship
  BY <1>5 DEF Writes, createRequest, rejectRequest, prepareIssuance, confirmIssuance,
         prepareRevocation, confirmRevocation
<1>6. ASSUME NEW c \in Calls, AsksOnly(c) \/ Refuse(c) PROVE relationship' = relationship
  BY <1>6, AskType DEF dbVars
<1>7. ASSUME Chain \/ ClosePage \/ UNCHANGED vars PROVE relationship' = relationship
  BY <1>7 DEF Chain, ClosePage, vars, appVars, dbVars
<1> QED BY <1>1, <1>3, <1>4, <1>5, <1>6, <1>7, StepCases

\* A request keeps its citizen and its institution once it is made; a new one is made by
\* a connected citizen.
LEMMA RequestSteps ==
    ASSUME AppTypeOK, [AppNext]_vars, NEW r \in Requests, request'[r].status # "NONE"
    PROVE  \/ /\ request[r].status # "NONE"
              /\ request'[r].citizen = request[r].citizen
              /\ request'[r].institution = request[r].institution
           \/ /\ request[r].status = "NONE"
              /\ request'[r].citizen \in Accounts /\ request'[r].institution \in Institutions
              /\ relationship[<<request'[r].citizen, request'[r].institution>>] # "NONE"
              /\ membership' = membership
<1>1. \A q \in Requests : request[q] \in RequestRow
  BY DEF AppTypeOK
<1>2. ASSUME NEW c \in Calls, NEW q \in Requests, NEW i \in Institutions, createRequest(c, q, i)
      PROVE  \/ request'[r] = request[r]
             \/ /\ request[r].status = "NONE"
                /\ request'[r].citizen \in Accounts /\ request'[r].institution \in Institutions
                /\ relationship[<<request'[r].citizen, request'[r].institution>>] # "NONE"
                /\ membership' = membership
  <2>1. call[c].sender \in Accounts
    BY <1>2 DEF createRequest, At, AppTypeOK, HandlerOK
  <2>2. CASE r = q
    <3>1. request'[r] = [BlankRequest EXCEPT !.citizen = call[c].sender, !.institution = i,
                                             !.status = "PENDING"]
      BY <1>2, <2>2 DEF createRequest, AppTypeOK
    <3>2. request'[r].citizen = call[c].sender /\ request'[r].institution = i
      BY <3>1 DEF BlankRequest
    <3> QED BY <1>2, <2>1, <3>2 DEF createRequest
  <2>3. CASE r # q
    BY <1>2, <2>3 DEF createRequest, AppTypeOK
  <2> QED BY <2>2, <2>3
<1>3. ASSUME NEW c \in Calls, NEW q \in Requests, rejectRequest(c, q) \/ prepareIssuance(c, q)
      PROVE  /\ request[r].status # "NONE"
             /\ request'[r].citizen = request[r].citizen
             /\ request'[r].institution = request[r].institution
  <2>1. request[q].status # "NONE"
    BY <1>3 DEF rejectRequest, prepareIssuance, mayHandle
  <2>2. r # q => request'[r] = request[r]
    BY <1>3 DEF rejectRequest, prepareIssuance, AppTypeOK
  <2> DEFINE refused == [request[q] EXCEPT !.status = "REJECTED"]
             reserved == [request[q] EXCEPT !.status = "PROCESSING", !.hash = call[c].hash,
                                            !.attempt = attempts + 1]
  <2>4. \A row \in {refused, reserved} :
            row.citizen = request[q].citizen /\ row.institution = request[q].institution
    BY <1>1 DEF RequestRow
  <2>5. request'[q] \in {request[q], refused, reserved}
    BY <1>3 DEF rejectRequest, rejected, prepareIssuance, AppTypeOK
  <2> HIDE DEF refused, reserved
  <2>3. request'[q].citizen = request[q].citizen /\ request'[q].institution = request[q].institution
    BY <2>4, <2>5
  <2> QED BY <2>1, <2>2, <2>3
<1>4. ASSUME NEW c \in Calls, NEW attempt \in readableAttempts, confirmIssuance(c, attempt)
      PROVE  /\ request[r].status # "NONE"
             /\ request'[r].citizen = request[r].citizen
             /\ request'[r].institution = request[r].institution
  <2>1. call[c].request \in Requests
    BY <1>4 DEF confirmIssuance, At, AppTypeOK, HandlerOK
  <2>2. r # call[c].request => request'[r] = request[r]
    BY <1>4, <2>1 DEF confirmIssuance, AppTypeOK
  <2> PICK q \in Requests : q = call[c].request
    BY <2>1
  <2> DEFINE issued == [request[q] EXCEPT !.status = "ISSUED", !.transaction = call[c].transaction]
  <2>3. issued.citizen = request[q].citizen /\ issued.institution = request[q].institution
    BY <1>1 DEF RequestRow
  <2>4. request'[q] \in {request[q], issued} /\ request[q].status \in {"ISSUED", "PROCESSING"}
    BY <1>4 DEF confirmIssuance, AppTypeOK
  <2> HIDE DEF issued
  <2> QED BY <2>2, <2>3, <2>4
<1>5. ASSUME NEW c \in Calls, \/ \E i \in Institutions : createInstitution(c, i)
                              \/ connectCitizen(c) \/ prepareRevocation(c)
                              \/ \E attempt \in drafts : confirmRevocation(c, attempt)
      PROVE  request' = request
  BY <1>5 DEF createInstitution, connectCitizen, prepareRevocation, confirmRevocation
<1>6. ASSUME NEW c \in Calls, AsksOnly(c) \/ Refuse(c) PROVE request' = request
  BY <1>6, AskType DEF dbVars
<1>7. ASSUME Chain \/ Restart \/ ClosePage \/ UNCHANGED vars PROVE request' = request
  BY <1>7 DEF Chain, Restart, ClosePage, vars, appVars, dbVars
<1> QED BY <1>2, <1>3, <1>4, <1>5, <1>6, <1>7, StepCases DEF Writes

LEMMA SelfInductive ==
    ASSUME SelfInv, [AppNext]_vars
    PROVE  SelfInv'
<1> USE DEF SelfInv
<1>1. AppTypeOK'
  BY AppTypeInductive
<1>2. \A i \in Institutions : membership[i] # ZeroAddress => membership'[i] = membership[i]
  BY MembershipStable
<1>3. ASSUME NEW a \in Accounts, NEW i \in Institutions, relationship'[<<a, i>>] # "NONE"
      PROVE  membership'[i] \notin {a, ZeroAddress}
  <2>1. CASE relationship[<<a, i>>] # "NONE"
    BY <1>2, <2>1 DEF Connected
  <2>2. ASSUME NEW c \in Calls, At(c, "connectable"), call[c].institution = i, ~isMember(a),
               membership' = membership
        PROVE  membership'[i] \notin {a, ZeroAddress}
    BY <2>2 DEF Connected, isMember
  <2> QED BY <1>3, <2>1, <2>2, RelationshipSteps
<1>4. ASSUME NEW c \in Calls, call'[c].step = "connectable"
      PROVE  membership'[call'[c].institution] # ZeroAddress
  <2>1. call'[c].institution \in Institutions
    BY <1>1, <1>4 DEF AppTypeOK, HandlerOK
  <2>2. membership[call'[c].institution] # ZeroAddress
    <3>1. CASE call'[c] = call[c]
      BY <1>4, <3>1 DEF Connected, At
    <3>2. CASE Asked(c)
      BY <1>4, <3>2 DEF Asked, CheckInstitution
    <3> QED BY <1>4, <3>1, <3>2, HandlerCases
  <2> QED BY <1>2, <2>1, <2>2
<1>5. ASSUME NEW r \in Requests, request'[r].status # "NONE"
      PROVE  /\ request'[r].institution \in Institutions
             /\ membership'[request'[r].institution] \notin {request'[r].citizen, ZeroAddress}
  <2>1. CASE /\ request[r].status # "NONE"
             /\ request'[r].citizen = request[r].citizen
             /\ request'[r].institution = request[r].institution
    BY <1>2, <2>1 DEF NoSelfIssuance, Connected
  <2>2. CASE /\ request'[r].citizen \in Accounts /\ request'[r].institution \in Institutions
             /\ relationship[<<request'[r].citizen, request'[r].institution>>] # "NONE"
             /\ membership' = membership
    BY <2>2 DEF Connected
  <2> QED BY <1>5, <2>1, <2>2, RequestSteps
<1>6. NoSelfIssuance'
  BY <1>5 DEF NoSelfIssuance
<1>7. Connected'
  BY <1>3, <1>4, <1>5 DEF Connected, At
<1> QED BY <1>1, <1>6, <1>7

LEMMA SelfInitial == AppInit => SelfInv
BY AppTypeInitial DEF AppInit, SelfInv, NoSelfIssuance, Connected, BlankRequest, At, Idle

\* A request is never addressed to an institution that its own citizen runs.
THEOREM NobodyIssuesToHimself == AppSpec => []NoSelfIssuance
<1>1. SelfInv => NoSelfIssuance
  BY DEF SelfInv
<1> QED BY <1>1, SelfInitial, SelfInductive, PTL DEF AppSpec

-----------------------------------------------------------------------------
(* The rows of a request, by the step that writes them. *)

SameWork(r) ==
    /\ request'[r].hash = request[r].hash
    /\ request'[r].attempt = request[r].attempt
    /\ request'[r].institution = request[r].institution

SameAssignment(r) ==
    /\ assignment'[r].hash = assignment[r].hash
    /\ assignment'[r].issuer = assignment[r].issuer
    /\ assignment'[r].issuedAt = assignment[r].issuedAt
    /\ assignment'[r].transaction = assignment[r].transaction

Created(r) ==
    /\ request[r].status = "NONE" /\ request'[r].status = "PENDING"
    /\ request'[r].hash = ZeroHash /\ request'[r].attempt = NULL /\ request'[r].transaction = NULL
    /\ UNCHANGED <<assignment, attempts>>

Rejected(r) ==
    /\ request[r].status = "PENDING" /\ request'[r].status = "REJECTED"
    /\ SameWork(r) /\ request'[r].transaction = request[r].transaction
    /\ UNCHANGED <<assignment, attempts>>

Reserved(c, r) ==
    /\ request[r].status = "PENDING" /\ request'[r].status = "PROCESSING"
    /\ call[c].hash \in Hashes /\ isUnreserved(call[c].hash, r)
    /\ request'[r].hash = call[c].hash /\ request'[r].attempt = attempts + 1
    /\ request'[r].transaction = request[r].transaction
    /\ request'[r].institution = request[r].institution
    /\ attempts' = attempts + 1
    /\ UNCHANGED assignment

Confirmed(c, r) ==
    /\ At(c, "issued") /\ call[c].request = r
    /\ request[r].status = "PROCESSING" /\ request'[r].status = "ISSUED"
    /\ SameWork(r) /\ request'[r].transaction = call[c].transaction
    /\ \A q \in Requests : assignment[q].transaction # call[c].transaction
    /\ assignment[r].status = "NONE" /\ assignment'[r].status = "ACTIVE"
    /\ assignment'[r].hash = request[r].hash /\ assignment'[r].issuer = call[c].sender
    /\ assignment'[r].issuedAt = call[c].at
    /\ assignment'[r].transaction = call[c].transaction
    /\ assignment'[r].revocationTransaction = NULL
    /\ UNCHANGED attempts

Drafted(r) ==
    /\ assignment'[r].status = assignment[r].status /\ SameAssignment(r)
    /\ assignment'[r].revokedAt = assignment[r].revokedAt
    /\ assignment'[r].revocationTransaction = assignment[r].revocationTransaction
    /\ attempts' = attempts + 1
    /\ UNCHANGED request

Withdrawn(c, r) ==
    /\ At(c, "revoked") /\ call[c].request = r
    /\ assignment[r].status = "ACTIVE" /\ assignment'[r].status = "REVOKED" /\ SameAssignment(r)
    /\ assignment'[r].revokedAt = call[c].at
    /\ assignment'[r].revocationTransaction = call[c].transaction
    /\ UNCHANGED <<request, attempts>>

RowStep(c, r) ==
    /\ \A q \in Requests \ {r} : request'[q] = request[q] /\ assignment'[q] = assignment[q]
    /\ UNCHANGED <<chainVars, membership>>
    /\ \/ Created(r) \/ Rejected(r) \/ Reserved(c, r) \/ Confirmed(c, r) \/ Drafted(r)
       \/ Withdrawn(c, r)

LEMMA CreateRows ==
    ASSUME AppTypeOK, NEW c \in Calls, NEW r \in Requests, NEW i \in Institutions,
           createRequest(c, r, i)
    PROVE  RowStep(c, r)
<1> DEFINE row == [BlankRequest EXCEPT !.citizen = call[c].sender, !.institution = i,
                                       !.status = "PENDING"]
<1>1. /\ row.status = "PENDING" /\ row.hash = ZeroHash /\ row.attempt = NULL
      /\ row.transaction = NULL
  BY DEF BlankRequest
<1>2. request' = [request EXCEPT ![r] = row] /\ request[r].status = "NONE"
  BY DEF createRequest
<1> HIDE DEF row
<1>3. request'[r] = row /\ \A q \in Requests \ {r} : request'[q] = request[q]
  BY <1>2 DEF AppTypeOK
<1> QED BY <1>1, <1>2, <1>3 DEF createRequest, RowStep, Created

LEMMA RejectRows ==
    ASSUME AppTypeOK, NEW c \in Calls, NEW r \in Requests, rejectRequest(c, r)
    PROVE  RowStep(c, r)
<1> DEFINE row == [request[r] EXCEPT !.status = "REJECTED"]
<1>1. /\ row.status = "REJECTED" /\ row.hash = request[r].hash /\ row.attempt = request[r].attempt
      /\ row.transaction = request[r].transaction /\ row.institution = request[r].institution
  BY DEF AppTypeOK, RequestRow
<1>2. request' = [request EXCEPT ![r] = row] /\ request[r].status = "PENDING"
  BY DEF rejectRequest, rejected, isRejectable
<1> HIDE DEF row
<1>3. request'[r] = row /\ \A q \in Requests \ {r} : request'[q] = request[q]
  BY <1>2 DEF AppTypeOK
<1> QED BY <1>1, <1>2, <1>3 DEF rejectRequest, RowStep, Rejected, SameWork

LEMMA PrepareRows ==
    ASSUME AppTypeOK, NEW c \in Calls, NEW r \in Requests, prepareIssuance(c, r)
    PROVE  UNCHANGED <<request, assignment, attempts>> \/ RowStep(c, r)
<1> DEFINE row == [request[r] EXCEPT !.status = "PROCESSING", !.hash = call[c].hash,
                                     !.attempt = attempts + 1]
<1>1. /\ row.status = "PROCESSING" /\ row.hash = call[c].hash /\ row.attempt = attempts + 1
      /\ row.transaction = request[r].transaction /\ row.institution = request[r].institution
  BY DEF AppTypeOK, RequestRow
<1>2. \/ UNCHANGED <<request, assignment, attempts>>
      \/ /\ request' = [request EXCEPT ![r] = row] /\ request[r].status = "PENDING"
         /\ isUnreserved(call[c].hash, r) /\ attempts' = attempts + 1
         /\ call[c].hash \in Hashes
  BY DEF prepareIssuance, At, AppTypeOK, HandlerOK
<1> HIDE DEF row
<1>3. ASSUME request' = [request EXCEPT ![r] = row]
      PROVE  request'[r] = row /\ \A q \in Requests \ {r} : request'[q] = request[q]
  BY <1>3 DEF AppTypeOK
<1> QED BY <1>1, <1>2, <1>3 DEF prepareIssuance, RowStep, Reserved

LEMMA ConfirmRows ==
    ASSUME AppTypeOK, NEW c \in Calls, NEW attempt \in readableAttempts,
           confirmIssuance(c, attempt)
    PROVE  UNCHANGED <<request, assignment, attempts>> \/ \E r \in Requests : RowStep(c, r)
<1> PICK r \in Requests : r = call[c].request
  BY DEF confirmIssuance, At, AppTypeOK, HandlerOK
<1> DEFINE row == [request[r] EXCEPT !.status = "ISSUED", !.transaction = call[c].transaction]
           new == [BlankAssignment EXCEPT !.status = "ACTIVE", !.hash = request[r].hash,
                      !.issuer = call[c].sender, !.issuedAt = call[c].at,
                      !.transaction = call[c].transaction]
<1>1. /\ row.status = "ISSUED" /\ row.hash = request[r].hash /\ row.attempt = request[r].attempt
      /\ row.transaction = call[c].transaction /\ row.institution = request[r].institution
  BY DEF AppTypeOK, RequestRow
<1>2. /\ new.status = "ACTIVE" /\ new.hash = request[r].hash /\ new.issuer = call[c].sender
      /\ new.issuedAt = call[c].at /\ new.transaction = call[c].transaction
      /\ new.revocationTransaction = NULL
  BY DEF BlankAssignment
<1>3. \/ UNCHANGED <<request, assignment, attempts>>
      \/ /\ request' = [request EXCEPT ![r] = row] /\ assignment' = [assignment EXCEPT ![r] = new]
         /\ request[r].status = "PROCESSING" /\ assignment[r].status = "NONE"
         /\ \A q \in Requests : assignment[q].transaction # call[c].transaction
  BY DEF confirmIssuance
<1>4. At(c, "issued") /\ UNCHANGED <<chainVars, membership, attempts>>
  BY DEF confirmIssuance
<1> HIDE DEF row, new
<1>5. ASSUME request' = [request EXCEPT ![r] = row], assignment' = [assignment EXCEPT ![r] = new]
      PROVE  /\ request'[r] = row /\ assignment'[r] = new
             /\ \A q \in Requests \ {r} : request'[q] = request[q] /\ assignment'[q] = assignment[q]
  BY <1>5 DEF AppTypeOK
<1>6. CASE UNCHANGED <<request, assignment, attempts>>
  BY <1>6
<1>7. CASE ~UNCHANGED <<request, assignment, attempts>>
  BY <1>1, <1>2, <1>3, <1>4, <1>5, <1>7 DEF RowStep, Confirmed, SameWork
<1> QED BY <1>6, <1>7

LEMMA RevocationRows ==
    ASSUME AppTypeOK, NEW c \in Calls,
           prepareRevocation(c) \/ \E attempt \in drafts : confirmRevocation(c, attempt)
    PROVE  UNCHANGED <<request, assignment, attempts>> \/ \E r \in Requests : RowStep(c, r)
<1> PICK r \in Requests : r = call[c].request
  BY DEF prepareRevocation, confirmRevocation, At, AppTypeOK, HandlerOK
<1> DEFINE drafted == [assignment[r] EXCEPT !.revocationAttempt = attempts + 1]
           withdrawn == [assignment[r] EXCEPT !.status = "REVOKED", !.revokedAt = call[c].at,
                            !.revocationTransaction = call[c].transaction]
<1>1. /\ \A row \in {drafted, withdrawn} :
             /\ row.hash = assignment[r].hash /\ row.issuer = assignment[r].issuer
             /\ row.issuedAt = assignment[r].issuedAt
             /\ row.transaction = assignment[r].transaction
      /\ drafted.status = assignment[r].status /\ drafted.revokedAt = assignment[r].revokedAt
      /\ drafted.revocationTransaction = assignment[r].revocationTransaction
      /\ withdrawn.status = "REVOKED" /\ withdrawn.revokedAt = call[c].at
      /\ withdrawn.revocationTransaction = call[c].transaction
  BY DEF AppTypeOK, AssignmentRow
<1>2. /\ UNCHANGED <<chainVars, membership, request>>
      /\ \/ UNCHANGED <<assignment, attempts>>
         \/ assignment' = [assignment EXCEPT ![r] = drafted] /\ attempts' = attempts + 1
         \/ /\ assignment' = [assignment EXCEPT ![r] = withdrawn] /\ UNCHANGED attempts
            /\ At(c, "revoked") /\ assignment[r].status = "ACTIVE"
  BY DEF prepareRevocation, confirmRevocation
<1> HIDE DEF drafted, withdrawn
<1>3. ASSUME NEW row, assignment' = [assignment EXCEPT ![r] = row]
      PROVE  assignment'[r] = row /\ \A q \in Requests \ {r} : assignment'[q] = assignment[q]
  BY <1>3 DEF AppTypeOK
<1>4. CASE assignment' = [assignment EXCEPT ![r] = drafted] /\ attempts' = attempts + 1
  <2>1. assignment'[r] = drafted /\ \A q \in Requests \ {r} : assignment'[q] = assignment[q]
    BY <1>3, <1>4
  <2> QED BY <1>1, <1>2, <1>4, <2>1 DEF RowStep, Drafted, SameAssignment
<1>5. CASE /\ assignment' = [assignment EXCEPT ![r] = withdrawn] /\ UNCHANGED attempts
           /\ At(c, "revoked") /\ assignment[r].status = "ACTIVE"
  <2>1. assignment'[r] = withdrawn /\ \A q \in Requests \ {r} : assignment'[q] = assignment[q]
    BY <1>3, <1>5
  <2> QED BY <1>1, <1>2, <1>5, <2>1 DEF RowStep, Withdrawn, SameAssignment
<1> QED BY <1>2, <1>4, <1>5

LEMMA RowSteps ==
    ASSUME AppTypeOK, [AppNext]_vars
    PROVE  \/ UNCHANGED <<request, assignment, attempts>>
           \/ \E c \in Calls, r \in Requests : RowStep(c, r)
<1>1. ASSUME NEW c \in Calls, Writes(c)
      PROVE  UNCHANGED <<request, assignment, attempts>> \/ \E r \in Requests : RowStep(c, r)
  <2>1. ASSUME \/ \E i \in Institutions : createInstitution(c, i)
               \/ connectCitizen(c)
        PROVE  UNCHANGED <<request, assignment, attempts>>
    BY <2>1 DEF createInstitution, connectCitizen
  <2> QED BY <1>1, <2>1, CreateRows, RejectRows, PrepareRows, ConfirmRows, RevocationRows DEF Writes
<1>2. ASSUME NEW c \in Calls, AsksOnly(c) \/ Refuse(c)
      PROVE  UNCHANGED <<request, assignment, attempts>>
  BY <1>2, AskType DEF dbVars
<1>3. ASSUME Chain \/ Restart \/ ClosePage \/ UNCHANGED vars
      PROVE  UNCHANGED <<request, assignment, attempts>>
  BY <1>3 DEF Chain, Restart, ClosePage, vars, appVars, dbVars
<1> QED BY <1>1, <1>2, <1>3, StepCases

-----------------------------------------------------------------------------
(* Reservations and evidence. *)

\* A hash is set by the reservation, attempts are numbered upwards, and the transaction a
\* request shows is the one its assignment was made for.
RowsCoherent ==
    /\ \A r \in Requests : request[r].status \in {"NONE", "PENDING"} => request[r].hash = ZeroHash
    /\ \A r \in Requests : request[r].attempt <= attempts
    /\ \A r \in Requests : request[r].transaction # NULL =>
                               assignment[r].transaction = request[r].transaction

ReservedInv == AppTypeOK /\ RowsCoherent /\ OneRequestPerHash

LEMMA RowFields ==
    ASSUME AppTypeOK, NEW r \in Requests
    PROVE  /\ request[r].attempt \in Nat /\ request[r].transaction \in Nat
           /\ request[r].hash \in Hashes \cup {ZeroHash}
           /\ assignment[r].transaction \in Nat /\ assignment[r].hash \in Hashes \cup {ZeroHash}
           /\ attempts \in Nat
<1>1. request[r] \in RequestRow /\ assignment[r] \in AssignmentRow /\ attempts \in Nat
  BY DEF AppTypeOK
<1> QED BY <1>1 DEF RequestRow, AssignmentRow

LEMMA ReservedInductive ==
    ASSUME ReservedInv, [AppNext]_vars
    PROVE  ReservedInv'
<1> USE DEF ReservedInv
<1>1. AppTypeOK'
  BY AppTypeInductive
<1>2. CASE UNCHANGED <<request, assignment, attempts>>
  BY <1>1, <1>2 DEF RowsCoherent, OneRequestPerHash
<1>3. ASSUME NEW c \in Calls, NEW r \in Requests, RowStep(c, r)
      PROVE  ReservedInv'
  <2>1. \A q \in Requests \ {r} : request'[q] = request[q] /\ assignment'[q] = assignment[q]
    BY <1>3 DEF RowStep
  <2>2. \A q \in Requests : /\ request[q].attempt \in Nat /\ request[q].transaction \in Nat
                            /\ assignment[q].transaction \in Nat /\ attempts \in Nat
    BY RowFields
  <2>3. CASE Created(r)
    BY <1>1, <2>1, <2>2, <2>3 DEF Created, RowsCoherent, OneRequestPerHash, NULL
  <2>4. CASE Rejected(r)
    BY <1>1, <2>1, <2>2, <2>4 DEF Rejected, SameWork, RowsCoherent, OneRequestPerHash
  <2>5. CASE Reserved(c, r)
    <3>1. \A q \in Requests \ {r} : request[q].hash # call[c].hash
      BY <2>5 DEF Reserved, isUnreserved
    <3>2. \A q \in Requests : request[q].attempt # attempts + 1 /\ request[q].attempt <= attempts + 1
      BY <2>2 DEF RowsCoherent
    <3>3. RowsCoherent'
      BY <2>1, <2>2, <2>5, <3>2 DEF Reserved, RowsCoherent
    <3>4. OneRequestPerHash'
      BY <2>1, <2>5, <3>1, <3>2 DEF Reserved, OneRequestPerHash
    <3> QED BY <1>1, <3>3, <3>4
  <2>6. CASE Confirmed(c, r)
    <3>1. \A q \in Requests : request[q].transaction # NULL => request[q].transaction # call[c].transaction
      BY <2>6 DEF Confirmed, RowsCoherent
    <3>2. RowsCoherent'
      BY <2>1, <2>6 DEF Confirmed, SameWork, RowsCoherent
    <3>3. OneRequestPerHash'
      BY <2>1, <2>6, <3>1 DEF Confirmed, SameWork, OneRequestPerHash
    <3> QED BY <1>1, <3>2, <3>3
  <2>7. CASE Drafted(r)
    BY <1>1, <2>1, <2>2, <2>7 DEF Drafted, SameAssignment, RowsCoherent, OneRequestPerHash
  <2>8. CASE Withdrawn(c, r)
    BY <1>1, <2>1, <2>2, <2>8 DEF Withdrawn, SameAssignment, RowsCoherent, OneRequestPerHash
  <2> QED BY <1>3, <2>3, <2>4, <2>5, <2>6, <2>7, <2>8 DEF RowStep
<1> QED BY <1>2, <1>3, RowSteps

LEMMA ReservedInitial == AppInit => ReservedInv
<1> SUFFICES ASSUME AppInit PROVE ReservedInv
  OBVIOUS
<1>1. \A r \in Requests : /\ request[r].status = "NONE" /\ request[r].hash = ZeroHash
                          /\ request[r].attempt = NULL /\ request[r].transaction = NULL
  BY DEF AppInit, BlankRequest
<1>2. attempts = 0
  BY DEF AppInit
<1> QED BY <1>1, <1>2, AppTypeInitial DEF ReservedInv, RowsCoherent, OneRequestPerHash, NULL

\* One request at a time reserves a hash, and an attempt or a transaction is evidence for
\* one request only.
THEOREM ReservationsAreExclusive == AppSpec => []OneRequestPerHash
<1>1. ReservedInv => OneRequestPerHash
  BY DEF ReservedInv
<1> QED BY <1>1, ReservedInitial, ReservedInductive, PTL DEF AppSpec

-----------------------------------------------------------------------------
(* What the database records, the registry has. *)

\* An event of a log, and what its account left in the registry.
SignedIn(l, name, h, a, t) ==
    /\ t \in DOMAIN l
    /\ l[t].name = name /\ l[t].hash = h /\ l[t].issuer = a /\ l[t].by = a

IssuedIn(certs, l, h, a, t, at) ==
    /\ certs[h].status # "NOT_FOUND" /\ certs[h].issuer = a /\ certs[h].issuedAt = at
    /\ SignedIn(l, "CertificateIssued", h, a, t)

RevokedIn(certs, l, h, a, t, at) ==
    /\ certs[h].status = "REVOKED" /\ certs[h].revokedAt = at
    /\ SignedIn(l, "CertificateRevoked", h, a, t)

RowBacked(row, req, members, certs, l) ==
    /\ row.status = "NONE" <=> req.status # "ISSUED"
    /\ row.status # "NONE" =>
           /\ row.hash = req.hash /\ row.transaction = req.transaction
           /\ row.issuer = members[req.institution]
           /\ IssuedIn(certs, l, row.hash, row.issuer, row.transaction, row.issuedAt)
    /\ row.status = "REVOKED" =>
           RevokedIn(certs, l, row.hash, row.issuer, row.revocationTransaction, row.revokedAt)

RowsBacked == \A r \in Requests :
    RowBacked(assignment[r], request[r], membership, certificates, log)

\* A handler about to confirm works for the institution of its request, on evidence it has
\* read, for a hash that is set.
HandlerBacked(state, req, row, members, certs, l) ==
    /\ state.step = "issued" =>
           /\ req.status # "NONE" /\ req.hash # ZeroHash
           /\ members[req.institution] = state.sender
           /\ IssuedIn(certs, l, req.hash, state.sender, state.transaction, state.at)
    /\ state.step = "revoked" =>
           /\ row.status # "NONE" /\ row.issuer = state.sender
           /\ RevokedIn(certs, l, row.hash, state.sender, state.transaction, state.at)

HandlersBacked == \A c \in Calls : call[c].step \in {"issued", "revoked"} =>
    HandlerBacked(call[c], request[call[c].request], assignment[call[c].request],
                  membership, certificates, log)

BackedInv == ReservedInv /\ SelfInv /\ RowsBacked /\ HandlersBacked

\* What the contract never takes back.
LEMMA ChainMoves ==
    ASSUME ChainTypeOK, [ChainNext]_chainVars
    PROVE  /\ \A i \in DOMAIN log : i \in DOMAIN log' /\ log'[i] = log[i]
           /\ \A h \in Hashes \cup {ZeroHash} : certificates[h].status # "NOT_FOUND" =>
                  /\ certificates'[h].status # "NOT_FOUND"
                  /\ certificates'[h].issuer = certificates[h].issuer
                  /\ certificates'[h].issuedAt = certificates[h].issuedAt
           /\ \A h \in Hashes \cup {ZeroHash} : certificates[h].status = "REVOKED" =>
                  certificates'[h] = certificates[h]
<1> USE DEF ChainTypeOK
<1>1. ASSUME NEW e, emit(e) PROVE \A i \in DOMAIN log : i \in DOMAIN log' /\ log'[i] = log[i]
  BY <1>1 DEF emit
<1>2. ASSUME NEW sender \in Accounts, NEW issuer \in Accounts \cup {ZeroAddress},
             authorizeIssuer(sender, issuer) \/ removeIssuer(sender, issuer)
      PROVE  certificates' = certificates /\ \E e : emit(e)
  BY <1>2 DEF authorizeIssuer, removeIssuer
<1>3. ASSUME NEW sender \in Accounts, NEW hash \in Hashes \cup {ZeroHash},
             issueCertificate(sender, hash)
      PROVE  /\ \E e : emit(e)
             /\ certificates[hash].status = "NOT_FOUND"
             /\ \A h \in (Hashes \cup {ZeroHash}) \ {hash} : certificates'[h] = certificates[h]
  BY <1>3 DEF issueCertificate, isUnknown
<1>4. ASSUME NEW sender \in Accounts, NEW hash \in Hashes \cup {ZeroHash},
             revokeCertificate(sender, hash)
      PROVE  /\ \E e : emit(e)
             /\ certificates[hash].status = "ACTIVE" /\ certificates'[hash].status = "REVOKED"
             /\ certificates'[hash].issuer = certificates[hash].issuer
             /\ certificates'[hash].issuedAt = certificates[hash].issuedAt
             /\ \A h \in (Hashes \cup {ZeroHash}) \ {hash} : certificates'[h] = certificates[h]
  BY <1>4 DEF revokeCertificate, isRevocable, Certificate
<1>5. NextBlock \/ UNCHANGED chainVars => UNCHANGED <<certificates, log>>
  BY DEF NextBlock, chainVars
<1> QED BY <1>1, <1>2, <1>3, <1>4, <1>5 DEF ChainNext, Transact

LEMMA EvidenceStable ==
    ASSUME ChainTypeOK, [ChainNext]_chainVars, NEW h \in Hashes \cup {ZeroHash},
           NEW a, NEW t, NEW at
    PROVE  /\ IssuedIn(certificates, log, h, a, t, at) => IssuedIn(certificates', log', h, a, t, at)
           /\ RevokedIn(certificates, log, h, a, t, at) => RevokedIn(certificates', log', h, a, t, at)
BY ChainMoves DEF IssuedIn, RevokedIn, SignedIn

\* The rows stay backed when only the chain and the institutions move.
LEMMA BackedElsewhere ==
    ASSUME BackedInv, [AppNext]_vars, NEW r \in Requests,
           request'[r] = request[r], assignment'[r] = assignment[r]
    PROVE  RowBacked(assignment'[r], request'[r], membership', certificates', log')
<1>1. RowBacked(assignment[r], request[r], membership, certificates, log)
  BY DEF BackedInv, RowsBacked
<1>2. ChainTypeOK /\ [ChainNext]_chainVars /\ assignment[r].hash \in Hashes \cup {ZeroHash}
  BY AppTypeInductive, RowFields DEF BackedInv, ReservedInv, AppTypeOK
<1>3. request[r].status = "ISSUED" =>
          membership'[request[r].institution] = membership[request[r].institution]
  BY MembershipStable DEF BackedInv, SelfInv, NoSelfIssuance, Connected
<1>4. \A a, t, at :
          /\ IssuedIn(certificates, log, assignment[r].hash, a, t, at) =>
                 IssuedIn(certificates', log', assignment[r].hash, a, t, at)
          /\ RevokedIn(certificates, log, assignment[r].hash, a, t, at) =>
                 RevokedIn(certificates', log', assignment[r].hash, a, t, at)
  BY <1>2, EvidenceStable
<1> QED BY <1>1, <1>3, <1>4 DEF RowBacked

\* A row that is written is written from evidence.
LEMMA BackedRow ==
    ASSUME BackedInv, NEW c \in Calls, NEW r \in Requests, RowStep(c, r)
    PROVE  RowBacked(assignment'[r], request'[r], membership', certificates', log')
<1>1. RowBacked(assignment[r], request[r], membership, certificates, log)
  BY DEF BackedInv, RowsBacked
<1>2. UNCHANGED <<certificates, log, membership>>
  BY DEF RowStep, chainVars
<1>3. CASE Created(r)
  BY <1>1, <1>2, <1>3 DEF Created, RowBacked
<1>4. CASE Rejected(r)
  BY <1>1, <1>2, <1>4 DEF Rejected, RowBacked
<1>5. CASE Reserved(c, r)
  BY <1>1, <1>2, <1>5 DEF Reserved, RowBacked
<1>6. CASE Confirmed(c, r)
  <2>1. HandlerBacked(call[c], request[r], assignment[r], membership, certificates, log)
    BY <1>6 DEF BackedInv, HandlersBacked, Confirmed, At
  <2> QED BY <1>2, <1>6, <2>1 DEF Confirmed, SameWork, At, HandlerBacked, RowBacked
<1>7. CASE Drafted(r)
  BY <1>1, <1>2, <1>7 DEF Drafted, SameAssignment, RowBacked
<1>8. CASE Withdrawn(c, r)
  <2>1. HandlerBacked(call[c], request[r], assignment[r], membership, certificates, log)
    BY <1>8 DEF BackedInv, HandlersBacked, Withdrawn, At
  <2> QED BY <1>1, <1>2, <1>8, <2>1 DEF Withdrawn, SameAssignment, At, HandlerBacked, RowBacked
<1> QED BY <1>3, <1>4, <1>5, <1>6, <1>7, <1>8 DEF RowStep

\* What the rows of a request never take back.
LEMMA WorkStable ==
    ASSUME BackedInv, [AppNext]_vars, NEW r \in Requests
    PROVE  /\ request[r].status # "NONE" =>
                  /\ request'[r].status # "NONE"
                  /\ request'[r].institution = request[r].institution
           /\ request[r].hash # ZeroHash => request'[r].hash = request[r].hash
           /\ assignment[r].status # "NONE" =>
                  /\ assignment'[r].status # "NONE"
                  /\ assignment'[r].hash = assignment[r].hash
                  /\ assignment'[r].issuer = assignment[r].issuer
<1>1. AppTypeOK /\ (request[r].status \in {"NONE", "PENDING"} => request[r].hash = ZeroHash)
  BY DEF BackedInv, ReservedInv, RowsCoherent
<1>2. CASE request'[r] = request[r] /\ assignment'[r] = assignment[r]
  BY <1>2
<1>3. ASSUME NEW c \in Calls, RowStep(c, r)
      PROVE  /\ request[r].status # "NONE" =>
                    /\ request'[r].status # "NONE"
                    /\ request'[r].institution = request[r].institution
             /\ request[r].hash # ZeroHash => request'[r].hash = request[r].hash
             /\ assignment[r].status # "NONE" =>
                    /\ assignment'[r].status # "NONE"
                    /\ assignment'[r].hash = assignment[r].hash
                    /\ assignment'[r].issuer = assignment[r].issuer
  BY <1>1, <1>3 DEF RowStep, Created, Rejected, Reserved, Confirmed, Drafted, Withdrawn,
     SameWork, SameAssignment
<1>4. ASSUME NEW c \in Calls, NEW q \in Requests, RowStep(c, q), q # r
      PROVE  request'[r] = request[r] /\ assignment'[r] = assignment[r]
  BY <1>4 DEF RowStep
<1> QED BY <1>1, <1>2, <1>3, <1>4, RowSteps

\* A handler's evidence stays good while it waits.
LEMMA HandlerStable ==
    ASSUME BackedInv, [AppNext]_vars, NEW c \in Calls, NEW r \in Requests,
           HandlerBacked(call[c], request[r], assignment[r], membership, certificates, log)
    PROVE  HandlerBacked(call[c], request'[r], assignment'[r], membership', certificates', log')
<1>1. /\ ChainTypeOK /\ [ChainNext]_chainVars
      /\ assignment[r].hash \in Hashes \cup {ZeroHash} /\ request[r].hash \in Hashes \cup {ZeroHash}
  BY AppTypeInductive, RowFields DEF BackedInv, ReservedInv, AppTypeOK
<1>2. /\ request[r].status # "NONE" =>
             /\ request'[r].status # "NONE"
             /\ request'[r].institution = request[r].institution
      /\ request[r].hash # ZeroHash => request'[r].hash = request[r].hash
      /\ assignment[r].status # "NONE" =>
             /\ assignment'[r].status # "NONE"
             /\ assignment'[r].hash = assignment[r].hash
             /\ assignment'[r].issuer = assignment[r].issuer
  BY WorkStable
<1>3. request[r].status # "NONE" =>
          membership'[request[r].institution] = membership[request[r].institution]
  BY MembershipStable DEF BackedInv, SelfInv, NoSelfIssuance, Connected
<1>4. \A a, t, at :
          /\ IssuedIn(certificates, log, request[r].hash, a, t, at) =>
                 IssuedIn(certificates', log', request[r].hash, a, t, at)
          /\ RevokedIn(certificates, log, assignment[r].hash, a, t, at) =>
                 RevokedIn(certificates', log', assignment[r].hash, a, t, at)
  BY <1>1, EvidenceStable
<1> QED BY <1>2, <1>3, <1>4 DEF HandlerBacked

\* A validated confirmation has just read its evidence.
LEMMA AskedBacked ==
    ASSUME BackedInv, NEW c \in Calls, Asked(c), call'[c].step \in {"issued", "revoked"}
    PROVE  HandlerBacked(call'[c], request[call'[c].request], assignment[call'[c].request],
                         membership, certificates, log)
<1>1. ASSUME NEW r \in Requests, NEW t \in DOMAIN log, ValidateIssuance(c, r, t),
             call'[c].step = "issued", call'[c].request = r, call'[c].transaction = t,
             call'[c].sender = call[c].sender,
             call'[c].at = certificates[request[r].hash].issuedAt
      PROVE  HandlerBacked(call'[c], request[r], assignment[r], membership, certificates, log)
  <2>1. r \in listIssuerRequests(call[c].sender)
    BY <1>1 DEF ValidateIssuance
  <2>2. request[r].status # "NONE" /\ membership[request[r].institution] = call[c].sender
    BY <2>1 DEF listIssuerRequests, mayHandle
  <2>3. /\ request[r].hash # ZeroHash
        /\ hasEvent("CertificateIssued", request[r].hash, call[c].sender, t)
        /\ hasState(request[r].hash, call[c].sender, "ACTIVE")
    BY <1>1 DEF ValidateIssuance
  <2>4. IssuedIn(certificates, log, request[r].hash, call[c].sender, t,
                 certificates[request[r].hash].issuedAt)
    BY <2>3 DEF hasEvent, hasState, IssuedIn, SignedIn
  <2> QED BY <1>1, <2>2, <2>3, <2>4 DEF HandlerBacked
<1>2. ASSUME NEW r \in Requests, NEW t \in DOMAIN log, ValidateRevocation(c, r, t),
             call'[c].step = "revoked", call'[c].request = r, call'[c].transaction = t,
             call'[c].sender = call[c].sender,
             call'[c].at = certificates[assignment[r].hash].revokedAt
      PROVE  HandlerBacked(call'[c], request[r], assignment[r], membership, certificates, log)
  <2>1. /\ assignment[r].status # "NONE" /\ assignment[r].issuer = call[c].sender
        /\ hasEvent("CertificateRevoked", assignment[r].hash, call[c].sender, t)
        /\ hasState(assignment[r].hash, call[c].sender, "REVOKED")
    BY <1>2 DEF ValidateRevocation, getIssuerCertificate, isOriginalIssuer
  <2>2. RevokedIn(certificates, log, assignment[r].hash, call[c].sender, t,
                  certificates[assignment[r].hash].revokedAt)
    BY <2>1 DEF hasEvent, hasState, RevokedIn, SignedIn
  <2> QED BY <1>2, <2>1, <2>2 DEF HandlerBacked
<1> QED BY <1>1, <1>2 DEF Asked

LEMMA BackedInductive ==
    ASSUME BackedInv, [AppNext]_vars
    PROVE  BackedInv'
<1>1. ReservedInv' /\ SelfInv' /\ AppTypeOK'
  BY ReservedInductive, SelfInductive DEF BackedInv, SelfInv
<1>2. RowsBacked'
  <2>1. ASSUME NEW r \in Requests
        PROVE  RowBacked(assignment'[r], request'[r], membership', certificates', log')
    <3>1. CASE request'[r] = request[r] /\ assignment'[r] = assignment[r]
      BY <3>1, BackedElsewhere
    <3>2. ASSUME NEW c \in Calls, NEW q \in Requests, RowStep(c, q)
          PROVE  RowBacked(assignment'[r], request'[r], membership', certificates', log')
      <4>1. CASE q = r
        BY <3>2, <4>1, BackedRow
      <4>2. CASE q # r
        BY <3>1, <3>2, <4>2 DEF RowStep
      <4> QED BY <4>1, <4>2
    <3> QED BY <3>1, <3>2, RowSteps DEF BackedInv, ReservedInv
  <2> QED BY <2>1 DEF RowsBacked
<1>3. HandlersBacked'
  <2>1. ASSUME NEW c \in Calls, call'[c].step \in {"issued", "revoked"}
        PROVE  HandlerBacked(call'[c], request'[call'[c].request], assignment'[call'[c].request],
                             membership', certificates', log')
    <3>1. PICK r \in Requests : r = call'[c].request
      BY <1>1, <2>1 DEF AppTypeOK, HandlerOK
    <3>2. CASE call'[c] = call[c]
      <4>1. HandlerBacked(call[c], request[r], assignment[r], membership, certificates, log)
        BY <2>1, <3>1, <3>2 DEF BackedInv, HandlersBacked
      <4> QED BY <3>1, <3>2, <4>1, HandlerStable
    <3>3. CASE Asked(c) /\ UNCHANGED <<chainVars, dbVars, drafts>>
      BY <2>1, <3>3, AskedBacked DEF chainVars, dbVars
    <3> QED BY <2>1, <3>2, <3>3, HandlerCases DEF BackedInv, ReservedInv
  <2> QED BY <2>1 DEF HandlersBacked
<1> QED BY <1>1, <1>2, <1>3 DEF BackedInv

LEMMA BackedInitial == AppInit => BackedInv
<1> SUFFICES ASSUME AppInit PROVE BackedInv
  OBVIOUS
<1>1. \A r \in Requests : request[r].status = "NONE" /\ assignment[r].status = "NONE"
  BY DEF AppInit, BlankRequest, BlankAssignment
<1>2. RowsBacked
  BY <1>1 DEF RowsBacked, RowBacked
<1>3. HandlersBacked
  BY DEF AppInit, Idle, HandlersBacked
<1> QED BY <1>2, <1>3, ReservedInitial, SelfInitial DEF BackedInv

\* Every row the database shows as issued or revoked points to the registry's own event,
\* signed by the wallet of the row's institution, whatever happened between the check of
\* the chain and the write.
THEOREM DatabaseIsBacked == AppSpec => []AssignmentsBacked
<1>1. RowsBacked => AssignmentsBacked
  BY DEF RowsBacked, RowBacked, IssuedIn, RevokedIn, SignedIn, AssignmentsBacked, Evidence
<1>2. BackedInv => RowsBacked
  BY DEF BackedInv
<1> QED BY <1>1, <1>2, BackedInitial, BackedInductive, PTL DEF AppSpec

-----------------------------------------------------------------------------
(* The backend implements the workflow of atomic steps. *)

registryView ==
    [h \in Hashes |-> [status |-> certificates[h].status, issuer |-> certificates[h].issuer]]

workOf(r) == [status |-> workStatus(r), hash |-> request[r].hash,
              citizen |-> request[r].citizen, issuer |-> workIssuer(r)]

workView == [r \in Requests |-> [status |-> workStatus(r), hash |-> request[r].hash,
                                 citizen |-> request[r].citizen, issuer |-> workIssuer(r)]]

\* A request never made has no citizen.
Uncalled == \A r \in Requests : request[r].status = "NONE" => request[r].citizen = ZeroAddress

ViewInv == BackedInv /\ RegistryInv /\ Uncalled

LEMMA UncalledInductive ==
    ASSUME AppTypeOK, Uncalled, [AppNext]_vars
    PROVE  Uncalled'
<1>1. ASSUME NEW c \in Calls, NEW r \in Requests, RowStep(c, r)
      PROVE  Uncalled'
  <2>1. request'[r].status # "NONE" \/ request'[r] = request[r]
    BY <1>1 DEF RowStep, Created, Rejected, Reserved, Confirmed, Drafted, Withdrawn
  <2> QED BY <1>1, <2>1 DEF RowStep, Uncalled
<1>2. CASE UNCHANGED <<request, assignment, attempts>>
  BY <1>2 DEF Uncalled
<1> QED BY <1>1, <1>2, RowSteps

LEMMA ViewInductive ==
    ASSUME ViewInv, [AppNext]_vars
    PROVE  ViewInv'
<1>1. [ChainNext]_chainVars
  BY AppTypeInductive DEF ViewInv, BackedInv, ReservedInv
<1> QED BY <1>1, BackedInductive, RegistryInductive, UncalledInductive
        DEF ViewInv, BackedInv, ReservedInv

LEMMA ViewInitial == AppInit => ViewInv
<1>1. AppInit => ChainInit /\ Uncalled
  BY DEF AppInit, Uncalled, BlankRequest
<1> QED BY <1>1, BackedInitial, RegistryInitial DEF ViewInv

\* The wallet a request is addressed to never changes.
LEMMA IssuerStable ==
    ASSUME BackedInv, [AppNext]_vars, NEW r \in Requests,
           (request'[r].status = "NONE") <=> (request[r].status = "NONE"),
           request[r].status # "NONE" => request'[r].institution = request[r].institution
    PROVE  workIssuer(r)' = workIssuer(r)
<1>1. request[r].status # "NONE" => /\ request[r].institution \in Institutions
                                    /\ membership[request[r].institution] # ZeroAddress
  BY DEF BackedInv, SelfInv, Connected, NoSelfIssuance
<1>2. \A i \in Institutions : membership[i] # ZeroAddress => membership'[i] = membership[i]
  BY MembershipStable DEF BackedInv, SelfInv
<1> QED BY <1>1, <1>2 DEF workIssuer

LEMMA WorkElsewhere ==
    ASSUME BackedInv, [AppNext]_vars, NEW r \in Requests,
           request'[r] = request[r], assignment'[r] = assignment[r]
    PROVE  workOf(r)' = workOf(r)
<1>1. workIssuer(r)' = workIssuer(r)
  BY IssuerStable
<1> QED BY <1>1 DEF workOf, workStatus

\* A transaction, a new block or none.
LEMMA RegistryViewStep ==
    ASSUME RegistryInv, [ChainNext]_chainVars
    PROVE  \/ UNCHANGED registryView
           \/ \E h \in Hashes : \/ \E a \in Accounts :
                                       /\ registryView[h] = Workflow!Unissued
                                       /\ registryView' = [registryView EXCEPT ![h] =
                                              [status |-> "ACTIVE", issuer |-> a]]
                                \/ /\ registryView[h].status = "ACTIVE"
                                   /\ registryView' = [registryView EXCEPT ![h].status = "REVOKED"]
<1> USE DEF RegistryInv, ChainTypeOK
<1>1. ASSUME NEW sender \in Accounts, NEW hash \in Hashes \cup {ZeroHash},
             issueCertificate(sender, hash)
      PROVE  /\ hash \in Hashes /\ registryView[hash] = Workflow!Unissued
             /\ registryView' = [registryView EXCEPT ![hash] =
                    [status |-> "ACTIVE", issuer |-> sender]]
  <2>1. hash \in Hashes
    BY <1>1 DEF issueCertificate
  <2>2. certificates[hash] = NoCertificate
    BY <1>1, <2>1 DEF issueCertificate, isUnknown, RegistryMatchesLog
  <2>3. registryView[hash] = Workflow!Unissued
    BY <2>1, <2>2 DEF registryView, NoCertificate, Workflow!Unissued
  <2>4. registryView' = [registryView EXCEPT ![hash] = [status |-> "ACTIVE", issuer |-> sender]]
    BY <1>1, <2>1 DEF issueCertificate, registryView
  <2> QED BY <2>1, <2>3, <2>4
<1>2. ASSUME NEW sender \in Accounts, NEW hash \in Hashes \cup {ZeroHash},
             revokeCertificate(sender, hash)
      PROVE  /\ hash \in Hashes /\ registryView[hash].status = "ACTIVE"
             /\ registryView' = [registryView EXCEPT ![hash].status = "REVOKED"]
  <2>1. hash \in Hashes
    BY <1>2 DEF revokeCertificate, isRevocable, PastAndZero
  <2>2. registryView[hash].status = "ACTIVE"
    BY <1>2, <2>1 DEF revokeCertificate, isRevocable, registryView
  <2>3. registryView' = [registryView EXCEPT ![hash].status = "REVOKED"]
    BY <1>2, <2>1 DEF revokeCertificate, registryView, Certificate
  <2> QED BY <2>1, <2>2, <2>3
<1>3. ASSUME NEW sender \in Accounts, NEW issuer \in Accounts \cup {ZeroAddress},
             authorizeIssuer(sender, issuer) \/ removeIssuer(sender, issuer)
      PROVE  UNCHANGED registryView
  BY <1>3 DEF authorizeIssuer, removeIssuer, registryView
<1>4. NextBlock \/ UNCHANGED chainVars => UNCHANGED registryView
  BY DEF NextBlock, chainVars, registryView
<1> QED BY <1>1, <1>2, <1>3, <1>4 DEF ChainNext, Transact

LEMMA WorkRow ==
    ASSUME NEW r \in Requests, NEW x, \A q \in Requests \ {r} : workOf(q)' = workOf(q),
           workOf(r)' = x
    PROVE  /\ workView[r] = workOf(r)
           /\ workView' = [workView EXCEPT ![r] = x]
BY DEF workView, workOf

\* The work that a row step shows.
LEMMA WorkStep ==
    ASSUME ViewInv, [AppNext]_vars, NEW c \in Calls, NEW r \in Requests, RowStep(c, r)
    PROVE  UNCHANGED registryView /\ [Workflow!Next]_workView
<1> USE DEF ViewInv
<1>1. UNCHANGED <<certificates, membership>> /\ UNCHANGED registryView
  BY DEF RowStep, chainVars, registryView
<1>2. \A q \in Requests \ {r} : workOf(q)' = workOf(q)
  BY WorkElsewhere DEF RowStep
<1>3. /\ RowBacked(assignment[r], request[r], membership, certificates, log)
      /\ RowBacked(assignment'[r], request'[r], membership, certificates', log')
      /\ request[r].status \in {"NONE", "PENDING"} => request[r].hash = ZeroHash
      /\ request[r].status = "NONE" => request[r].citizen = ZeroAddress
      /\ request[r].hash \in Hashes \cup {ZeroHash}
  <2>1. BackedInv'
    BY BackedInductive
  <2>2. RowBacked(assignment'[r], request'[r], membership', certificates', log')
    BY <2>1 DEF BackedInv, RowsBacked
  <2> QED BY <1>1, <2>2, RowFields DEF BackedInv, RowsBacked, ReservedInv, RowsCoherent, Uncalled
<1>4. request[r].status # "NONE" /\ request'[r].status # "NONE" =>
          /\ request'[r].citizen = request[r].citizen
          /\ request'[r].institution = request[r].institution
          /\ workIssuer(r)' = workIssuer(r)
  BY IssuerStable, RequestSteps DEF BackedInv, ReservedInv
<1>5. CASE Created(r)
  <2>1. assignment[r].status = "NONE" /\ assignment'[r].status = "NONE"
    BY <1>3, <1>5 DEF Created, RowBacked
  <2>2. workOf(r) = Workflow!Blank
    BY <1>3, <1>5, <2>1 DEF Created, workOf, workStatus, workIssuer, Workflow!Blank
  <2>3. /\ request'[r].citizen \in Accounts
        /\ membership[request'[r].institution] \in Accounts \ {request'[r].citizen}
    <3>1. /\ request'[r].citizen \in Accounts /\ request'[r].institution \in Institutions
          /\ relationship[<<request'[r].citizen, request'[r].institution>>] # "NONE"
      BY <1>5, RequestSteps DEF Created, BackedInv, ReservedInv
    <3>2. membership[request'[r].institution] \notin {request'[r].citizen, ZeroAddress}
      BY <3>1 DEF BackedInv, SelfInv, Connected
    <3>3. membership[request'[r].institution] \in Wallet
      BY <3>1 DEF BackedInv, SelfInv, AppTypeOK
    <3> QED BY <3>1, <3>2, <3>3 DEF Wallet
  <2> PICK citizen \in Accounts, issuer \in Accounts :
          citizen # issuer /\ citizen = request'[r].citizen
          /\ issuer = membership[request'[r].institution]
    BY <2>3
  <2>4. workOf(r)' = [status |-> "PENDING", hash |-> ZeroHash, citizen |-> citizen, issuer |-> issuer]
    BY <1>1, <1>5, <2>1 DEF Created, workOf, workStatus, workIssuer
  <2>5. Workflow!Submit(r, citizen, issuer)
    BY <1>1, <1>2, <2>2, <2>4, WorkRow DEF Workflow!Submit, workView, registryView
  <2> QED BY <1>1, <2>5 DEF Workflow!Next
<1>6. CASE Rejected(r)
  <2>1. assignment[r].status = "NONE" /\ assignment'[r].status = "NONE"
    BY <1>3, <1>6 DEF Rejected, RowBacked
  <2>2. workOf(r).status = "PENDING" /\ workOf(r)' = [workOf(r) EXCEPT !.status = "REJECTED"]
    BY <1>4, <1>6, <2>1 DEF Rejected, SameWork, workOf, workStatus
  <2>3. Workflow!Reject(r)
    BY <1>1, <1>2, <2>2, WorkRow DEF Workflow!Reject, workView, registryView, workOf
  <2> QED BY <1>1, <2>3 DEF Workflow!Next
<1>7. CASE Reserved(c, r)
  <2>1. assignment[r].status = "NONE" /\ assignment'[r].status = "NONE"
    BY <1>3, <1>7 DEF Reserved, RowBacked
  <2> PICK h \in Hashes : h = call[c].hash
    BY <1>7 DEF Reserved
  <2>2. /\ workOf(r).status = "PENDING"
        /\ workOf(r)' = [[workOf(r) EXCEPT !.status = "PROCESSING"] EXCEPT !.hash = h]
    <3>1. /\ workOf(r)' = [status |-> "PROCESSING", hash |-> h, citizen |-> request[r].citizen,
                            issuer |-> workIssuer(r)]
          /\ workOf(r) = [status |-> "PENDING", hash |-> request[r].hash,
                           citizen |-> request[r].citizen, issuer |-> workIssuer(r)]
      BY <1>4, <1>7, <2>1 DEF Reserved, workOf, workStatus
    <3>2. [[workOf(r) EXCEPT !.status = "PROCESSING"] EXCEPT !.hash = h] =
              [status |-> "PROCESSING", hash |-> h, citizen |-> request[r].citizen,
               issuer |-> workIssuer(r)]
      <4> PICK w : w = workOf(r)
        OBVIOUS
      <4> PICK b, d : b = request[r].citizen /\ d = workIssuer(r)
        OBVIOUS
      <4>1. w = [status |-> "PENDING", hash |-> request[r].hash, citizen |-> b, issuer |-> d]
        BY <3>1
      <4> DEFINE v == [w EXCEPT !.status = "PROCESSING"]
      <4>2. v = [status |-> "PROCESSING", hash |-> request[r].hash, citizen |-> b, issuer |-> d]
        BY <4>1
      <4>3. ASSUME NEW u, u = v
            PROVE  [u EXCEPT !.hash = h] =
                       [status |-> "PROCESSING", hash |-> h, citizen |-> b, issuer |-> d]
        <5>1. u = [status |-> "PROCESSING", hash |-> request[r].hash, citizen |-> b, issuer |-> d]
          BY <4>2, <4>3
        <5> HIDE DEF v
        <5> QED BY ONLY <5>1
      <4>4. [v EXCEPT !.hash = h] =
                [status |-> "PROCESSING", hash |-> h, citizen |-> b, issuer |-> d]
        <5> HIDE DEF v
        <5> QED BY <4>3
      <4> QED BY <4>4
    <3>3. workOf(r).status = "PENDING"
      BY <3>1
    <3> QED BY <3>1, <3>2, <3>3
  <2>3. \A q \in Requests : workOf(q).hash # h
    BY <1>3, <1>7, ZeroAssumption DEF Reserved, isUnreserved, workOf
  <2>4. Workflow!Reserve(r, h)
    BY <1>1, <1>2, <2>2, <2>3, WorkRow DEF Workflow!Reserve, workView, registryView, workOf
  <2> QED BY <1>1, <2>4 DEF Workflow!Next
<1>8. CASE Confirmed(c, r)
  <2>1. assignment[r].status = "NONE" /\ assignment'[r].status = "ACTIVE"
    BY <1>8 DEF Confirmed
  <2>2. workOf(r).status = "PROCESSING" /\ workOf(r)' = [workOf(r) EXCEPT !.status = "ISSUED"]
    BY <1>4, <1>8, <2>1 DEF Confirmed, SameWork, workOf, workStatus
  <2>3. HandlerBacked(call[c], request[r], assignment[r], membership, certificates, log)
    BY <1>8 DEF BackedInv, HandlersBacked, Confirmed, At
  <2>4. /\ workOf(r).hash \in Hashes
        /\ registryView[workOf(r).hash].status # "NOT_FOUND"
        /\ registryView[workOf(r).hash].issuer = workOf(r).issuer
    BY <1>3, <1>8, <2>3 DEF Confirmed, At, HandlerBacked, IssuedIn, workOf, workIssuer, registryView
  <2>5. Workflow!Confirm(r)
    BY <1>1, <1>2, <2>2, <2>4, WorkRow DEF Workflow!Confirm, workView, registryView, workOf
  <2> QED BY <1>1, <2>5 DEF Workflow!Next
<1>9. CASE Drafted(r)
  <2>1. workOf(r)' = workOf(r)
    BY <1>1, <1>9 DEF Drafted, workOf, workStatus, workIssuer
  <2> QED BY <1>1, <1>2, <2>1 DEF workView, workOf
<1>10. CASE Withdrawn(c, r)
  <2>1. request[r].status = "ISSUED" /\ assignment[r].hash = request[r].hash
    BY <1>3, <1>10 DEF Withdrawn, RowBacked
  <2>2. workOf(r).status = "ISSUED" /\ workOf(r)' = [workOf(r) EXCEPT !.status = "REVOKED"]
    BY <1>1, <1>10, <2>1 DEF Withdrawn, workOf, workStatus, workIssuer
  <2>3. HandlerBacked(call[c], request[r], assignment[r], membership, certificates, log)
    BY <1>10 DEF BackedInv, HandlersBacked, Withdrawn, At
  <2>4. certificates[request[r].hash].status = "REVOKED"
    BY <1>10, <2>1, <2>3 DEF Withdrawn, At, HandlerBacked, RevokedIn
  <2>5. request[r].hash \in Hashes
    BY <1>3, <2>4 DEF RegistryInv, PastAndZero
  <2>6. registryView[workOf(r).hash].status = "REVOKED"
    BY <2>4, <2>5 DEF workOf, registryView
  <2>7. Workflow!Withdraw(r)
    BY <1>1, <1>2, <2>2, <2>6, WorkRow DEF Workflow!Withdraw, workView, registryView, workOf
  <2> QED BY <1>1, <2>7 DEF Workflow!Next
<1> QED BY <1>5, <1>6, <1>7, <1>8, <1>9, <1>10 DEF RowStep

LEMMA WorkflowStep ==
    ASSUME ViewInv, [AppNext]_vars
    PROVE  [Workflow!Next]_<<registryView, workView>>
<1> USE DEF ViewInv
<1>1. ASSUME NEW c \in Calls, NEW r \in Requests, RowStep(c, r)
      PROVE  [Workflow!Next]_<<registryView, workView>>
  BY <1>1, WorkStep
<1>2. CASE UNCHANGED <<request, assignment, attempts>>
  <2>1. workView' = workView
    <3>1. \A r \in Requests : workOf(r)' = workOf(r)
      BY <1>2, WorkElsewhere
    <3> QED BY <3>1 DEF workView, workOf
  <2>2. [ChainNext]_chainVars
    BY AppTypeInductive DEF BackedInv, ReservedInv
  <2>3. CASE UNCHANGED registryView
    BY <2>1, <2>3
  <2>4. ASSUME NEW h \in Hashes, NEW a \in Accounts, registryView[h] = Workflow!Unissued,
               registryView' = [registryView EXCEPT ![h] = [status |-> "ACTIVE", issuer |-> a]]
        PROVE  Workflow!Next
    <3>1. Workflow!Issue(h)
      BY <2>1, <2>4 DEF Workflow!Issue, registryView, workView
    <3> QED BY <3>1 DEF Workflow!Next
  <2>5. ASSUME NEW h \in Hashes, registryView[h].status = "ACTIVE",
               registryView' = [registryView EXCEPT ![h].status = "REVOKED"]
        PROVE  Workflow!Next
    <3>1. Workflow!Revoke(h)
      BY <2>1, <2>5 DEF Workflow!Revoke, registryView, workView
    <3> QED BY <3>1 DEF Workflow!Next
  <2> QED BY <2>2, <2>3, <2>4, <2>5, RegistryViewStep
<1> QED BY <1>1, <1>2, RowSteps DEF BackedInv, ReservedInv

LEMMA WorkflowInitial == AppInit => Workflow!Init
<1> SUFFICES ASSUME AppInit PROVE Workflow!Init
  OBVIOUS
<1>1. \A r \in Requests : /\ workStatus(r) = "NONE" /\ request[r].hash = ZeroHash
                          /\ request[r].citizen = ZeroAddress /\ workIssuer(r) = ZeroAddress
  BY DEF AppInit, workStatus, workIssuer, BlankRequest, BlankAssignment
<1>2. \A h \in Hashes : certificates[h] = NoCertificate
  BY DEF AppInit, ChainInit
<1> QED BY <1>1, <1>2 DEF Workflow!Init, Workflow!Blank, Workflow!Unissued, NoCertificate

\* Cut at their awaits, overlapped and interrupted by restarts, the handlers still behave
\* as the atomic steps of IssuanceWorkflow: no stale answer of the chain is ever written.
THEOREM BackendImplementsWorkflow == AppSpec => RefinesWorkflow
<1>1. ViewInv /\ [AppNext]_vars => [Workflow!Next]_<<registryView, workView>>
  BY WorkflowStep
<1>2. ViewInv /\ [AppNext]_vars => ViewInv'
  BY ViewInductive
<1> QED BY <1>1, <1>2, ViewInitial, WorkflowInitial, PTL
        DEF AppSpec, RefinesWorkflow, Workflow!Spec, registryView, workView

-----------------------------------------------------------------------------
(* What was mined can be recorded. *)

\* A row without a certificate takes no place in a UNIQUE column, and a reservation has
\* its hash and its attempt.
Filled ==
    /\ \A r \in Requests : assignment[r].status = "NONE" =>
           assignment[r].hash = ZeroHash /\ assignment[r].transaction = NULL
    /\ \A r \in Requests : assignment[r].status # "REVOKED" =>
           assignment[r].revocationTransaction = NULL
    /\ \A r \in Requests : request[r].status = "PROCESSING" =>
           request[r].hash # ZeroHash /\ request[r].attempt # NULL

RecordInv == ViewInv /\ Filled

LEMMA FilledInductive ==
    ASSUME AppTypeOK, Filled, [AppNext]_vars
    PROVE  Filled'
<1>1. ASSUME NEW c \in Calls, NEW r \in Requests, RowStep(c, r)
      PROVE  Filled'
  <2>1. \A q \in Requests \ {r} : request'[q] = request[q] /\ assignment'[q] = assignment[q]
    BY <1>1 DEF RowStep
  <2>2. assignment'[r].status = "NONE" =>
            assignment'[r].hash = ZeroHash /\ assignment'[r].transaction = NULL
    BY <1>1 DEF RowStep, Created, Rejected, Reserved, Confirmed, Drafted, Withdrawn,
       SameAssignment, Filled
  <2>3. assignment'[r].status # "REVOKED" => assignment'[r].revocationTransaction = NULL
    BY <1>1 DEF RowStep, Created, Rejected, Reserved, Confirmed, Drafted, Withdrawn, Filled
  <2>4. request'[r].status = "PROCESSING" =>
            request'[r].hash # ZeroHash /\ request'[r].attempt # NULL
    <3>1. attempts \in Nat
      BY DEF AppTypeOK
    <3> QED BY <1>1, <3>1, ZeroAssumption DEF RowStep, Created, Rejected, Reserved, Confirmed,
               Drafted, Withdrawn, Filled, NULL
  <2> QED BY <2>1, <2>2, <2>3, <2>4 DEF Filled
<1>2. CASE UNCHANGED <<request, assignment, attempts>>
  BY <1>2 DEF Filled
<1> QED BY <1>1, <1>2, RowSteps

LEMMA FilledInitial == AppInit => Filled
BY DEF AppInit, Filled, BlankRequest, BlankAssignment

\* The evidence of two requests is about two hashes.
LEMMA EvidenceApart ==
    ASSUME RecordInv, NEW r \in Requests, NEW q \in Requests, q # r,
           request[r].hash # ZeroHash
    PROVE  /\ assignment[q].hash # request[r].hash
           /\ assignment[q].transaction \in DOMAIN log =>
                  log[assignment[q].transaction].hash # request[r].hash
           /\ assignment[q].revocationTransaction \in DOMAIN log =>
                  log[assignment[q].revocationTransaction].hash # request[r].hash
<1>1. NULL \notin DOMAIN log
  <2>1. log \in Seq(Event)
    BY DEF RecordInv, ViewInv, RegistryInv, ChainTypeOK
  <2> QED BY <2>1 DEF NULL
<1>2. request[q].hash # request[r].hash
  BY DEF RecordInv, ViewInv, BackedInv, ReservedInv, OneRequestPerHash
<1>3. RowBacked(assignment[q], request[q], membership, certificates, log)
  BY DEF RecordInv, ViewInv, BackedInv, RowsBacked
<1>4. CASE assignment[q].status = "NONE"
  BY <1>1, <1>4 DEF RecordInv, Filled
<1>5. CASE assignment[q].status # "NONE"
  <2>1. /\ assignment[q].hash = request[q].hash
        /\ log[assignment[q].transaction].hash = assignment[q].hash
    BY <1>3, <1>5 DEF RowBacked, IssuedIn, SignedIn
  <2>2. CASE assignment[q].status = "REVOKED"
    BY <1>2, <1>3, <2>1, <2>2 DEF RowBacked, RevokedIn, SignedIn
  <2>3. CASE assignment[q].status # "REVOKED"
    BY <1>1, <1>2, <2>1, <2>3 DEF RecordInv, Filled
  <2> QED BY <2>2, <2>3
<1> QED BY <1>4, <1>5

\* A standing certificate of the request's institution was issued by a transaction that
\* nobody else's row points to.
LEMMA IssuanceRecordable ==
    ASSUME RecordInv, NEW r \in Requests, request[r].status = "PROCESSING", NEW a,
           hasState(request[r].hash, a, "ACTIVE")
    PROVE  /\ request[r].hash # ZeroHash /\ request[r].attempt # NULL
           /\ mined("CertificateIssued", request[r].hash, a) # {}
           /\ \A q \in Requests :
                  /\ assignment[q].hash # request[r].hash
                  /\ assignment[q].transaction \notin
                         mined("CertificateIssued", request[r].hash, a)
<1> PICK h : h = request[r].hash
  OBVIOUS
<1>1. h # ZeroHash /\ request[r].attempt # NULL
  BY DEF RecordInv, Filled
<1>2. h \in Hashes
  BY <1>1, RowFields DEF RecordInv, ViewInv, BackedInv, ReservedInv
<1>3. mined("CertificateIssued", h, a) # {}
  <2>1. certificates[h].status = "ACTIVE" /\ certificates[h].issuer = a
    BY DEF hasState
  <2>2. PICK t \in Events("CertificateIssued", h) :
            log[t].issuer = a /\ log[t].by = a
    BY <1>2, <2>1 DEF RecordInv, ViewInv, RegistryInv, RegistryMatchesLog
  <2> QED BY <2>2 DEF Events, mined, hasEvent
<1>4. ASSUME NEW q \in Requests
      PROVE  /\ assignment[q].hash # h
             /\ assignment[q].transaction \notin mined("CertificateIssued", h, a)
  <2>1. CASE q = r
    <3>1. RowBacked(assignment[r], request[r], membership, certificates, log)
      BY DEF RecordInv, ViewInv, BackedInv, RowsBacked
    <3>2. assignment[r].hash = ZeroHash /\ assignment[r].transaction = NULL
      BY <3>1 DEF RowBacked, RecordInv, Filled
    <3>3. NULL \notin DOMAIN log
      <4>1. log \in Seq(Event)
        BY DEF RecordInv, ViewInv, RegistryInv, ChainTypeOK
      <4> QED BY <4>1 DEF NULL
    <3> QED BY <1>1, <2>1, <3>2, <3>3 DEF mined
  <2>2. CASE q # r
    BY <1>1, <2>2, EvidenceApart DEF mined, hasEvent
  <2> QED BY <2>1, <2>2
<1> QED BY <1>1, <1>3, <1>4

\* A revocation signed by the institution's wallet is the registry's, and nobody else's
\* row points to it.
LEMMA RevocationRecordable ==
    ASSUME RecordInv, NEW r \in Requests, assignment[r].status = "ACTIVE",
           mined("CertificateRevoked", assignment[r].hash, assignment[r].issuer) # {}
    PROVE  /\ hasState(assignment[r].hash, assignment[r].issuer, "REVOKED")
           /\ \A q \in Requests : assignment[q].revocationTransaction \notin
                  mined("CertificateRevoked", assignment[r].hash, assignment[r].issuer)
<1> PICK h, a : h = assignment[r].hash /\ a = assignment[r].issuer
  OBVIOUS
<1>1. h = request[r].hash
  BY DEF RecordInv, ViewInv, BackedInv, RowsBacked, RowBacked
<1>2. PICK t \in Events("CertificateRevoked", h) : log[t].issuer = a
  BY DEF mined, hasEvent, Events
<1>3. h # ZeroHash /\ h \in Hashes
  <2>1. h # ZeroHash
    BY <1>2 DEF RecordInv, ViewInv, RegistryInv, PastAndZero
  <2> QED BY <2>1, RowFields DEF RecordInv, ViewInv, BackedInv, ReservedInv
<1>4. hasState(h, a, "REVOKED")
  BY <1>2, <1>3 DEF RecordInv, ViewInv, RegistryInv, RegistryMatchesLog, hasState
<1>5. ASSUME NEW q \in Requests
      PROVE  assignment[q].revocationTransaction \notin mined("CertificateRevoked", h, a)
  <2>1. CASE q = r
    <3>1. assignment[r].revocationTransaction = NULL
      BY DEF RecordInv, Filled
    <3>2. NULL \notin DOMAIN log
      <4>1. log \in Seq(Event)
        BY DEF RecordInv, ViewInv, RegistryInv, ChainTypeOK
      <4> QED BY <4>1 DEF NULL
    <3> QED BY <2>1, <3>1, <3>2 DEF mined
  <2>2. CASE q # r
    BY <1>1, <1>3, <2>2, EvidenceApart DEF mined, hasEvent
  <2> QED BY <2>1, <2>2
<1> QED BY <1>4, <1>5

\* No confirmation of what the institution's wallet did on the chain is ever refused
\* because of what the private tables hold for another request.
THEOREM MinedStaysRecordable == AppSpec => []MinedIsRecordable
<1>1. RecordInv => MinedIsRecordable
  BY IssuanceRecordable, RevocationRecordable DEF MinedIsRecordable
<1>2. RecordInv /\ [AppNext]_vars => RecordInv'
  BY ViewInductive, FilledInductive DEF RecordInv, ViewInv, BackedInv, ReservedInv
<1>3. AppInit => RecordInv
  BY ViewInitial, FilledInitial DEF RecordInv
<1> QED BY <1>1, <1>2, <1>3, PTL DEF AppSpec
=============================================================================
