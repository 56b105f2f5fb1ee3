---------------------------- MODULE AppWorkflow ----------------------------
(***************************************************************************)
(* The application backend (app-backend/src) together with the contract it *)
(* watches and the wallets that sign transactions.  better-sqlite3 is      *)
(* synchronous, so a database method is one atomic step; a route handler   *)
(* is cut wherever it awaits the chain, and between the two halves any     *)
(* other call, transaction, crash or closed page may come in.  A request's *)
(* arguments are inputs: each is chosen at the step that first reads it.   *)
(***************************************************************************)
EXTENDS PramaanChain

CONSTANTS
    Institutions,   \* institution ids (and their public ids, one to one)
    Requests,       \* certificate-request ids
    NoInstitution,
    NoRequest,
    Calls,          \* HTTP requests the server can have in flight
    MaxAttempts     \* bound on the attempt ids (UUIDs) handed out

ASSUME NoRowAssumption == NoInstitution \notin Institutions /\ NoRequest \notin Requests
ASSUME MaxAttemptsAssumption == MaxAttempts \in Nat

VARIABLES
    membership,    \* table issuer_memberships: the wallet of each institution
    relationship,  \* table citizen_relationships, by (wallet, institution)
    request,       \* table certificate_requests
    assignment,    \* table certificates, by request id (UNIQUE request_id)
    attempts,      \* how many attempt ids randomUUID has produced
    drafts,        \* the revocation attempts that open pages hold in memory
    call           \* the handlers in flight

dbVars == <<membership, relationship, request, assignment, attempts>>
appVars == <<dbVars, drafts, call>>
vars == <<chainVars, appVars>>

Wallet == Accounts \cup {ZeroAddress}
Institution == Institutions \cup {NoInstitution}
NULL == 0

BlankRequest ==
    [citizen |-> ZeroAddress, institution |-> NoInstitution, status |-> "NONE",
     hash |-> ZeroHash, attempt |-> NULL, transaction |-> NULL]

BlankAssignment ==
    [status |-> "NONE", hash |-> ZeroHash, issuer |-> ZeroAddress, issuedAt |-> 0,
     transaction |-> NULL, revocationAttempt |-> NULL, revocationTransaction |-> NULL,
     revokedAt |-> 0]

Idle == [step |-> "idle", sender |-> ZeroAddress, member |-> FALSE, citizen |-> FALSE,
         authorized |-> FALSE, wallet |-> ZeroAddress, institution |-> NoInstitution,
         request |-> NoRequest, hash |-> ZeroHash,
         transaction |-> NULL, at |-> 0]

AppInit ==
    /\ ChainInit
    /\ membership = [i \in Institutions |-> ZeroAddress]
    /\ relationship = [p \in Accounts \X Institutions |-> "NONE"]
    /\ request = [r \in Requests |-> BlankRequest]
    /\ assignment = [r \in Requests |-> BlankAssignment]
    /\ attempts = 0
    /\ drafts = {}
    /\ call = [c \in Calls |-> Idle]

-----------------------------------------------------------------------------
(* Database lookups. *)

isMember(a) == \E i \in Institutions : membership[i] = a
isCitizen(a) == \E i \in Institutions : relationship[<<a, i>>] = "ACTIVE"

\* getIssuerMemberships, and the "WHERE id = ? AND institution_id = ?" of a row.
mayHandle(a, r) ==
    /\ request[r].status # "NONE"
    /\ membership[request[r].institution] = a

listIssuerRequests(a) == {r \in Requests : mayHandle(a, r)}

getIssuerCertificate(a, r) == mayHandle(a, r) /\ assignment[r].status # "NONE"

deactivated(wallets) ==
    [p \in Accounts \X Institutions |->
        IF p[1] \in wallets /\ relationship[p] = "ACTIVE" THEN "INACTIVE" ELSE relationship[p]]

-----------------------------------------------------------------------------
(* Defective variants that the properties must tell from the code. *)

NothingDeactivated(wallets) == relationship
UnreservedAlways(h, r) == TRUE
AnyEvent(name, h, a, t) == t \in DOMAIN log /\ log[t].name = name /\ log[t].hash = h
CitizenAlways(a) == TRUE
RejectableWhileProcessing(r) == request[r].status \in {"PENDING", "PROCESSING"}
CannotRead == {}
Cancelled(row) == [row EXCEPT !.status = "CANCELLED"]

-----------------------------------------------------------------------------
(* The checks of the routes and of the database methods. *)

hasAdminRole(c) == call[c].sender \in admins
hasIssuerRole(c) == call[c].member /\ call[c].authorized
hasCitizenRole(c) == ~hasIssuerRole(c) /\ call[c].citizen

mayBecomeCitizen(a) == ~isMember(a)
deactivateCitizen(wallets) == deactivated(wallets)
isUnreserved(h, r) == \A q \in Requests \ {r} : request[q].hash # h
isRejectable(r) == request[r].status = "PENDING"
rejected(row) == [row EXCEPT !.status = "REJECTED"]
readableAttempts == {request[q].attempt : q \in Requests}

hasEvent(name, h, a, t) ==
    /\ t \in DOMAIN log
    /\ log[t].name = name
    /\ log[t].hash = h
    /\ log[t].by = a
    /\ log[t].issuer = a

hasState(h, a, status) == certificates[h].status = status /\ certificates[h].issuer = a

-----------------------------------------------------------------------------
(* Every handler: session, authorization, response. *)

At(c, step) == call[c].step = step
Await(c, state) == call' = [call EXCEPT ![c] = state]
Respond(c) == call' = [call EXCEPT ![c] = Idle]

\* requireSession, then the database half of deriveAuthorization.
Begin(c, a) ==
    /\ At(c, "idle")
    /\ Await(c, [Idle EXCEPT !.step = "authorizing", !.sender = a,
                             !.member = isMember(a), !.citizen = isCitizen(a)])
    /\ UNCHANGED <<chainVars, dbVars, drafts>>

\* The chain half: isAuthorizedIssuer is only asked for a member.
DeriveAuthorization(c) ==
    /\ At(c, "authorizing")
    /\ Await(c, [call[c] EXCEPT !.step = "authorized",
                    !.authorized = call[c].member /\ isAuthorizedIssuer(call[c].sender)])
    /\ UNCHANGED <<chainVars, dbVars, drafts>>

\* A refused check, a failed RPC or a conflict: the handler answers with an error
\* before it has written anything.
Refuse(c) ==
    /\ ~At(c, "idle")
    /\ Respond(c)
    /\ UNCHANGED <<chainVars, dbVars, drafts>>

\* POST /api/admin/institutions
CheckIssuerWallet(c, a) ==
    /\ At(c, "authorized")
    /\ hasAdminRole(c)
    /\ isAuthorizedIssuer(a)
    /\ Await(c, [call[c] EXCEPT !.step = "registering", !.wallet = a])
    /\ UNCHANGED <<chainVars, dbVars, drafts>>

createInstitution(c, i) ==
    LET a == call[c].wallet IN
    /\ At(c, "registering")
    /\ membership[i] = ZeroAddress
    /\ ~isMember(a)
    /\ membership' = [membership EXCEPT ![i] = a]
    /\ relationship' = deactivateCitizen({a})
    /\ Respond(c)
    /\ UNCHANGED <<chainVars, request, assignment, attempts, drafts>>

\* POST /api/citizen/institutions/connect
CheckSelf(c) ==
    /\ At(c, "authorized")
    /\ ~isAuthorizedIssuer(call[c].sender)
    /\ Await(c, [call[c] EXCEPT !.step = "connecting"])
    /\ UNCHANGED <<chainVars, dbVars, drafts>>

\* getInstitutionByPublicId and the check on its issuer: a registered institution
\* never changes, so the two reads are one.
CheckInstitution(c, i) ==
    /\ At(c, "connecting")
    /\ membership[i] # ZeroAddress
    /\ isAuthorizedIssuer(membership[i])
    /\ Await(c, [call[c] EXCEPT !.step = "connectable", !.institution = i])
    /\ UNCHANGED <<chainVars, dbVars, drafts>>

connectCitizen(c) ==
    LET a == call[c].sender IN
    /\ At(c, "connectable")
    /\ mayBecomeCitizen(a)
    /\ relationship' = [relationship EXCEPT ![<<a, call[c].institution>>] = "ACTIVE"]
    /\ Respond(c)
    /\ UNCHANGED <<chainVars, membership, request, assignment, attempts, drafts>>

\* POST /api/citizen/requests
createRequest(c, r, i) ==
    LET a == call[c].sender IN
    /\ At(c, "authorized")
    /\ hasCitizenRole(c)
    /\ relationship[<<a, i>>] = "ACTIVE"
    /\ request[r].status = "NONE"
    /\ request' = [request EXCEPT ![r] =
           [BlankRequest EXCEPT !.citizen = a, !.institution = i, !.status = "PENDING"]]
    /\ Respond(c)
    /\ UNCHANGED <<chainVars, membership, relationship, assignment, attempts, drafts>>

-----------------------------------------------------------------------------
(* Issuance: reject, prepare, confirm. *)

rejectRequest(c, r) ==
    /\ At(c, "authorized")
    /\ hasIssuerRole(c)
    /\ mayHandle(call[c].sender, r)
    /\ isRejectable(r)
    /\ request' = [request EXCEPT ![r] = rejected(request[r])]
    /\ Respond(c)
    /\ UNCHANGED <<chainVars, membership, relationship, assignment, attempts, drafts>>

CheckUnissued(c, h) ==
    /\ At(c, "authorized")
    /\ hasIssuerRole(c)
    /\ isUnknown(h)
    /\ Await(c, [call[c] EXCEPT !.step = "unissued", !.hash = h])
    /\ UNCHANGED <<chainVars, dbVars, drafts>>

prepareIssuance(c, r) ==
    LET h == call[c].hash IN
    /\ At(c, "unissued")
    /\ mayHandle(call[c].sender, r)
    /\ \/ /\ request[r].status = "PENDING"
          /\ isUnreserved(h, r)
          /\ attempts < MaxAttempts
          /\ attempts' = attempts + 1
          /\ request' = [request EXCEPT ![r] =
                 [@ EXCEPT !.status = "PROCESSING", !.hash = h, !.attempt = attempts + 1]]
       \/ /\ request[r].status = "PROCESSING"  \* resumed
          /\ request[r].hash = h
          /\ UNCHANGED <<request, attempts>>
    /\ Respond(c)
    /\ UNCHANGED <<chainVars, membership, relationship, assignment, drafts>>

\* listIssuerRequests and validateIssuance.  The request's hash, once set, and a
\* mined receipt never change, so the reads are one, at the time of the last.
ValidateIssuance(c, r, t) ==
    LET h == request[r].hash  a == call[c].sender IN
    /\ At(c, "authorized")
    /\ hasIssuerRole(c)
    /\ r \in listIssuerRequests(a)
    /\ h # ZeroHash
    /\ hasEvent("CertificateIssued", h, a, t)
    /\ hasState(h, a, "ACTIVE")
    /\ Await(c, [call[c] EXCEPT !.step = "issued", !.request = r, !.transaction = t,
                                !.at = certificates[h].issuedAt])
    /\ UNCHANGED <<chainVars, dbVars, drafts>>

confirmIssuance(c, attempt) ==
    LET r == call[c].request  row == request[r] IN
    /\ At(c, "issued")
    /\ \/ /\ row.status = "ISSUED"  \* a repeated confirmation
          /\ row.transaction = call[c].transaction
          /\ UNCHANGED <<request, assignment>>
       \/ /\ row.status = "PROCESSING"
          /\ row.attempt = attempt
          /\ assignment[r].status = "NONE"
          /\ \A q \in Requests : assignment[q].hash # row.hash
                              /\ assignment[q].transaction # call[c].transaction
          /\ assignment' = [assignment EXCEPT ![r] =
                 [BlankAssignment EXCEPT !.status = "ACTIVE", !.hash = row.hash,
                      !.issuer = call[c].sender, !.issuedAt = call[c].at,
                      !.transaction = call[c].transaction]]
          /\ request' = [request EXCEPT ![r] =
                 [@ EXCEPT !.status = "ISSUED", !.transaction = call[c].transaction]]
    /\ Respond(c)
    /\ UNCHANGED <<chainVars, membership, relationship, attempts, drafts>>

-----------------------------------------------------------------------------
(* Revocation: prepare, confirm. *)

isOriginalIssuer(a, r) == assignment[r].issuer = a

CheckRevocable(c, r) ==
    LET a == call[c].sender IN
    /\ At(c, "authorized")
    /\ hasIssuerRole(c)
    /\ getIssuerCertificate(a, r)
    /\ isOriginalIssuer(a, r)
    /\ hasState(assignment[r].hash, a, "ACTIVE")
    /\ Await(c, [call[c] EXCEPT !.step = "revocable", !.request = r])
    /\ UNCHANGED <<chainVars, dbVars, drafts>>

\* The attempt is told to the page that asked, and to no other.
prepareRevocation(c) ==
    LET r == call[c].request  known == assignment[r].revocationAttempt IN
    /\ At(c, "revocable")
    /\ assignment[r].status = "ACTIVE"
    /\ \/ /\ known # NULL
          /\ drafts' = drafts \cup {known}
          /\ UNCHANGED <<assignment, attempts>>
       \/ /\ known = NULL
          /\ attempts < MaxAttempts
          /\ attempts' = attempts + 1
          /\ assignment' = [assignment EXCEPT ![r] =
                 [@ EXCEPT !.revocationAttempt = attempts + 1]]
          /\ drafts' = drafts \cup {attempts + 1}
    /\ Respond(c)
    /\ UNCHANGED <<chainVars, membership, relationship, request>>

ValidateRevocation(c, r, t) ==
    LET h == assignment[r].hash  a == call[c].sender IN
    /\ At(c, "authorized")
    /\ hasIssuerRole(c)
    /\ getIssuerCertificate(a, r)
    /\ isOriginalIssuer(a, r)
    /\ hasEvent("CertificateRevoked", h, a, t)
    /\ hasState(h, a, "REVOKED")
    /\ Await(c, [call[c] EXCEPT !.step = "revoked", !.request = r, !.transaction = t,
                                !.at = certificates[h].revokedAt])
    /\ UNCHANGED <<chainVars, dbVars, drafts>>

confirmRevocation(c, attempt) ==
    LET r == call[c].request  row == assignment[r] IN
    /\ At(c, "revoked")
    /\ \/ /\ row.status = "REVOKED"  \* a repeated confirmation
          /\ row.revocationTransaction = call[c].transaction
          /\ UNCHANGED assignment
       \/ /\ row.status = "ACTIVE"
          /\ row.revocationAttempt # NULL
          /\ row.revocationAttempt = attempt
          /\ \A q \in Requests : assignment[q].revocationTransaction # call[c].transaction
          /\ assignment' = [assignment EXCEPT ![r] =
                 [@ EXCEPT !.status = "REVOKED", !.revokedAt = call[c].at,
                           !.revocationTransaction = call[c].transaction]]
    /\ Respond(c)
    /\ UNCHANGED <<chainVars, membership, relationship, request, attempts, drafts>>

-----------------------------------------------------------------------------
(* The environment. *)

\* A wallet signs whatever the contract accepts, through the pages or past them.
Chain == ChainNext /\ UNCHANGED appVars

\* The process stops with its handlers; the AppDatabase constructor of the next
\* one deactivates the citizen relationships of member wallets.
Restart ==
    /\ call' = [c \in Calls |-> Idle]
    /\ relationship' = deactivated({a \in Accounts : isMember(a)})
    /\ UNCHANGED <<chainVars, membership, request, assignment, attempts, drafts>>

\* A page is closed, reloaded, or ends its revoke handler with an error.
ClosePage ==
    /\ drafts' = {}
    /\ UNCHANGED <<chainVars, dbVars, call>>

Serve(c) ==
    \/ \E a \in Accounts : Begin(c, a) \/ CheckIssuerWallet(c, a)
    \/ DeriveAuthorization(c)
    \/ Refuse(c)
    \/ \E i \in Institutions : createInstitution(c, i) \/ CheckInstitution(c, i)
    \/ CheckSelf(c)
    \/ connectCitizen(c)
    \/ \E r \in Requests, i \in Institutions : createRequest(c, r, i)
    \/ \E r \in Requests : rejectRequest(c, r) \/ prepareIssuance(c, r) \/ CheckRevocable(c, r)
    \/ \E h \in Hashes : CheckUnissued(c, h)
    \/ \E r \in Requests, t \in DOMAIN log :
           ValidateIssuance(c, r, t) \/ ValidateRevocation(c, r, t)
    \/ \E attempt \in readableAttempts : confirmIssuance(c, attempt)
    \/ prepareRevocation(c)
    \/ \E attempt \in drafts : confirmRevocation(c, attempt)

AppNext == Chain \/ Restart \/ ClosePage \/ \E c \in Calls : Serve(c)

AppSpec == AppInit /\ [][AppNext]_vars

-----------------------------------------------------------------------------

Steps == {"idle", "authorizing", "authorized", "registering", "connecting", "connectable",
          "unissued", "issued", "revocable", "revoked"}

RequestRow == [citizen : Wallet, institution : Institution,
               status : {"NONE", "PENDING", "PROCESSING", "ISSUED", "REJECTED"},
               hash : Hashes \cup {ZeroHash}, attempt : Nat, transaction : Nat]

AssignmentRow == [status : {"NONE", "ACTIVE", "REVOKED"}, hash : Hashes \cup {ZeroHash},
                  issuer : Wallet, issuedAt : Nat, transaction : Nat, revocationAttempt : Nat,
                  revocationTransaction : Nat, revokedAt : Nat]

Handler == [step : Steps, sender : Wallet, member : BOOLEAN, citizen : BOOLEAN,
            authorized : BOOLEAN, wallet : Wallet, institution : Institution,
            request : Requests \cup {NoRequest}, hash : Hashes \cup {ZeroHash},
            transaction : Nat, at : Nat]

\* A handler holds the arguments that the rest of its route works with.
HandlerOK(state) ==
    /\ state.step # "idle" => state.sender \in Accounts
    /\ state.step = "registering" => state.wallet \in Accounts
    /\ state.step = "connectable" => state.institution \in Institutions
    /\ state.step = "unissued" => state.hash \in Hashes
    /\ state.step \in {"issued", "revocable", "revoked"} => state.request \in Requests

\* The type of the private database, of the handlers in flight and of the registry.
AppTypeOK ==
    /\ ChainTypeOK
    /\ membership \in [Institutions -> Wallet]
    /\ relationship \in [Accounts \X Institutions -> {"NONE", "ACTIVE", "INACTIVE"}]
    /\ request \in [Requests -> RequestRow]
    /\ assignment \in [Requests -> AssignmentRow]
    /\ attempts \in Nat
    /\ drafts \in SUBSET Nat
    /\ call \in [Calls -> Handler]
    /\ \A c \in Calls : HandlerOK(call[c])

\* "Issuer and citizen roles are mutually exclusive": a wallet that registration
\* made an issuer holds no active citizen relationship, even when the wallet's own
\* connect call and the administrator's registration overlap.
RolesExclusive == \A a \in Accounts : ~(isMember(a) /\ isCitizen(a))

\* Nobody issues a certificate to himself: a request is never addressed to an
\* institution whose wallet is the citizen's.
NoSelfIssuance ==
    \A r \in Requests : request[r].status # "NONE"
        => membership[request[r].institution] \notin {request[r].citizen, ZeroAddress}

\* A hash is reserved by one request at a time, and no transaction or attempt is
\* evidence for two requests.
OneRequestPerHash ==
    \A q, r \in Requests : q # r =>
        /\ request[q].hash # ZeroHash => request[q].hash # request[r].hash
        /\ request[q].attempt # NULL => request[q].attempt # request[r].attempt
        /\ request[q].transaction # NULL => request[q].transaction # request[r].transaction

Evidence(name, row, t) ==
    /\ t \in DOMAIN log
    /\ log[t].name = name /\ log[t].hash = row.hash
    /\ log[t].issuer = row.issuer /\ log[t].by = row.issuer

\* What the private database records as issued or revoked, the registry has: every
\* row points to an event of its own hash, signed by the institution's wallet, and
\* repeats the registry's issuer and dates.  (The converse fails: the registry may
\* be ahead.)
AssignmentsBacked ==
    \A r \in Requests : LET row == assignment[r]  c == certificates[row.hash] IN
        /\ row.status = "NONE" <=> request[r].status # "ISSUED"
        /\ row.status # "NONE" =>
               /\ row.hash = request[r].hash /\ row.transaction = request[r].transaction
               /\ row.issuer = membership[request[r].institution]
               /\ Evidence("CertificateIssued", row, row.transaction)
               /\ c.issuer = row.issuer /\ c.issuedAt = row.issuedAt
        /\ row.status = "REVOKED" =>
               /\ c.status = "REVOKED" /\ c.revokedAt = row.revokedAt
               /\ Evidence("CertificateRevoked", row, row.revocationTransaction)

\* The wallet a request is addressed to.
workIssuer(r) ==
    IF request[r].status = "NONE" THEN ZeroAddress ELSE membership[request[r].institution]

\* The transactions with which a wallet did something to a hash.
mined(name, h, a) == {t \in DOMAIN log : hasEvent(name, h, a, t)}

\* What the institution's wallet has issued (and the certificate stands), or revoked, on
\* the chain for a request of its own can still be recorded: the confirmation's checks
\* of the chain pass, the reservation holds a hash and an attempt id, and no UNIQUE
\* column of the table of certificates is taken by another request, whatever was
\* confirmed before.
MinedIsRecordable ==
    \A r \in Requests :
        /\ LET h == request[r].hash  a == workIssuer(r)
               transactions == mined("CertificateIssued", h, a)
           IN  request[r].status = "PROCESSING" /\ hasState(h, a, "ACTIVE") =>
                   /\ h # ZeroHash /\ request[r].attempt # NULL /\ transactions # {}
                   /\ \A q \in Requests : /\ assignment[q].hash # h
                                          /\ assignment[q].transaction \notin transactions
        /\ LET h == assignment[r].hash  a == assignment[r].issuer
               transactions == mined("CertificateRevoked", h, a)
           IN  assignment[r].status = "ACTIVE" /\ transactions # {} =>
                   /\ hasState(h, a, "REVOKED")
                   /\ \A q \in Requests : assignment[q].revocationTransaction \notin transactions

\* Cut at their awaits and interleaved, the handlers still behave as the atomic
\* steps of IssuanceWorkflow: no stale answer of the chain is ever written.
workStatus(r) == IF assignment[r].status = "REVOKED" THEN "REVOKED" ELSE request[r].status

Workflow == INSTANCE IssuanceWorkflow WITH
    Wallets <- Accounts,
    noHash <- ZeroHash,
    noWallet <- ZeroAddress,
    registry <- [h \in Hashes |-> [status |-> certificates[h].status,
                                   issuer |-> certificates[h].issuer]],
    work <- [r \in Requests |-> [status |-> workStatus(r), hash |-> request[r].hash,
                                 citizen |-> request[r].citizen, issuer |-> workIssuer(r)]]

RefinesWorkflow == Workflow!Spec
=============================================================================
