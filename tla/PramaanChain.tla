---------------------------- MODULE PramaanChain ----------------------------
(***************************************************************************)
(* The registry contract, contracts/PramaanChain.sol.  A transaction that  *)
(* reverts leaves no trace in the contract's storage and no event, so an   *)
(* action stands for a transaction that succeeds; its guards are the       *)
(* checks that would have reverted it.  `log' is the sequence of domain    *)
(* events the contract has emitted: a successful transaction emits exactly *)
(* one, so its position in the log also identifies the transaction.        *)
(***************************************************************************)
EXTENDS Integers, Sequences

CONSTANTS
    Accounts,     \* the addresses that sign transactions
    Deployer,     \* the address that deployed the contract
    ZeroAddress,  \* address(0)
    Hashes,       \* the SHA-256 digests of documents, bytes32(0) excluded
    ZeroHash,     \* bytes32(0)
    MaxTime,      \* bound on the block timestamp
    MaxEvents     \* bound on the number of successful transactions

ASSUME DeployerAssumption == Deployer \in Accounts
ASSUME ZeroAssumption == ZeroAddress \notin Accounts /\ ZeroHash \notin Hashes
ASSUME BoundsAssumption == MaxTime \in Nat \ {0} /\ MaxEvents \in Nat

VARIABLES
    admins,        \* the members of ADMIN_ROLE
    issuers,       \* the members of ISSUER_ROLE
    certificates,  \* the mapping _certificates
    now,           \* block.timestamp of the block being built
    log            \* the domain events emitted so far

chainVars == <<admins, issuers, certificates, now, log>>

CertificateStatus == {"NOT_FOUND", "ACTIVE", "REVOKED"}

\* What a Solidity mapping returns for a key never written.
NoCertificate ==
    [issuer |-> ZeroAddress, issuedAt |-> 0, revokedAt |-> 0, status |-> "NOT_FOUND"]

Certificate == [issuer : Accounts \cup {ZeroAddress}, issuedAt : Nat,
                revokedAt : Nat, status : CertificateStatus]

Event == [name : {"IssuerAuthorized", "IssuerRemoved",
                  "CertificateIssued", "CertificateRevoked"},
          issuer : Accounts \cup {ZeroAddress}, by : Accounts,
          hash : Hashes \cup {ZeroHash}, at : Nat]

RoleEvent(name, issuer, administrator) ==
    [name |-> name, issuer |-> issuer, by |-> administrator, hash |-> ZeroHash, at |-> now]

CertificateEvent(name, hash, issuer, sender) ==
    [name |-> name, issuer |-> issuer, by |-> sender, hash |-> hash, at |-> now]

emit(event) == log' = Append(log, event)

-----------------------------------------------------------------------------
\* Defective variants of the definitions below, which the properties must tell
\* from the contract: a check dropped or weakened, an event with the wrong account.
AnyAddress(issuer) == TRUE
RoleHolder(account) == account \in issuers \cup admins
NoRemovalCheck(issuer) == TRUE
ReissuableWhenRevoked(hash) == certificates[hash].status # "ACTIVE"
RevocableWhenUnknown(hash) == certificates[hash].status # "REVOKED"
AnyIssuerMayRevoke(sender, hash) == sender \in issuers \cup admins
RevokedWithSenderAsIssuer(hash, sender) ==
    CertificateEvent("CertificateRevoked", hash, sender, sender)
-----------------------------------------------------------------------------

isAddress(issuer) == issuer # ZeroAddress
isAuthorizedIssuer(account) == account \in issuers
mayRemove(issuer) == isAuthorizedIssuer(issuer)
isUnknown(hash) == certificates[hash].status = "NOT_FOUND"
isRevocable(hash) == certificates[hash].status = "ACTIVE"
mayRevoke(sender, hash) == sender = certificates[hash].issuer \/ sender \in admins
RevokedEvent(hash, sender) ==
    CertificateEvent("CertificateRevoked", hash, certificates[hash].issuer, sender)

ChainInit ==
    /\ admins = {Deployer}
    /\ issuers = {}
    /\ certificates = [h \in Hashes \cup {ZeroHash} |-> NoCertificate]
    /\ now = 1
    /\ log = <<>>

authorizeIssuer(sender, issuer) ==
    /\ sender \in admins
    /\ isAddress(issuer)
    /\ issuer \notin issuers
    /\ issuers' = issuers \cup {issuer}
    /\ emit(RoleEvent("IssuerAuthorized", issuer, sender))
    /\ UNCHANGED <<admins, certificates, now>>

removeIssuer(sender, issuer) ==
    /\ sender \in admins
    /\ isAddress(issuer)
    /\ mayRemove(issuer)
    /\ issuers' = issuers \ {issuer}
    /\ emit(RoleEvent("IssuerRemoved", issuer, sender))
    /\ UNCHANGED <<admins, certificates, now>>

issueCertificate(sender, hash) ==
    /\ isAuthorizedIssuer(sender)
    /\ hash # ZeroHash
    /\ isUnknown(hash)
    /\ certificates' = [certificates EXCEPT ![hash] =
           [issuer |-> sender, issuedAt |-> now, revokedAt |-> 0, status |-> "ACTIVE"]]
    /\ emit(CertificateEvent("CertificateIssued", hash, sender, sender))
    /\ UNCHANGED <<admins, issuers, now>>

revokeCertificate(sender, hash) ==
    /\ isRevocable(hash)
    /\ mayRevoke(sender, hash)
    /\ certificates' = [certificates EXCEPT ![hash].revokedAt = now,
                                            ![hash].status = "REVOKED"]
    /\ emit(RevokedEvent(hash, sender))
    /\ UNCHANGED <<admins, issuers, now>>

\* Time passes between blocks; transactions of one block share a timestamp.
NextBlock ==
    /\ now < MaxTime
    /\ now' = now + 1
    /\ UNCHANGED <<admins, issuers, certificates, log>>

Transact(sender) ==
    /\ Len(log) < MaxEvents
    /\ \/ \E issuer \in Accounts \cup {ZeroAddress} :
              authorizeIssuer(sender, issuer) \/ removeIssuer(sender, issuer)
       \/ \E hash \in Hashes \cup {ZeroHash} :
              issueCertificate(sender, hash) \/ revokeCertificate(sender, hash)

ChainNext == NextBlock \/ \E sender \in Accounts : Transact(sender)

ChainSpec == ChainInit /\ [][ChainNext]_chainVars

-----------------------------------------------------------------------------

\* The type of the contract's storage and of its event log.
ChainTypeOK ==
    /\ admins \in SUBSET Accounts
    /\ issuers \in SUBSET Accounts
    /\ certificates \in [Hashes \cup {ZeroHash} -> Certificate]
    /\ now \in Nat \ {0}
    /\ log \in Seq(Event)

Events(name, hash) == {i \in DOMAIN log : log[i].name = name /\ log[i].hash = hash}

\* What an observer who only reads the events knows about a hash is what
\* getCertificate answers: the gateway's index is built on this agreement of
\* storage and log.
RegistryMatchesLog ==
    \A h \in Hashes :
        LET c == certificates[h] IN
        /\ c.status = "NOT_FOUND" => Events("CertificateIssued", h) = {} /\ c = NoCertificate
        /\ \A i \in Events("CertificateIssued", h) :
               c.issuer = log[i].issuer /\ c.issuer = log[i].by /\ c.issuedAt = log[i].at
        /\ \A j \in Events("CertificateRevoked", h) :
               c.status = "REVOKED" /\ c.revokedAt = log[j].at /\ c.issuer = log[j].issuer
        /\ c.status # "NOT_FOUND" => Events("CertificateIssued", h) # {}
        /\ c.status = "REVOKED" => Events("CertificateRevoked", h) # {}

\* "A document hash can be issued only once, even after revocation", and it is
\* revoked at most once, after its issuance and at a time no earlier.
IssuedOnceRevokedOnceAfter ==
    \A h \in Hashes \cup {ZeroHash} :
        /\ \A i, j \in Events("CertificateIssued", h) : i = j
        /\ \A i, j \in Events("CertificateRevoked", h) : i = j
        /\ \A j \in Events("CertificateRevoked", h) :
               \E i \in Events("CertificateIssued", h) : i < j /\ log[i].at <= log[j].at

AuthorizedAt(account, i) ==
    \E a \in 1 .. (i - 1) :
        /\ log[a].name = "IssuerAuthorized" /\ log[a].issuer = account
        /\ \A r \in a .. (i - 1) : ~(log[r].name = "IssuerRemoved" /\ log[r].issuer = account)

\* The members of ISSUER_ROLE are the accounts whose last role event is an
\* authorization, and the administrator alone signs role events: no other path
\* (grantRole, revokeRole, renounceRole) changes the role.
RoleMatchesLog ==
    /\ \A a \in Accounts : a \in issuers <=> AuthorizedAt(a, Len(log) + 1)
    /\ \A i \in DOMAIN log :
           log[i].name \in {"IssuerAuthorized", "IssuerRemoved"}
               => /\ log[i].by = Deployer
                  /\ log[i].name = "IssuerRemoved" <=> AuthorizedAt(log[i].issuer, i)

\* "Only a currently authorized issuer can issue": every issuance in the history
\* was signed by an account authorized at that point of the history, and a later
\* removal does not undo it.
IssuedUnderAuthority ==
    \A i \in DOMAIN log :
        log[i].name = "CertificateIssued" => AuthorizedAt(log[i].by, i)

\* "Only the original issuer or an administrator can revoke".
RevokedByIssuerOrAdmin ==
    \A h \in Hashes : \A j \in Events("CertificateRevoked", h) :
        log[j].by \in {certificates[h].issuer, Deployer}

\* Every certificate goes NOT_FOUND -> ACTIVE -> REVOKED and nowhere else, with an
\* issuer and a date of issue that nothing edits.
Lifecycle == INSTANCE CertificateLifecycle WITH
    Issuers <- Accounts,
    record <- [h \in Hashes |-> [status |-> certificates[h].status,
                                 issuer |-> certificates[h].issuer,
                                 issuedAt |-> certificates[h].issuedAt]],
    absent <- ZeroAddress

RefinesLifecycle == Lifecycle!Spec
=============================================================================
