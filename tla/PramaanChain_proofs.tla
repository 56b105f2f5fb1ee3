------------------------ MODULE PramaanChain_proofs ------------------------
(***************************************************************************)
(* Proofs about the contract, for every set of accounts and hashes and     *)
(* histories of every length.                                              *)
(***************************************************************************)
EXTENDS PramaanChain, TLAPS

\* A mapping's untouched entry and an emitted event are values of their types.
LEMMA BlankType == NoCertificate \in Certificate
BY DEF NoCertificate, Certificate, CertificateStatus

\* The type invariant is inductive: every transaction and every new block keeps it.
LEMMA ChainTypeInductive ==
    ASSUME ChainTypeOK, [ChainNext]_chainVars
    PROVE  ChainTypeOK'
<1> USE DeployerAssumption, ZeroAssumption, BoundsAssumption DEF ChainTypeOK
<1>1. ASSUME NEW sender \in Accounts, NEW issuer \in Accounts \cup {ZeroAddress},
             authorizeIssuer(sender, issuer)
      PROVE  ChainTypeOK'
  <2>1. RoleEvent("IssuerAuthorized", issuer, sender) \in Event
    BY DEF RoleEvent, Event
  <2> QED BY <1>1, <2>1 DEF authorizeIssuer, emit, isAddress
<1>2. ASSUME NEW sender \in Accounts, NEW issuer \in Accounts \cup {ZeroAddress},
             removeIssuer(sender, issuer)
      PROVE  ChainTypeOK'
  <2>1. RoleEvent("IssuerRemoved", issuer, sender) \in Event
    BY DEF RoleEvent, Event
  <2> QED BY <1>2, <2>1 DEF removeIssuer, emit
<1>3. ASSUME NEW sender \in Accounts, NEW hash \in Hashes \cup {ZeroHash},
             issueCertificate(sender, hash)
      PROVE  ChainTypeOK'
  <2>1. CertificateEvent("CertificateIssued", hash, sender, sender) \in Event
    BY DEF CertificateEvent, Event
  <2>2. [issuer |-> sender, issuedAt |-> now, revokedAt |-> 0, status |-> "ACTIVE"]
            \in Certificate
    BY DEF Certificate, CertificateStatus
  <2>3. certificates' \in [Hashes \cup {ZeroHash} -> Certificate]
    BY <1>3, <2>2 DEF issueCertificate
  <2> QED BY <1>3, <2>1, <2>3 DEF issueCertificate, emit
<1>4. ASSUME NEW sender \in Accounts, NEW hash \in Hashes \cup {ZeroHash},
             revokeCertificate(sender, hash)
      PROVE  ChainTypeOK'
  <2>1. RevokedEvent(hash, sender) \in Event
    BY DEF RevokedEvent, CertificateEvent, Event, Certificate
  <2>2. certificates' \in [Hashes \cup {ZeroHash} -> Certificate]
    BY <1>4 DEF revokeCertificate, Certificate, CertificateStatus
  <2> QED BY <1>4, <2>1, <2>2 DEF revokeCertificate, emit
<1>5. CASE NextBlock
  BY <1>5 DEF NextBlock
<1>6. CASE UNCHANGED chainVars
  BY <1>6 DEF chainVars
<1> QED BY <1>1, <1>2, <1>3, <1>4, <1>5, <1>6 DEF ChainNext, Transact

\* The contract's storage and event log always have their types; in particular the
\* zero address never holds ISSUER_ROLE.
THEOREM ChainTypeCorrect == ChainSpec => []ChainTypeOK
<1>1. ChainInit => ChainTypeOK
  BY DeployerAssumption, BlankType DEF ChainInit, ChainTypeOK
<1> QED BY <1>1, ChainTypeInductive, PTL DEF ChainSpec

-----------------------------------------------------------------------------
(* Agreement of the storage with the event log. *)

\* Emitting an event adds its position to its own kind and leaves the past alone.
LEMMA EventsAppend ==
    ASSUME log \in Seq(Event), NEW e \in Event, log' = Append(log, e)
    PROVE  /\ \A name, hash : e.name = name /\ e.hash = hash =>
                  Events(name, hash)' = Events(name, hash) \cup {Len(log) + 1}
           /\ \A name, hash : ~(e.name = name /\ e.hash = hash) =>
                  Events(name, hash)' = Events(name, hash)
           /\ \A i \in DOMAIN log : log'[i] = log[i] /\ i < Len(log) + 1
           /\ log'[Len(log) + 1] = e
           /\ DOMAIN log' = DOMAIN log \cup {Len(log) + 1}
<1>1. /\ \A i \in DOMAIN log : log'[i] = log[i] /\ i < Len(log) + 1
      /\ log'[Len(log) + 1] = e
      /\ DOMAIN log' = DOMAIN log \cup {Len(log) + 1}
  OBVIOUS
<1>2. \A name, hash : Events(name, hash)' =
          {i \in DOMAIN log' : log'[i].name = name /\ log'[i].hash = hash}
  BY DEF Events
<1> QED BY <1>1, <1>2 DEF Events

\* What the agreement needs besides itself: nobody issues the zero hash, and no event
\* comes from the future.
PastAndZero ==
    /\ certificates[ZeroHash].status = "NOT_FOUND"
    /\ Events("CertificateIssued", ZeroHash) = {}
    /\ Events("CertificateRevoked", ZeroHash) = {}
    /\ \A i \in DOMAIN log : log[i].at <= now

RegistryInv ==
    ChainTypeOK /\ PastAndZero /\ RegistryMatchesLog /\ IssuedOnceRevokedOnceAfter

\* A role event, and a new block, say nothing about any hash.
LEMMA RegistryKeptByOthers ==
    ASSUME RegistryInv, ChainTypeOK', certificates' = certificates,
           \/ UNCHANGED log /\ now' \in Nat /\ now' >= now
           \/ /\ UNCHANGED now
              /\ \E e \in Event : /\ log' = Append(log, e)
                                  /\ e.name \in {"IssuerAuthorized", "IssuerRemoved"}
                                  /\ e.at = now
    PROVE  RegistryInv'
<1> USE DEF RegistryInv, ChainTypeOK
<1>1. CASE UNCHANGED log /\ now' \in Nat /\ now' >= now
  <2>1. \A n, h : Events(n, h)' = Events(n, h)
    BY <1>1 DEF Events
  <2>2. \A i \in DOMAIN log : log[i].at \in Nat
    <3>1. \A i \in DOMAIN log : log[i] \in Event
      OBVIOUS
    <3> QED BY <3>1 DEF Event
  <2>3. PastAndZero'
    BY <1>1, <2>1, <2>2 DEF PastAndZero
  <2>4. RegistryMatchesLog'
    BY <1>1, <2>1 DEF RegistryMatchesLog
  <2>5. IssuedOnceRevokedOnceAfter'
    BY <1>1, <2>1 DEF IssuedOnceRevokedOnceAfter
  <2> QED BY <2>3, <2>4, <2>5
<1>2. ASSUME UNCHANGED now,
             NEW e \in Event, log' = Append(log, e),
             e.name \in {"IssuerAuthorized", "IssuerRemoved"}, e.at = now
      PROVE  RegistryInv'
  <2>1. \A h : /\ Events("CertificateIssued", h)' = Events("CertificateIssued", h)
               /\ Events("CertificateRevoked", h)' = Events("CertificateRevoked", h)
    BY <1>2, EventsAppend
  <2>2. /\ \A i \in DOMAIN log : log'[i] = log[i]
        /\ log'[Len(log) + 1] = e
        /\ DOMAIN log' = DOMAIN log \cup {Len(log) + 1}
    BY <1>2, EventsAppend
  <2>3. \A n, h : Events(n, h) \subseteq DOMAIN log
    BY DEF Events
  <2>4. PastAndZero'
    BY <1>2, <2>1, <2>2 DEF PastAndZero
  <2>5. RegistryMatchesLog'
    BY <2>1, <2>2, <2>3 DEF RegistryMatchesLog
  <2>6. IssuedOnceRevokedOnceAfter'
    BY <2>1, <2>2, <2>3 DEF IssuedOnceRevokedOnceAfter
  <2> QED BY <2>4, <2>5, <2>6
<1> QED BY <1>1, <1>2

\* An issuance meets a hash without history.
LEMMA RegistryKeptByIssue ==
    ASSUME RegistryInv, ChainTypeOK', NEW sender \in Accounts,
           NEW hash \in Hashes \cup {ZeroHash}, issueCertificate(sender, hash)
    PROVE  RegistryInv'
<1> DEFINE e == CertificateEvent("CertificateIssued", hash, sender, sender)
<1> DEFINE n == Len(log) + 1
<1> USE DEF RegistryInv, ChainTypeOK
<1>1. e \in Event /\ e.name = "CertificateIssued" /\ e.hash = hash /\ e.at = now
          /\ e.issuer = sender /\ e.by = sender
  BY DEF CertificateEvent, Event
<1>2. log' = Append(log, e) /\ UNCHANGED now /\ hash \in Hashes /\ hash # ZeroHash
  BY ZeroAssumption DEF issueCertificate, emit
<1>3. /\ certificates[hash].status = "NOT_FOUND"
      /\ certificates'[hash] = [issuer |-> sender, issuedAt |-> now, revokedAt |-> 0,
                                status |-> "ACTIVE"]
      /\ \A h \in (Hashes \cup {ZeroHash}) \ {hash} : certificates'[h] = certificates[h]
  BY DEF issueCertificate, isUnknown
<1> HIDE DEF e
<1>4. /\ \A i \in DOMAIN log : log'[i] = log[i] /\ i < n
      /\ log'[n] = e /\ DOMAIN log' = DOMAIN log \cup {n}
  BY <1>1, <1>2, EventsAppend
<1>5. /\ \A h : h # hash => Events("CertificateIssued", h)' = Events("CertificateIssued", h)
      /\ Events("CertificateIssued", hash)' = Events("CertificateIssued", hash) \cup {n}
      /\ \A h : Events("CertificateRevoked", h)' = Events("CertificateRevoked", h)
  BY <1>1, <1>2, EventsAppend
<1>6. \A m, h : Events(m, h) \subseteq DOMAIN log
  BY DEF Events
<1>7. Events("CertificateIssued", hash) = {} /\ Events("CertificateRevoked", hash) = {}
  BY <1>2, <1>3 DEF RegistryMatchesLog
<1>8. PastAndZero'
  <2>1. certificates'[ZeroHash] = certificates[ZeroHash]
    BY <1>2, <1>3
  <2> QED BY <1>1, <1>2, <1>4, <1>5, <2>1 DEF PastAndZero
<1>9. RegistryMatchesLog'
  <2> SUFFICES ASSUME NEW h \in Hashes
               PROVE  /\ certificates'[h].status = "NOT_FOUND"
                          => Events("CertificateIssued", h)' = {}
                               /\ certificates'[h] = NoCertificate
                      /\ \A i \in Events("CertificateIssued", h)' :
                             /\ certificates'[h].issuer = log'[i].issuer
                             /\ certificates'[h].issuer = log'[i].by
                             /\ certificates'[h].issuedAt = log'[i].at
                      /\ \A j \in Events("CertificateRevoked", h)' :
                             /\ certificates'[h].status = "REVOKED"
                             /\ certificates'[h].revokedAt = log'[j].at
                             /\ certificates'[h].issuer = log'[j].issuer
                      /\ certificates'[h].status # "NOT_FOUND"
                          => Events("CertificateIssued", h)' # {}
                      /\ certificates'[h].status = "REVOKED"
                          => Events("CertificateRevoked", h)' # {}
    BY DEF RegistryMatchesLog
  <2>1. CASE h = hash
    <3>1. Events("CertificateIssued", h)' = {n} /\ Events("CertificateRevoked", h)' = {}
      BY <1>5, <1>7, <2>1
    <3>2. /\ certificates'[h].status = "ACTIVE"
          /\ certificates'[h].issuer = sender /\ certificates'[h].issuedAt = now
      BY <1>3, <2>1
    <3> QED BY <1>1, <1>4, <3>1, <3>2
  <2>2. CASE h # hash
    BY <1>3, <1>4, <1>5, <1>6, <2>2 DEF RegistryMatchesLog
  <2> QED BY <2>1, <2>2
<1>10. IssuedOnceRevokedOnceAfter'
  BY <1>4, <1>5, <1>6, <1>7 DEF IssuedOnceRevokedOnceAfter
<1> QED BY <1>8, <1>9, <1>10

\* A revocation meets a hash issued once, no later, and never revoked.
LEMMA RegistryKeptByRevoke ==
    ASSUME RegistryInv, ChainTypeOK', NEW sender \in Accounts,
           NEW hash \in Hashes \cup {ZeroHash}, revokeCertificate(sender, hash)
    PROVE  RegistryInv'
<1> DEFINE e == RevokedEvent(hash, sender)
<1> DEFINE n == Len(log) + 1
<1> USE DEF RegistryInv, ChainTypeOK
<1>1. e \in Event /\ e.name = "CertificateRevoked" /\ e.hash = hash /\ e.at = now
          /\ e.issuer = certificates[hash].issuer
  BY DEF RevokedEvent, CertificateEvent, Event, Certificate
<1>2. log' = Append(log, e) /\ UNCHANGED now /\ hash \in Hashes /\ hash # ZeroHash
  BY ZeroAssumption DEF revokeCertificate, emit, isRevocable, PastAndZero
<1>3. /\ certificates[hash].status = "ACTIVE"
      /\ certificates'[hash].status = "REVOKED" /\ certificates'[hash].revokedAt = now
      /\ certificates'[hash].issuer = certificates[hash].issuer
      /\ certificates'[hash].issuedAt = certificates[hash].issuedAt
      /\ \A h \in (Hashes \cup {ZeroHash}) \ {hash} : certificates'[h] = certificates[h]
  BY DEF revokeCertificate, isRevocable, Certificate
<1> HIDE DEF e
<1>4. /\ \A i \in DOMAIN log : log'[i] = log[i] /\ i < n
      /\ log'[n] = e /\ DOMAIN log' = DOMAIN log \cup {n}
  BY <1>1, <1>2, EventsAppend
<1>5. /\ \A h : h # hash => Events("CertificateRevoked", h)' = Events("CertificateRevoked", h)
      /\ Events("CertificateRevoked", hash)' = Events("CertificateRevoked", hash) \cup {n}
      /\ \A h : Events("CertificateIssued", h)' = Events("CertificateIssued", h)
  BY <1>1, <1>2, EventsAppend
<1>6. \A m, h : Events(m, h) \subseteq DOMAIN log
  BY DEF Events
<1>7. Events("CertificateIssued", hash) # {} /\ Events("CertificateRevoked", hash) = {}
  BY <1>2, <1>3 DEF RegistryMatchesLog
<1>8. PastAndZero'
  <2>1. certificates'[ZeroHash] = certificates[ZeroHash]
    BY <1>2, <1>3
  <2> QED BY <1>1, <1>2, <1>4, <1>5, <2>1 DEF PastAndZero
<1>9. RegistryMatchesLog'
  <2> SUFFICES ASSUME NEW h \in Hashes
               PROVE  /\ certificates'[h].status = "NOT_FOUND"
                          => Events("CertificateIssued", h)' = {}
                               /\ certificates'[h] = NoCertificate
                      /\ \A i \in Events("CertificateIssued", h)' :
                             /\ certificates'[h].issuer = log'[i].issuer
                             /\ certificates'[h].issuer = log'[i].by
                             /\ certificates'[h].issuedAt = log'[i].at
                      /\ \A j \in Events("CertificateRevoked", h)' :
                             /\ certificates'[h].status = "REVOKED"
                             /\ certificates'[h].revokedAt = log'[j].at
                             /\ certificates'[h].issuer = log'[j].issuer
                      /\ certificates'[h].status # "NOT_FOUND"
                          => Events("CertificateIssued", h)' # {}
                      /\ certificates'[h].status = "REVOKED"
                          => Events("CertificateRevoked", h)' # {}
    BY DEF RegistryMatchesLog
  <2>1. CASE h = hash
    BY <1>1, <1>2, <1>3, <1>4, <1>5, <1>6, <1>7, <2>1 DEF RegistryMatchesLog
  <2>2. CASE h # hash
    BY <1>3, <1>4, <1>5, <1>6, <2>2 DEF RegistryMatchesLog
  <2> QED BY <2>1, <2>2
<1>10. IssuedOnceRevokedOnceAfter'
  <2>1. PICK i \in Events("CertificateIssued", hash) : TRUE
    BY <1>7
  <2>2. i < n /\ log'[i].at <= log'[n].at
    BY <1>1, <1>4, <1>6, <2>1 DEF PastAndZero
  <2> QED BY <1>4, <1>5, <1>6, <1>7, <2>2 DEF IssuedOnceRevokedOnceAfter
<1> QED BY <1>8, <1>9, <1>10

LEMMA RegistryInductive ==
    ASSUME RegistryInv, [ChainNext]_chainVars
    PROVE  RegistryInv'
<1>1. ChainTypeOK /\ ChainTypeOK'
  BY ChainTypeInductive DEF RegistryInv
<1>2. ASSUME NEW sender \in Accounts, NEW issuer \in Accounts \cup {ZeroAddress},
             authorizeIssuer(sender, issuer) \/ removeIssuer(sender, issuer)
      PROVE  RegistryInv'
  <2>1. /\ RoleEvent("IssuerAuthorized", issuer, sender) \in Event
        /\ RoleEvent("IssuerRemoved", issuer, sender) \in Event
    BY <1>1, ZeroAssumption DEF RoleEvent, Event, ChainTypeOK
  <2> QED BY <1>1, <1>2, <2>1, RegistryKeptByOthers
          DEF authorizeIssuer, removeIssuer, emit, RoleEvent
<1>3. ASSUME NextBlock PROVE RegistryInv'
  BY <1>1, <1>3, RegistryKeptByOthers DEF NextBlock, ChainTypeOK
<1>4. ASSUME UNCHANGED chainVars PROVE RegistryInv'
  BY <1>1, <1>4, RegistryKeptByOthers DEF chainVars, ChainTypeOK
<1> QED BY <1>1, <1>2, <1>3, <1>4, RegistryKeptByIssue, RegistryKeptByRevoke
        DEF ChainNext, Transact

LEMMA RegistryInitial == ChainInit => RegistryInv
<1> SUFFICES ASSUME ChainInit PROVE RegistryInv
  OBVIOUS
<1>1. ChainTypeOK
  BY DeployerAssumption, BlankType DEF ChainInit, ChainTypeOK
<1>2. \A n, h : Events(n, h) = {}
  BY DEF ChainInit, Events
<1>3. \A h \in Hashes \cup {ZeroHash} : certificates[h].status = "NOT_FOUND"
                                        /\ certificates[h] = NoCertificate
  BY DEF ChainInit, NoCertificate
<1>4. PastAndZero
  BY <1>2, <1>3 DEF PastAndZero, ChainInit
<1>5. RegistryMatchesLog
  BY <1>2, <1>3 DEF RegistryMatchesLog
<1> QED BY <1>1, <1>2, <1>4, <1>5 DEF RegistryInv, IssuedOnceRevokedOnceAfter

\* The events alone determine what getCertificate answers.
THEOREM RegistryIsReplayOfLog == ChainSpec => []RegistryMatchesLog
<1>1. RegistryInv => RegistryMatchesLog
  BY DEF RegistryInv
<1> QED BY <1>1, RegistryInitial, RegistryInductive, PTL DEF ChainSpec

\* A hash is issued at most once, ever, and revoked at most once, after that.
THEOREM IssuedAndRevokedOnce == ChainSpec => []IssuedOnceRevokedOnceAfter
<1>1. RegistryInv => IssuedOnceRevokedOnceAfter
  BY DEF RegistryInv
<1> QED BY <1>1, RegistryInitial, RegistryInductive, PTL DEF ChainSpec

-----------------------------------------------------------------------------
(* Authority: roles, and who signed what. *)

\* The authority of an account, and the properties about it, as functions of a log.
AuthorizedIn(l, account, i) ==
    \E a \in 1 .. (i - 1) :
        /\ l[a].name = "IssuerAuthorized" /\ l[a].issuer = account
        /\ \A r \in a .. (i - 1) : ~(l[r].name = "IssuerRemoved" /\ l[r].issuer = account)

RolesIn(l, members) ==
    /\ \A a \in Accounts : a \in members <=> AuthorizedIn(l, a, Len(l) + 1)
    /\ \A i \in DOMAIN l :
           l[i].name \in {"IssuerAuthorized", "IssuerRemoved"}
               => /\ l[i].by = Deployer
                  /\ l[i].name = "IssuerRemoved" <=> AuthorizedIn(l, l[i].issuer, i)

IssuancesIn(l) ==
    \A i \in DOMAIN l : l[i].name = "CertificateIssued" => AuthorizedIn(l, l[i].by, i)

LEMMA AuthorityOfLog ==
    /\ RoleMatchesLog <=> RolesIn(log, issuers)
    /\ RoleMatchesLog' <=> RolesIn(log', issuers')
    /\ IssuedUnderAuthority <=> IssuancesIn(log)
    /\ IssuedUnderAuthority' <=> IssuancesIn(log')
BY DEF RoleMatchesLog, RolesIn, IssuedUnderAuthority, IssuancesIn, AuthorizedAt, AuthorizedIn

\* An appended event changes nobody's authority in the past, and at the end of the log
\* that of the account it authorizes or removes.
LEMMA AuthorityAppend ==
    ASSUME log \in Seq(Event), NEW e \in Event, log' = Append(log, e),
           NEW n, n = Len(log) + 1
    PROVE  /\ n \in Nat /\ Len(log') = n /\ DOMAIN log' = DOMAIN log \cup {n}
           /\ DOMAIN log = 1 .. (n - 1) /\ log'[n] = e
           /\ \A i \in DOMAIN log : log'[i] = log[i]
           /\ \A account : \A i \in 1 .. n : AuthorizedIn(log', account, i) <=> AuthorizedIn(log, account, i)
           /\ \A account : AuthorizedIn(log', account, n + 1) <=>
                  \/ e.name = "IssuerAuthorized" /\ e.issuer = account
                  \/ /\ AuthorizedIn(log, account, n)
                     /\ ~(e.name = "IssuerRemoved" /\ e.issuer = account)
<1>1. /\ n \in Nat /\ Len(log') = n /\ DOMAIN log' = DOMAIN log \cup {n}
      /\ DOMAIN log = 1 .. (n - 1) /\ log'[n] = e
      /\ \A i \in DOMAIN log : log'[i] = log[i]
  OBVIOUS
<1>2. ASSUME NEW account, NEW i \in 1 .. n
      PROVE  AuthorizedIn(log', account, i) <=> AuthorizedIn(log, account, i)
  <2>1. \A j \in 1 .. (i - 1) : log'[j] = log[j]
    BY <1>1
  <2>2. \A a \in 1 .. (i - 1) : \A r \in a .. (i - 1) : r \in 1 .. (i - 1)
    BY <1>1
  <2> QED BY <2>1, <2>2 DEF AuthorizedIn
<1>3. ASSUME NEW account
      PROVE  AuthorizedIn(log', account, n + 1) <=>
                 \/ e.name = "IssuerAuthorized" /\ e.issuer = account
                 \/ /\ AuthorizedIn(log, account, n)
                    /\ ~(e.name = "IssuerRemoved" /\ e.issuer = account)
  <2> DEFINE Gives(a) == log'[a].name = "IssuerAuthorized" /\ log'[a].issuer = account
             Takes(r) == log'[r].name = "IssuerRemoved" /\ log'[r].issuer = account
  <2>1. AuthorizedIn(log', account, n + 1) <=> \E a \in 1 .. n : Gives(a) /\ \A r \in a .. n : ~Takes(r)
    <3>1. (n + 1) - 1 = n
      BY <1>1
    <3> QED BY <3>1 DEF AuthorizedIn
  <2>2. AuthorizedIn(log, account, n) <=>
            \E a \in 1 .. (n - 1) : Gives(a) /\ \A r \in a .. (n - 1) : ~Takes(r)
    <3>1. \A a \in 1 .. (n - 1) : log'[a] = log[a]
      BY <1>1
    <3>2. \A a \in 1 .. (n - 1) : \A r \in a .. (n - 1) : log'[r] = log[r]
      BY <1>1
    <3> QED BY <3>1, <3>2 DEF AuthorizedIn
  <2>3. /\ Gives(n) <=> e.name = "IssuerAuthorized" /\ e.issuer = account
        /\ Takes(n) <=> e.name = "IssuerRemoved" /\ e.issuer = account
    BY <1>1
  <2>4. ~(Gives(n) /\ Takes(n))
    OBVIOUS
  <2> HIDE DEF Gives, Takes
  <2>5. \A a \in 1 .. (n - 1) : a .. n = (a .. (n - 1)) \cup {n}
    BY <1>1
  <2>6. 1 .. n = (1 .. (n - 1)) \cup {n} /\ n .. n = {n}
    BY <1>1
  <2> QED BY <2>1, <2>2, <2>3, <2>4, <2>5, <2>6
<1> QED BY <1>1, <1>2, <1>3

AuthorityInv ==
    /\ RegistryInv
    /\ admins = {Deployer}
    /\ RoleMatchesLog
    /\ IssuedUnderAuthority
    /\ RevokedByIssuerOrAdmin

\* A role event names a new member, or an old one, of ISSUER_ROLE.
LEMMA AuthorityKeptByRoles ==
    ASSUME AuthorityInv, RegistryInv', NEW sender \in Accounts,
           NEW issuer \in Accounts \cup {ZeroAddress},
           authorizeIssuer(sender, issuer) \/ removeIssuer(sender, issuer)
    PROVE  AuthorityInv'
<1> USE DEF AuthorityInv
<1> PICK n : n = Len(log) + 1
  OBVIOUS
<1>1. issuer \in Accounts /\ sender = Deployer
  BY DEF authorizeIssuer, removeIssuer, isAddress
<1>2. PICK e \in Event :
          /\ log' = Append(log, e) /\ e.issuer = issuer /\ e.by = Deployer
          /\ \/ /\ e.name = "IssuerAuthorized"
                /\ issuer \notin issuers /\ issuers' = issuers \cup {issuer}
             \/ /\ e.name = "IssuerRemoved"
                /\ issuer \in issuers /\ issuers' = issuers \ {issuer}
  <2>1. now \in Nat
    BY DEF RegistryInv, ChainTypeOK
  <2>2. /\ RoleEvent("IssuerAuthorized", issuer, sender) \in Event
        /\ RoleEvent("IssuerRemoved", issuer, sender) \in Event
    BY <2>1 DEF RoleEvent, Event
  <2> QED BY <1>1, <2>2 DEF authorizeIssuer, removeIssuer, emit, RoleEvent, mayRemove,
                            isAuthorizedIssuer
<1>3. log \in Seq(Event)
  BY DEF RegistryInv, ChainTypeOK
<1>4. /\ n \in Nat /\ Len(log') = n /\ DOMAIN log' = DOMAIN log \cup {n}
      /\ DOMAIN log = 1 .. (n - 1) /\ log'[n] = e
      /\ \A i \in DOMAIN log : log'[i] = log[i]
      /\ \A account : \A i \in 1 .. n : AuthorizedIn(log', account, i) <=> AuthorizedIn(log, account, i)
      /\ \A account : AuthorizedIn(log', account, n + 1) <=>
             \/ e.name = "IssuerAuthorized" /\ e.issuer = account
             \/ AuthorizedIn(log, account, n) /\ ~(e.name = "IssuerRemoved" /\ e.issuer = account)
  BY <1>2, <1>3, AuthorityAppend
<1>5. \A a \in Accounts : a \in issuers <=> AuthorizedIn(log, a, n)
  BY AuthorityOfLog DEF RolesIn
<1>6. RoleMatchesLog'
  <2>1. \A a \in Accounts : a \in issuers' <=> AuthorizedIn(log', a, n + 1)
    BY <1>2, <1>4, <1>5
  <2>2. \A i \in DOMAIN log' : i \in 1 .. n
    BY <1>4
  <2>3. \A i \in DOMAIN log' : log'[i].name \in {"IssuerAuthorized", "IssuerRemoved"} =>
            /\ log'[i].by = Deployer
            /\ log'[i].name = "IssuerRemoved" <=> AuthorizedIn(log', log'[i].issuer, i)
    <3> TAKE i \in DOMAIN log'
    <3>1. CASE i \in DOMAIN log
      <4>1. log'[i] = log[i] /\ i \in 1 .. n
        BY <1>4, <3>1
      <4>2. AuthorizedIn(log', log[i].issuer, i) <=> AuthorizedIn(log, log[i].issuer, i)
        BY <1>4, <4>1
      <4> QED BY <3>1, <4>1, <4>2, AuthorityOfLog DEF RolesIn
    <3>2. CASE i = n
      <4>1. AuthorizedIn(log', issuer, n) <=> AuthorizedIn(log, issuer, n)
        BY <1>4
      <4> QED BY <1>1, <1>2, <1>4, <1>5, <3>2, <4>1
    <3> QED BY <1>4, <3>1, <3>2
  <2> QED BY <1>4, <2>1, <2>3, AuthorityOfLog DEF RolesIn
<1>7. IssuedUnderAuthority'
  BY <1>2, <1>4, AuthorityOfLog DEF IssuancesIn
<1>8. RevokedByIssuerOrAdmin'
  BY <1>2, <1>4 DEF RevokedByIssuerOrAdmin, Events, authorizeIssuer, removeIssuer
<1>9. admins' = {Deployer}
  BY DEF authorizeIssuer, removeIssuer
<1> QED BY <1>6, <1>7, <1>8, <1>9

\* A certificate event leaves the roles alone; an issuance is signed by a member.
LEMMA AuthorityKeptByCertificates ==
    ASSUME AuthorityInv, NEW e \in Event, log' = Append(log, e),
           e.name \in {"CertificateIssued", "CertificateRevoked"},
           e.name = "CertificateIssued" => e.by \in issuers \cap Accounts,
           UNCHANGED issuers
    PROVE  RoleMatchesLog' /\ IssuedUnderAuthority'
<1> USE DEF AuthorityInv
<1> PICK n : n = Len(log) + 1
  OBVIOUS
<1>1. log \in Seq(Event)
  BY DEF RegistryInv, ChainTypeOK
<1>2. /\ n \in Nat /\ Len(log') = n /\ DOMAIN log' = DOMAIN log \cup {n}
      /\ DOMAIN log = 1 .. (n - 1) /\ log'[n] = e
      /\ \A i \in DOMAIN log : log'[i] = log[i]
      /\ \A account : \A i \in 1 .. n : AuthorizedIn(log', account, i) <=> AuthorizedIn(log, account, i)
      /\ \A account : AuthorizedIn(log', account, n + 1) <=>
             \/ e.name = "IssuerAuthorized" /\ e.issuer = account
             \/ AuthorizedIn(log, account, n) /\ ~(e.name = "IssuerRemoved" /\ e.issuer = account)
  BY <1>1, AuthorityAppend
<1>3. RolesIn(log, issuers) /\ IssuancesIn(log)
  BY AuthorityOfLog
<1>4. \A i \in DOMAIN log : i \in 1 .. n
  BY <1>2
<1>5. RolesIn(log', issuers')
  <2>1. \A a \in Accounts : a \in issuers' <=> AuthorizedIn(log', a, n + 1)
    BY <1>2, <1>3 DEF RolesIn
  <2>2. \A i \in DOMAIN log' : log'[i].name \in {"IssuerAuthorized", "IssuerRemoved"} =>
            /\ log'[i].by = Deployer
            /\ log'[i].name = "IssuerRemoved" <=> AuthorizedIn(log', log'[i].issuer, i)
    BY <1>2, <1>3, <1>4 DEF RolesIn
  <2> QED BY <1>2, <2>1, <2>2 DEF RolesIn
<1>6. IssuancesIn(log')
  <2>1. AuthorizedIn(log, e.by, n) \/ e.name # "CertificateIssued"
    BY <1>2, <1>3 DEF RolesIn
  <2>2. AuthorizedIn(log', e.by, n) \/ e.name # "CertificateIssued"
    BY <1>2, <2>1
  <2> QED BY <1>2, <1>3, <1>4, <2>2 DEF IssuancesIn
<1> QED BY <1>5, <1>6, AuthorityOfLog

LEMMA AuthorityKeptByIssue ==
    ASSUME AuthorityInv, RegistryInv', NEW sender \in Accounts,
           NEW hash \in Hashes \cup {ZeroHash}, issueCertificate(sender, hash)
    PROVE  AuthorityInv'
<1> USE DEF AuthorityInv
<1>1. PICK e \in Event :
          /\ log' = Append(log, e) /\ e.name = "CertificateIssued" /\ e.hash = hash
          /\ e.by = sender /\ sender \in issuers
  <2>1. now \in Nat
    BY DEF RegistryInv, ChainTypeOK
  <2>2. CertificateEvent("CertificateIssued", hash, sender, sender) \in Event
    BY <2>1 DEF CertificateEvent, Event
  <2> QED BY <2>2 DEF issueCertificate, emit, CertificateEvent, isAuthorizedIssuer
<1>2. RoleMatchesLog' /\ IssuedUnderAuthority'
  BY <1>1, AuthorityKeptByCertificates DEF issueCertificate
<1>3. RevokedByIssuerOrAdmin'
  <2>1. /\ \A h : Events("CertificateRevoked", h)' = Events("CertificateRevoked", h)
        /\ \A i \in DOMAIN log : log'[i] = log[i]
    BY <1>1, EventsAppend DEF RegistryInv, ChainTypeOK
  <2>2. Events("CertificateRevoked", hash) = {}
    BY DEF RegistryInv, PastAndZero, RegistryMatchesLog, issueCertificate, isUnknown
  <2>3. \A h \in Hashes \ {hash} : certificates'[h] = certificates[h]
    BY DEF RegistryInv, ChainTypeOK, issueCertificate
  <2>4. \A h : Events("CertificateRevoked", h) \subseteq DOMAIN log
    BY DEF Events
  <2> QED BY <2>1, <2>2, <2>3, <2>4 DEF RevokedByIssuerOrAdmin
<1>4. admins' = {Deployer}
  BY DEF issueCertificate
<1> QED BY <1>2, <1>3, <1>4

LEMMA AuthorityKeptByRevoke ==
    ASSUME AuthorityInv, RegistryInv', NEW sender \in Accounts,
           NEW hash \in Hashes \cup {ZeroHash}, revokeCertificate(sender, hash)
    PROVE  AuthorityInv'
<1> USE DEF AuthorityInv
<1> PICK n : n = Len(log) + 1
  OBVIOUS
<1>1. PICK e \in Event :
          /\ log' = Append(log, e) /\ e.name = "CertificateRevoked" /\ e.hash = hash
          /\ e.by = sender
  <2>1. now \in Nat /\ certificates[hash].issuer \in Accounts \cup {ZeroAddress}
    BY DEF RegistryInv, ChainTypeOK, Certificate
  <2>2. RevokedEvent(hash, sender) \in Event
    BY <2>1 DEF RevokedEvent, CertificateEvent, Event
  <2> QED BY <2>2 DEF revokeCertificate, emit, RevokedEvent, CertificateEvent
<1>2. RoleMatchesLog' /\ IssuedUnderAuthority'
  BY <1>1, AuthorityKeptByCertificates DEF revokeCertificate
<1>3. RevokedByIssuerOrAdmin'
  <2>1. /\ \A h : h # hash => Events("CertificateRevoked", h)' = Events("CertificateRevoked", h)
        /\ Events("CertificateRevoked", hash)' = Events("CertificateRevoked", hash) \cup {n}
        /\ \A i \in DOMAIN log : log'[i] = log[i]
        /\ log'[n] = e
    BY <1>1, EventsAppend DEF RegistryInv, ChainTypeOK
  <2>2. sender \in {certificates[hash].issuer, Deployer}
    BY DEF revokeCertificate, mayRevoke
  <2>3. \A h \in Hashes : certificates'[h].issuer = certificates[h].issuer
    <3>1. /\ certificates \in [Hashes \cup {ZeroHash} -> Certificate]
          /\ certificates' = [certificates EXCEPT ![hash].revokedAt = now, ![hash].status = "REVOKED"]
      BY DEF RegistryInv, ChainTypeOK, revokeCertificate
    <3>2. \A h \in Hashes : certificates[h] \in Certificate
      BY <3>1
    <3> QED BY <3>1, <3>2 DEF Certificate
  <2>4. \A h : Events("CertificateRevoked", h) \subseteq DOMAIN log
    BY DEF Events
  <2> QED BY <1>1, <2>1, <2>2, <2>3, <2>4 DEF RevokedByIssuerOrAdmin
<1>4. admins' = {Deployer}
  BY DEF revokeCertificate
<1> QED BY <1>2, <1>3, <1>4

LEMMA AuthorityInductive ==
    ASSUME AuthorityInv, [ChainNext]_chainVars
    PROVE  AuthorityInv'
<1>1. RegistryInv'
  BY RegistryInductive DEF AuthorityInv
<1>2. ASSUME UNCHANGED <<admins, issuers, certificates, log>>
      PROVE  AuthorityInv'
  <2>1. RoleMatchesLog' /\ IssuedUnderAuthority'
    BY <1>2, AuthorityOfLog DEF AuthorityInv
  <2>2. RevokedByIssuerOrAdmin'
    BY <1>2 DEF AuthorityInv, RevokedByIssuerOrAdmin, Events
  <2> QED BY <1>1, <1>2, <2>1, <2>2 DEF AuthorityInv
<1> QED BY <1>1, <1>2, AuthorityKeptByRoles, AuthorityKeptByIssue, AuthorityKeptByRevoke
        DEF ChainNext, Transact, NextBlock, chainVars

LEMMA AuthorityInitial == ChainInit => AuthorityInv
<1> SUFFICES ASSUME ChainInit PROVE AuthorityInv
  OBVIOUS
<1>1. log = <<>> /\ DOMAIN log = {} /\ Len(log) = 0 /\ issuers = {} /\ admins = {Deployer}
  BY DEF ChainInit
<1>2. \A account : ~AuthorizedAt(account, 1)
  BY DEF AuthorizedAt
<1>3. RoleMatchesLog /\ IssuedUnderAuthority /\ RevokedByIssuerOrAdmin
  BY <1>1, <1>2 DEF RoleMatchesLog, IssuedUnderAuthority, RevokedByIssuerOrAdmin, Events
<1> QED BY <1>1, <1>3, RegistryInitial DEF AuthorityInv

\* ISSUER_ROLE is what the role events say, and the deployer alone signs them.
THEOREM RolesFollowLog == ChainSpec => []RoleMatchesLog
<1>1. AuthorityInv => RoleMatchesLog
  BY DEF AuthorityInv
<1> QED BY <1>1, AuthorityInitial, AuthorityInductive, PTL DEF ChainSpec

\* Every certificate ever issued was signed by an account authorized at that moment.
THEOREM IssuersWereAuthorized == ChainSpec => []IssuedUnderAuthority
<1>1. AuthorityInv => IssuedUnderAuthority
  BY DEF AuthorityInv
<1> QED BY <1>1, AuthorityInitial, AuthorityInductive, PTL DEF ChainSpec

\* Every revocation was signed by the certificate's issuer or by the administrator.
THEOREM RevokersWereEntitled == ChainSpec => []RevokedByIssuerOrAdmin
<1>1. AuthorityInv => RevokedByIssuerOrAdmin
  BY DEF AuthorityInv
<1> QED BY <1>1, AuthorityInitial, AuthorityInductive, PTL DEF ChainSpec

-----------------------------------------------------------------------------
(* The contract implements the certificate lifecycle. *)

lifecycleRecord ==
    [h \in Hashes |-> [status |-> certificates[h].status, issuer |-> certificates[h].issuer,
                       issuedAt |-> certificates[h].issuedAt]]

LEMMA LifecycleInitial == ChainInit => Lifecycle!Init
BY DEF ChainInit, Lifecycle!Init, Lifecycle!Absent, NoCertificate

LEMMA LifecycleIssue ==
    ASSUME ChainTypeOK, NEW sender \in Accounts, NEW hash \in Hashes \cup {ZeroHash},
           issueCertificate(sender, hash)
    PROVE  Lifecycle!Issue(hash) /\ hash \in Hashes
<1> USE DEF ChainTypeOK
<1>1. hash \in Hashes
  BY DEF issueCertificate
<1>2. lifecycleRecord' = [lifecycleRecord EXCEPT ![hash] =
          [status |-> "ACTIVE", issuer |-> sender, issuedAt |-> now]]
  BY <1>1 DEF issueCertificate, lifecycleRecord
<1>3. lifecycleRecord[hash].status = "NOT_FOUND"
  BY <1>1 DEF issueCertificate, isUnknown, lifecycleRecord
<1>4. lifecycleRecord'[hash] = [status |-> "ACTIVE", issuer |-> sender, issuedAt |-> now]
  BY <1>1, <1>2 DEF lifecycleRecord
<1>5. lifecycleRecord'[hash] \in Lifecycle!Issued
  BY <1>4 DEF Lifecycle!Issued
<1> QED BY <1>1, <1>2, <1>3, <1>4, <1>5 DEF Lifecycle!Issue, lifecycleRecord

LEMMA LifecycleRevoke ==
    ASSUME ChainTypeOK, NEW sender \in Accounts, NEW hash \in Hashes \cup {ZeroHash},
           revokeCertificate(sender, hash)
    PROVE  \/ Lifecycle!Revoke(hash) /\ hash \in Hashes
           \/ UNCHANGED lifecycleRecord
<1> USE DEF ChainTypeOK
<1>1. CASE hash \in Hashes
  <2>1. lifecycleRecord[hash].status = "ACTIVE"
    BY <1>1 DEF revokeCertificate, isRevocable, lifecycleRecord
  <2>2. lifecycleRecord' = [lifecycleRecord EXCEPT ![hash].status = "REVOKED"]
    BY <1>1 DEF revokeCertificate, lifecycleRecord, Certificate
  <2> QED BY <1>1, <2>1, <2>2 DEF Lifecycle!Revoke, lifecycleRecord
<1>2. CASE hash = ZeroHash
  BY <1>2, ZeroAssumption DEF revokeCertificate, lifecycleRecord
<1> QED BY <1>1, <1>2

LEMMA LifecycleStep ==
    ASSUME ChainTypeOK, [ChainNext]_chainVars
    PROVE  [Lifecycle!Next]_lifecycleRecord
<1>1. ASSUME NEW sender \in Accounts, NEW issuer \in Accounts \cup {ZeroAddress},
             authorizeIssuer(sender, issuer) \/ removeIssuer(sender, issuer)
      PROVE  UNCHANGED lifecycleRecord
  BY <1>1 DEF authorizeIssuer, removeIssuer, lifecycleRecord
<1>2. NextBlock \/ UNCHANGED chainVars => UNCHANGED lifecycleRecord
  BY DEF NextBlock, chainVars, lifecycleRecord
<1> QED BY <1>1, <1>2, LifecycleIssue, LifecycleRevoke
        DEF ChainNext, Transact, Lifecycle!Next

\* Every behaviour of the contract is, for each hash, one of NOT_FOUND -> ACTIVE ->
\* REVOKED with the issuer and the date of issue fixed on the way.
THEOREM ContractImplementsLifecycle == ChainSpec => RefinesLifecycle
<1>1. ChainTypeOK /\ [ChainNext]_chainVars => [Lifecycle!Next]_lifecycleRecord
  BY LifecycleStep
<1> QED BY <1>1, LifecycleInitial, ChainTypeCorrect, PTL
        DEF ChainSpec, RefinesLifecycle, Lifecycle!Spec, lifecycleRecord
=============================================================================
