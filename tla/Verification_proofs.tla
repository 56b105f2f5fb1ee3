------------------------- MODULE Verification_proofs -------------------------
(***************************************************************************)
(* Theorems about Verification, for any documents, requests in flight and  *)
(* length of the chain.  An answer is labelled when it is asked for, so    *)
(* the invariant is about the requests (Sound): what a request has read is *)
(* not ahead of the registry, which only moves on (StatusGrows), and its   *)
(* name is the file's.  The landing page is where a name and a digest meet *)
(* (HeroInv): as long as no file overtakes another, at most one is hashed, *)
(* and it is the one selected.                                             *)
(***************************************************************************)
EXTENDS Verification, Selection_proofs

Now == [h \in Hashes |-> StatusNow(h)]

VerifyRequest ==
    [kind : {"verify"}, step : {"sent", "reading", "answered"}, hash : Hashes,
     name : Documents, caller : {"form", "gone"},
     status : Status \cup {NULL}, record : Status \cup {NULL}]

DigestRequest ==
    [kind : {"digest"}, step : {"hashing"}, hash : Hashes, caller : {"hero", "form", "gone"}]

FailedRequest == [kind : {"verify"}, step : {"failed"}, caller : {"form", "gone"}]

IsQuery(r) == DOMAIN r # {} /\ "kind" \in DOMAIN r /\ r.kind = "events"

\* What a verification under way has read, and the name it goes by.
Sound(r, now, over) ==
    /\ r.step \in {"reading", "answered"} =>
           r.status \in Status /\ Rank(r.status) <= Rank(now[r.hash])
    /\ r.step = "answered" =>
           /\ r.record \in Status
           /\ Rank(r.status) <= Rank(r.record) /\ Rank(r.record) <= Rank(now[r.hash])
    /\ ~over => (r.name \in Hashes => r.name = r.hash)

RequestOK(r, now, over) ==
    \/ r \in VerifyRequest /\ Sound(r, now, over)
    \/ r \in DigestRequest \/ r \in FailedRequest
    \/ r = NoRequest \/ IsQuery(r)

RequestsInv ==
    /\ requests = [s \in Slots |-> requests[s]]
    /\ \A s \in Slots : RequestOK(requests[s], Now, overtaken)

\* The file that is hashed on the landing page.
HeroHashes(s) == requests[s].kind = "digest" /\ requests[s].caller = "hero"

HeroInv ==
    ~overtaken =>
        /\ hero.fileDigest # NULL => hero.selectedFile \in {NULL, hero.fileDigest}
        /\ \A s \in Slots : HeroHashes(s) =>
               /\ hero.hashing /\ hero.selectedFile \in {NULL, requests[s].hash}
               /\ \A r \in Slots : HeroHashes(r) => r = s

ProofOK(p, now, over) ==
    /\ Rank(p.status) <= Rank(now[p.hash])
    /\ ~over => (p.name \in Hashes => p.name = p.hash)

ProofsInv ==
    /\ form.result # NULL => ProofOK(form.result, Now, overtaken)
    /\ \A i \in DOMAIN history : ProofOK(history[i], Now, overtaken)

ChainType == chain \in Seq([name : Names \cup {"none"}, hash : Documents])

VerificationInv == VerificationTypeOK /\ ChainType /\ RequestsInv /\ HeroInv /\ ProofsInv

-----------------------------------------------------------------------------
(* The chain. *)

LEMMA RankRange == \A status : Rank(status) \in 0 .. 2
BY DEF Rank

LEMMA StatusType == Now \in [Hashes -> Status]
BY DEF Now, StatusNow, Status

Grows(now, then) == \A h \in Hashes : Rank(now[h]) <= Rank(then[h])

\* A block is appended; every event stays, so no status falls back.
LEMMA StatusGrows ==
    ASSUME ChainType, NEW name \in Names \cup {"none"}, NEW h \in Documents, Block(name, h)
    PROVE  ChainType' /\ Grows(Now, Now')
<1>1. chain' = Append(chain, [name |-> name, hash |-> h])
  BY DEF Block
<1>2. /\ ChainType' /\ DOMAIN chain \subseteq DOMAIN chain'
      /\ \A i \in DOMAIN chain : chain'[i] = chain[i]
  BY <1>1 DEF ChainType
<1>3. \A g \in Hashes, n \in Names : Logged(n, g) => Logged(n, g)'
  BY <1>2 DEF Logged
<1>4. \A g \in Hashes : Rank(StatusNow(g)) <= Rank(StatusNow(g)')
  <2> TAKE g \in Hashes
  <2>1. /\ Rank("NOT_FOUND") = 0 /\ Rank("ACTIVE") = 1 /\ Rank("REVOKED") = 2
    BY DEF Rank
  <2>2. CASE Logged("CertificateRevoked", g)
    <3>1. Logged("CertificateRevoked", g)'
      BY <1>3, <2>2 DEF Names
    <3>2. StatusNow(g)' = "REVOKED"
      BY <3>1 DEF StatusNow
    <3>3. StatusNow(g) = "REVOKED"
      BY <2>2 DEF StatusNow
    <3> QED BY <2>1, <3>2, <3>3
  <2>3. CASE ~Logged("CertificateRevoked", g) /\ Logged("CertificateIssued", g)
    <3>1. Logged("CertificateIssued", g)'
      BY <1>3, <2>3 DEF Names
    <3>2. StatusNow(g)' \in {"ACTIVE", "REVOKED"}
      BY <3>1 DEF StatusNow
    <3>3. StatusNow(g) = "ACTIVE"
      BY <2>3 DEF StatusNow
    <3> QED BY <2>1, <3>2, <3>3
  <2>4. CASE ~Logged("CertificateRevoked", g) /\ ~Logged("CertificateIssued", g)
    <3>1. StatusNow(g) = "NOT_FOUND"
      BY <2>4 DEF StatusNow
    <3>2. Rank(StatusNow(g)') \in 0 .. 2
      BY RankRange
    <3> QED BY <2>1, <3>1, <3>2
  <2> QED BY <2>2, <2>3, <2>4
<1> QED BY <1>2, <1>4 DEF Now, Grows

LEMMA GrowsTransitive ==
    ASSUME NEW now, NEW then, Grows(now, then), NEW h \in Hashes, NEW status,
           Rank(status) <= Rank(now[h])
    PROVE  Rank(status) <= Rank(then[h])
<1>1. Rank(now[h]) <= Rank(then[h])
  BY DEF Grows
<1>2. Rank(status) \in 0 .. 2 /\ Rank(now[h]) \in 0 .. 2 /\ Rank(then[h]) \in 0 .. 2
  BY RankRange
<1> HIDE DEF Rank
<1> QED BY <1>1, <1>2

LEMMA RequestStays ==
    ASSUME NEW r, NEW now, NEW then, Grows(now, then), NEW over, NEW later,
           over => later, RequestOK(r, now, over)
    PROVE  RequestOK(r, then, later)
<1>1. CASE r \in VerifyRequest /\ Sound(r, now, over)
  <2>1. r.hash \in Hashes
    BY <1>1 DEF VerifyRequest
  <2> QED BY <1>1, <2>1, GrowsTransitive DEF RequestOK, Sound
<1> QED BY <1>1 DEF RequestOK

LEMMA ProofStays ==
    ASSUME NEW p \in Proof, NEW now, NEW then, Grows(now, then), NEW over, NEW later,
           over => later, ProofOK(p, now, over)
    PROVE  ProofOK(p, then, later)
<1>1. p.hash \in Hashes
  BY DEF Proof
<1> QED BY <1>1, GrowsTransitive DEF ProofOK

-----------------------------------------------------------------------------
(* The gateway. *)

LEMMA QueryRange ==
    ASSUME NEW r, IsQuery(r), NEW head
    PROVE  IsQuery(normalizeBlockRange(r, head))
BY DEF normalizeBlockRange, IsQuery

\* An answer is put together from two reads, neither of them ahead of the registry.
LEMMA VerifyStep ==
    ASSUME RequestsInv, NEW s \in Slots, verifyCertificate(s)
    PROVE  \E r \in VerifyRequest : Goes(s, r) /\ Sound(r, Now, overtaken)
<1> DEFINE request == requests[s]  h == request.hash
<1>1. request \in VerifyRequest /\ Sound(request, Now, overtaken)
  <2>1. RequestOK(request, Now, overtaken)
    BY DEF RequestsInv
  <2>2. request.kind = "verify" /\ request.step \in {"sent", "reading"}
    BY DEF verifyCertificate
  <2>3. request \notin DigestRequest /\ request \notin FailedRequest /\ request # NoRequest
    BY <2>2 DEF DigestRequest, FailedRequest, NoRequest
  <2>4. ~IsQuery(request)
    BY <2>2 DEF IsQuery
  <2> HIDE DEF request
  <2> QED BY <2>1, <2>3, <2>4 DEF RequestOK
<1>2. h \in Hashes /\ Now[h] = StatusNow(h) /\ Now[h] \in Status
  BY <1>1, StatusType DEF VerifyRequest, Now
<1>3. Reads[1] = "status" /\ Reads[2] = "record"
  BY DEF Reads
<1>4. CASE request.step = "sent"
  <2> DEFINE r == [request EXCEPT !.status = StatusNow(h), !.step = "reading"]
  <2>1. Goes(s, r)
    BY <1>3, <1>4 DEF verifyCertificate, Goes
  <2>2. r \in VerifyRequest /\ r.status = StatusNow(h) /\ r.hash = h /\ r.name = request.name
        /\ r.step = "reading"
    BY <1>1, <1>2 DEF VerifyRequest
  <2>3. Rank(StatusNow(h)) <= Rank(Now[h])
    BY <1>2, RankRange
  <2>4. Sound(r, Now, overtaken)
    BY <1>1, <1>2, <2>2, <2>3 DEF Sound
  <2> QED BY <2>1, <2>2, <2>4
<1>5. CASE request.step = "reading"
  <2> DEFINE r == [request EXCEPT !.record = StatusNow(h), !.step = "answered"]
  <2>1. Goes(s, r)
    BY <1>3, <1>5 DEF verifyCertificate, Goes
  <2>2. r \in VerifyRequest /\ r.record = StatusNow(h) /\ r.hash = h /\ r.name = request.name
        /\ r.step = "answered" /\ r.status = request.status
    BY <1>1, <1>2 DEF VerifyRequest
  <2>3. Rank(StatusNow(h)) <= Rank(Now[h])
    BY <1>2, RankRange
  <2>4. Sound(r, Now, overtaken)
    BY <1>1, <1>2, <1>5, <2>2, <2>3 DEF Sound
  <2> QED BY <2>1, <2>2, <2>4
<1> QED BY <1>4, <1>5 DEF verifyCertificate

LEMMA ServeStep ==
    ASSUME RequestsInv, NEW s \in Slots, Serve(s)
    PROVE  /\ \E r : Goes(s, r) /\ RequestOK(r, Now, overtaken) /\ ~(r \in DigestRequest)
           /\ UNCHANGED chain
<1>1. RequestOK(requests[s], Now, overtaken)
  BY DEF RequestsInv
<1>2. CASE verifyCertificate(s)
  <2>1. PICK r \in VerifyRequest : Goes(s, r) /\ Sound(r, Now, overtaken)
    BY <1>2, VerifyStep
  <2>2. r \notin DigestRequest
    BY DEF VerifyRequest, DigestRequest
  <2> QED BY <1>2, <2>1, <2>2 DEF RequestOK, verifyCertificate
<1>3. CASE fetchEvents(s)
  <2>1. IsQuery(requests[s])
    BY <1>1, <1>3 DEF fetchEvents, At, RequestOK, VerifyRequest, DigestRequest, FailedRequest, NoRequest
  <2> QED BY <1>3, <2>1, QueryRange DEF fetchEvents, RequestOK, IsQuery, DigestRequest
<1>4. CASE queryEvents(s)
  <2>1. IsQuery(requests[s])
    BY <1>1, <1>4 DEF queryEvents, At, RequestOK, VerifyRequest, DigestRequest, FailedRequest, NoRequest
  <2>2. PICK events, next, step :
            Goes(s, [requests[s] EXCEPT !.events = events, !.next = next, !.step = step])
    BY <1>4 DEF queryEvents, Goes
  <2>3. IsQuery([requests[s] EXCEPT !.events = events, !.next = next, !.step = step])
    BY <2>1 DEF IsQuery
  <2> DEFINE r == [requests[s] EXCEPT !.events = events, !.next = next, !.step = step]
  <2>4. RequestOK(r, Now, overtaken) /\ r \notin DigestRequest
    <3> HIDE DEF r
    <3> QED BY <2>3 DEF RequestOK, IsQuery, DigestRequest, r
  <2> QED BY <1>4, <2>2, <2>4 DEF queryEvents
<1>5. CASE ReceiveEvents(s)
  BY <1>5 DEF ReceiveEvents, RequestOK, NoRequest, DigestRequest
<1>6. CASE RequestFails(s)
  <2> DEFINE r == [kind |-> requests[s].kind, step |-> "failed", caller |-> requests[s].caller]
  <2>1. CASE requests[s] \in VerifyRequest
    <3>1. r \in FailedRequest
      BY <2>1 DEF VerifyRequest, FailedRequest
    <3> QED BY <1>6, <3>1 DEF RequestFails, RequestOK, FailedRequest, DigestRequest
  <2>2. CASE IsQuery(requests[s])
    <3>1. IsQuery(r) /\ r.kind = "events"
      BY <2>2 DEF IsQuery
    <3> QED BY <1>6, <3>1 DEF RequestFails, RequestOK, DigestRequest
  <2>3. requests[s] \in VerifyRequest \/ IsQuery(requests[s])
    BY <1>1, <1>6 DEF RequestFails, RequestOK, DigestRequest, FailedRequest, NoRequest
  <2> QED BY <2>1, <2>2, <2>3
<1> QED BY <1>2, <1>3, <1>4, <1>5, <1>6 DEF Serve

\* One request changes.
LEMMA OneRequest ==
    ASSUME RequestsInv, NEW s \in Slots, NEW r, Goes(s, r), NEW now, NEW later,
           Grows(Now, now), overtaken => later, RequestOK(r, now, later)
    PROVE  /\ requests' = [t \in Slots |-> requests'[t]]
           /\ requests'[s] = r
           /\ \A t \in Slots : t # s => requests'[t] = requests[t]
           /\ \A t \in Slots : RequestOK(requests'[t], now, later)
<1>1. /\ requests' = [t \in Slots |-> requests'[t]] /\ requests'[s] = r
      /\ \A t \in Slots : t # s => requests'[t] = requests[t]
  BY DEF RequestsInv, Goes
<1>2. \A t \in Slots : RequestOK(requests[t], now, later)
  BY RequestStays DEF RequestsInv
<1> QED BY <1>1, <1>2

LEMMA NothingGrows == \A now : Grows(now, now)
BY RankRange DEF Grows

LEMMA Unmoved == ASSUME UNCHANGED chain PROVE Now' = Now
BY DEF Now, StatusNow, Logged

\* What an answer asked for now will say is not decided yet.
LEMMA VerificationAsked ==
    ASSUME NEW h \in Hashes, NEW name \in Documents, NEW caller \in {"form", "gone"},
           NEW now, NEW over, ~over => (name \in Hashes => name = h)
    PROVE  /\ RequestOK(Verification(h, name, caller), now, over)
           /\ Verification(h, name, caller).kind = "verify"
BY DEF Verification, RequestOK, VerifyRequest, Sound

-----------------------------------------------------------------------------
(* Parts of the invariant that a step leaves alone. *)

LEMMA ProofsKept ==
    ASSUME VerificationTypeOK, ProofsInv, Grows(Now, Now'), overtaken => overtaken',
           form'.result \in {NULL, form.result}, history' = history
    PROVE  ProofsInv'
<1>1. form'.result # NULL => ProofOK(form'.result, Now', overtaken')
  <2> SUFFICES ASSUME form'.result # NULL
               PROVE  ProofOK(form'.result, Now', overtaken')
    OBVIOUS
  <2>1. form'.result = form.result /\ form.result \in Proof
    BY DEF VerificationTypeOK
  <2> QED BY <2>1, ProofStays DEF ProofsInv
<1>2. \A i \in DOMAIN history : history[i] \in Proof
  BY DEF VerificationTypeOK
<1>3. \A i \in DOMAIN history' : ProofOK(history'[i], Now', overtaken')
  BY <1>2, ProofStays DEF ProofsInv
<1> QED BY <1>1, <1>3 DEF ProofsInv

\* What was not on the landing page before is not there now.
LEMMA HeroKept ==
    ASSUME HeroInv, hero' = hero, overtaken => overtaken',
           \A s \in Slots : requests'[s] = requests[s] \/ ~HeroHashes(s)'
    PROVE  HeroInv'
BY DEF HeroInv, HeroHashes

LEMMA HeroLeft ==
    ASSUME hero' = NewHero, \A s \in Slots : ~HeroHashes(s)'
    PROVE  HeroInv'
BY DEF HeroInv, HeroHashes, NewHero

LEMMA LeavingStep ==
    ASSUME RequestsInv
    PROVE  /\ Leaving = [s \in Slots |-> Leaving[s]]
           /\ \A s \in Slots : /\ RequestOK(Leaving[s], Now, overtaken)
                               /\ ~(Leaving[s].kind = "digest" /\ Leaving[s].caller = "hero")
<1>1. Leaving = [s \in Slots |-> Leaving[s]]
  BY DEF Leaving
<1> SUFFICES ASSUME NEW s \in Slots
             PROVE  /\ RequestOK(Leaving[s], Now, overtaken)
                    /\ ~(Leaving[s].kind = "digest" /\ Leaving[s].caller = "hero")
  BY <1>1
<1> DEFINE r == requests[s]
<1>2. RequestOK(r, Now, overtaken)
  BY DEF RequestsInv
<1>3. Leaving[s] = IF r.kind = "events" \/ (r.kind = "digest" /\ r.caller = "hero")
                   THEN NoRequest ELSE Orphaned(r)
  BY DEF Leaving
<1> HIDE DEF r
<1>4. CASE Leaving[s] = NoRequest
  BY <1>4 DEF RequestOK, NoRequest
<1>5. CASE Leaving[s] = Orphaned(r) /\ ~IsQuery(r)
  <2>1. CASE r \in VerifyRequest /\ Sound(r, Now, overtaken)
    <3> DEFINE q == [r EXCEPT !.caller = "gone"]
    <3>1. Orphaned(r) = q /\ q \in VerifyRequest
      BY <2>1 DEF Orphaned, VerifyRequest
    <3>2. Sound(q, Now, overtaken) /\ q.kind = "verify"
      BY <2>1 DEF Sound, VerifyRequest
    <3> HIDE DEF q
    <3> QED BY <1>5, <3>1, <3>2 DEF RequestOK
  <2>2. CASE r \in DigestRequest
    <3> DEFINE q == [r EXCEPT !.caller = "gone"]
    <3>1. Orphaned(r) = q /\ q \in DigestRequest /\ q.caller = "gone"
      BY <2>2 DEF Orphaned, DigestRequest
    <3> HIDE DEF q
    <3> QED BY <1>5, <3>1 DEF RequestOK
  <2>3. CASE r \in FailedRequest
    <3> DEFINE q == [r EXCEPT !.caller = "gone"]
    <3>1. Orphaned(r) = q /\ q \in FailedRequest /\ q.kind = "verify"
      BY <2>3 DEF Orphaned, FailedRequest
    <3> HIDE DEF q
    <3> QED BY <1>5, <3>1 DEF RequestOK
  <2>4. CASE r = NoRequest
    BY <1>5, <2>4 DEF Orphaned, NoRequest, RequestOK
  <2> QED BY <1>2, <1>5, <2>1, <2>2, <2>3, <2>4 DEF RequestOK
<1>6. CASE IsQuery(r)
  BY <1>3, <1>4, <1>6 DEF IsQuery
<1> QED BY <1>3, <1>4, <1>5, <1>6

\* The effect of VerifyDocument on a path with a hash.
LEMMA ShowsStep ==
    ASSUME NEW s \in Slots, NEW h \in Documents, NEW name \in Documents, NEW asking,
           asking = [r \in Slots |-> asking[r]],
           \A r \in Slots : RequestOK(asking[r], Now, overtaken),
           ~overtaken => (name \in Hashes => name = h),
           Shows(s, h, name, asking), UNCHANGED <<chain, overtaken>>
    PROVE  /\ RequestsInv'
           /\ route' = Path("verify", h)
           /\ \A r \in Slots : requests'[r] = asking[r] \/ ~HeroHashes(r)'
<1>1. Now' = Now
  BY Unmoved
<1>2. route' = Path("verify", h)
  BY DEF Shows
<1>3. CASE h = NULL
  BY <1>1, <1>2, <1>3 DEF Shows, RequestsInv
<1>4. CASE h # NULL
  <2> DEFINE r == Verification(h, name, "form")
  <2>1. h \in Hashes /\ requests' = [asking EXCEPT ![s] = r]
    BY <1>4 DEF Documents, Shows
  <2>2. RequestOK(r, Now, overtaken) /\ r.kind = "verify"
    BY <2>1, VerificationAsked
  <2> HIDE DEF r
  <2>3. requests' = [t \in Slots |-> IF t = s THEN r ELSE asking[t]]
    BY <2>1
  <2> QED BY <1>1, <1>2, <2>2, <2>3 DEF RequestsInv, HeroHashes
<1> QED BY <1>3, <1>4

-----------------------------------------------------------------------------
(* The steps. *)

\* The gateway's own steps leave the pages alone.
LEMMA BlockStep ==
    ASSUME VerificationInv, NEW name \in Names \cup {"none"}, NEW h \in Documents,
           Gateway(Block(name, h))
    PROVE  VerificationInv'
<1> USE DEF Gateway
<1>1. ChainType' /\ Grows(Now, Now')
  BY StatusGrows DEF VerificationInv
<1>2. UNCHANGED <<requests, pages, history, overtaken>>
  BY DEF Block
<1>3. VerificationTypeOK'
  BY <1>2 DEF VerificationInv, VerificationTypeOK, pages
<1>4. RequestsInv'
  BY <1>1, <1>2, RequestStays DEF VerificationInv, RequestsInv
<1>5. HeroInv'
  BY <1>2 DEF VerificationInv, HeroInv, HeroHashes, pages
<1>6. ProofsInv'
  BY <1>1, <1>2, ProofsKept DEF VerificationInv, pages
<1> QED BY <1>1, <1>3, <1>4, <1>5, <1>6 DEF VerificationInv

\* A request of the gateway goes on; the landing page has none there.
LEMMA RequestStep ==
    ASSUME VerificationInv, NEW s \in Slots, NEW r, Goes(s, r),
           RequestOK(r, Now, overtaken), r \notin DigestRequest,
           UNCHANGED <<chain, pages, history, overtaken>>
    PROVE  VerificationInv'
<1>1. Now' = Now /\ Grows(Now, Now)
  BY Unmoved, NothingGrows
<1>2. RequestsInv' /\ requests'[s] = r /\ \A t \in Slots : t # s => requests'[t] = requests[t]
  <2>1. /\ requests' = [t \in Slots |-> requests'[t]]
        /\ requests'[s] = r
        /\ \A t \in Slots : t # s => requests'[t] = requests[t]
        /\ \A t \in Slots : RequestOK(requests'[t], Now, overtaken)
    BY <1>1, OneRequest DEF VerificationInv
  <2> QED BY <1>1, <2>1 DEF RequestsInv
<1>3. ~HeroHashes(s)'
  <2>1. \/ r \in VerifyRequest \/ r \in FailedRequest \/ r = NoRequest \/ IsQuery(r)
    BY DEF RequestOK
  <2>2. r.kind # "digest"
    BY <2>1 DEF VerifyRequest, FailedRequest, NoRequest, IsQuery
  <2> QED BY <1>2, <2>2 DEF HeroHashes
<1>4. HeroInv'
  BY <1>2, <1>3, HeroKept DEF VerificationInv, pages
<1>5. ProofsInv'
  BY <1>1, ProofsKept DEF VerificationInv, pages
<1>6. VerificationTypeOK' /\ ChainType'
  BY DEF VerificationInv, VerificationTypeOK, ChainType, pages
<1> QED BY <1>2, <1>4, <1>5, <1>6 DEF VerificationInv

LEMMA QueriesStep ==
    ASSUME VerificationInv, Gateway(Queries)
    PROVE  VerificationInv'
<1>0. PICK s \in Slots : \E from, to, names : Ask(s, from, to, names)
  BY DEF Gateway, Queries
<1>1. PICK from, to, names : Ask(s, from, to, names)
  BY <1>0
<1> DEFINE r == Query(from, to, names)
<1>2. IsQuery(r) /\ r \notin DigestRequest
  BY DEF Query, IsQuery, DigestRequest
<1>3. Goes(s, r) /\ UNCHANGED <<chain, pages, history, overtaken>>
  BY <1>1 DEF Ask, Gateway
<1> HIDE DEF r
<1> QED BY <1>2, <1>3, RequestStep DEF RequestOK

LEMMA ServingStep ==
    ASSUME VerificationInv, NEW s \in Slots, Gateway(Serve(s))
    PROVE  VerificationInv'
<1>1. UNCHANGED <<pages, history, overtaken>> /\ Serve(s)
  BY DEF Gateway
<1>2. PICK r : Goes(s, r) /\ RequestOK(r, Now, overtaken) /\ r \notin DigestRequest
  BY <1>1, ServeStep DEF VerificationInv
<1>3. UNCHANGED chain
  BY <1>1, ServeStep DEF VerificationInv
<1> QED BY <1>1, <1>2, <1>3, RequestStep

\* The slot of a step that leaves the other requests alone.
LEMMA SlotStep ==
    ASSUME RequestsInv, NEW s \in Slots, NEW r, Goes(s, r),
           overtaken => overtaken', RequestOK(r, Now, overtaken'), UNCHANGED chain
    PROVE  /\ RequestsInv' /\ requests'[s] = r /\ Grows(Now, Now')
           /\ \A t \in Slots : t # s => requests'[t] = requests[t]
<1>1. Now' = Now /\ Grows(Now, Now)
  BY Unmoved, NothingGrows
<1> DEFINE later == overtaken'
<1>2. overtaken => later /\ RequestOK(r, Now, later)
  OBVIOUS
<1> HIDE DEF later
<1>3. /\ requests' = [t \in Slots |-> requests'[t]]
      /\ requests'[s] = r
      /\ \A t \in Slots : t # s => requests'[t] = requests[t]
      /\ \A t \in Slots : RequestOK(requests'[t], Now, later)
  BY <1>1, <1>2, OneRequest DEF later
<1> QED BY <1>1, <1>3 DEF RequestsInv, later

-----------------------------------------------------------------------------
(* The landing page. *)

LEMMA ProcessFileStep ==
    ASSUME VerificationInv, NEW s \in Slots, NEW f \in Documents, processFile(s, f)
    PROVE  VerificationInv'
<1> DEFINE r == IF f = NULL THEN NoRequest ELSE Hashing(f, "hero")
<1>1. /\ Goes(s, r) /\ UNCHANGED <<chain, route, form, history>>
      /\ requests[s] = NoRequest
      /\ overtaken' = (overtaken \/ (f # NULL /\ hero.hashing))
      /\ hero' = [hero EXCEPT !.selectedFile = f, !.fileDigest = NULL, !.ready = FALSE,
                              !.hashing = (@ \/ f # NULL)]
  BY DEF processFile, IsFree
<1>2. RequestOK(r, Now, overtaken')
  BY DEF Hashing, RequestOK, DigestRequest, Documents
<1>3. overtaken => overtaken'
  BY <1>1
<1>4. /\ RequestsInv' /\ requests'[s] = r /\ Grows(Now, Now')
      /\ \A t \in Slots : t # s => requests'[t] = requests[t]
  <2> HIDE DEF r
  <2> QED BY <1>1, <1>2, <1>3, SlotStep DEF VerificationInv
<1>5. ProofsInv'
  BY <1>1, <1>3, <1>4, ProofsKept DEF VerificationInv
<1>6. VerificationTypeOK' /\ ChainType'
  <2> DEFINE hashing == hero.hashing \/ f # NULL
             ahead == overtaken \/ (f # NULL /\ hero.hashing)
  <2>1. hashing \in BOOLEAN /\ ahead \in BOOLEAN
    OBVIOUS
  <2>2. /\ overtaken' = ahead
        /\ hero' = [hero EXCEPT !.selectedFile = f, !.fileDigest = NULL, !.ready = FALSE,
                                !.hashing = hashing]
    BY <1>1 DEF VerificationInv, VerificationTypeOK
  <2> HIDE DEF hashing, ahead
  <2>3. hero' \in [mode : {"hash", "file"}, selectedFile : Documents, fileDigest : Documents,
                   ready : BOOLEAN, hashing : BOOLEAN]
    BY <2>1, <2>2 DEF VerificationInv, VerificationTypeOK, Documents
  <2> QED BY <1>1, <2>1, <2>2, <2>3 DEF VerificationInv, VerificationTypeOK, ChainType
<1>7. HeroInv'
  <2> SUFFICES ASSUME ~overtaken'
               PROVE  /\ hero'.fileDigest # NULL => hero'.selectedFile \in {NULL, hero'.fileDigest}
                      /\ \A t \in Slots : HeroHashes(t)' =>
                             /\ hero'.hashing /\ hero'.selectedFile \in {NULL, requests'[t].hash}
                             /\ \A q \in Slots : HeroHashes(q)' => q = t
    BY DEF HeroInv
  <2>1. /\ hero'.fileDigest = NULL /\ hero'.selectedFile = f
        /\ hero'.hashing = (hero.hashing \/ f # NULL)
    BY <1>1 DEF VerificationInv, VerificationTypeOK
  <2>2. CASE f = NULL
    <3>1. ~HeroHashes(s)'
      BY <1>4, <2>2 DEF HeroHashes, NoRequest
    <3> QED BY <1>1, <1>4, <2>1, <2>2, <3>1 DEF VerificationInv, HeroInv, HeroHashes
  <2>3. CASE f # NULL
    <3>1. ~overtaken /\ ~hero.hashing
      BY <1>1, <2>3
    <3>2. \A t \in Slots : t # s => ~HeroHashes(t)'
      BY <1>4, <3>1 DEF VerificationInv, HeroInv, HeroHashes
    <3>3. requests'[s].hash = f
      BY <1>4, <2>3 DEF Hashing
    <3> QED BY <2>1, <2>3, <3>2, <3>3
  <2> QED BY <2>2, <2>3
<1> QED BY <1>4, <1>5, <1>6, <1>7 DEF VerificationInv

\* A digest under way is one of a file.
LEMMA DigestUnderWay ==
    ASSUME RequestsInv, NEW s \in Slots, At(s, "digest", "hashing")
    PROVE  requests[s] \in DigestRequest
<1> DEFINE r == requests[s]
<1>1. RequestOK(r, Now, overtaken) /\ r.kind = "digest"
  BY DEF RequestsInv, At
<1> HIDE DEF r
<1>2. r \notin VerifyRequest /\ r \notin FailedRequest /\ r # NoRequest /\ ~IsQuery(r)
  BY <1>1 DEF VerifyRequest, FailedRequest, NoRequest, IsQuery
<1>3. r \in DigestRequest
  BY <1>1, <1>2 DEF RequestOK
<1> QED BY <1>3 DEF r

LEMMA HeroHashedStep ==
    ASSUME VerificationInv, NEW s \in Slots, HeroHashed(s)
    PROVE  VerificationInv'
<1> DEFINE f == requests[s].hash
<1>1. /\ Goes(s, NoRequest) /\ UNCHANGED <<chain, route, form, history, overtaken>>
      /\ HeroHashes(s)
      /\ \/ hero' = [hero EXCEPT !.fileDigest = f, !.ready = TRUE, !.hashing = FALSE]
         \/ hero' = [hero EXCEPT !.selectedFile = NULL, !.hashing = FALSE]
  BY DEF HeroHashed, HeroHashes, At
<1>2. f \in Hashes
  BY DigestUnderWay DEF VerificationInv, DigestRequest, HeroHashed
<1>3. RequestOK(NoRequest, Now, overtaken')
  BY DEF RequestOK
<1>4. /\ RequestsInv' /\ requests'[s] = NoRequest /\ Grows(Now, Now')
      /\ \A t \in Slots : t # s => requests'[t] = requests[t]
  BY <1>1, <1>3, SlotStep DEF VerificationInv
<1>5. ProofsInv'
  BY <1>1, <1>4, ProofsKept DEF VerificationInv
<1>6. VerificationTypeOK' /\ ChainType'
  BY <1>1, <1>2 DEF VerificationInv, VerificationTypeOK, ChainType, Documents
<1>7. HeroInv'
  <2> SUFFICES ASSUME ~overtaken
               PROVE  /\ hero'.fileDigest # NULL => hero'.selectedFile \in {NULL, hero'.fileDigest}
                      /\ \A t \in Slots : ~HeroHashes(t)'
    BY <1>1 DEF HeroInv
  <2>1. /\ hero.fileDigest # NULL => hero.selectedFile \in {NULL, hero.fileDigest}
        /\ hero.selectedFile \in {NULL, f}
        /\ \A t \in Slots : HeroHashes(t) => t = s
    BY <1>1 DEF VerificationInv, HeroInv
  <2>2. \A t \in Slots : ~HeroHashes(t)'
    <3>1. ~HeroHashes(s)'
      BY <1>4 DEF HeroHashes, NoRequest
    <3> QED BY <1>4, <2>1, <3>1 DEF HeroHashes
  <2>3. hero'.fileDigest # NULL => hero'.selectedFile \in {NULL, hero'.fileDigest}
    BY <1>1, <2>1 DEF VerificationInv, VerificationTypeOK
  <2> QED BY <2>2, <2>3
<1> QED BY <1>4, <1>5, <1>6, <1>7 DEF VerificationInv

\* Nothing but the mode and the readiness of the landing page changes.
LEMMA HeroOnlyStep ==
    ASSUME VerificationInv, UNCHANGED <<reads, route, form, history, overtaken>>,
           NEW mode \in {"hash", "file"}, NEW ready \in BOOLEAN,
           hero' = [hero EXCEPT !.mode = mode, !.ready = ready]
    PROVE  VerificationInv'
<1> USE DEF reads
<1>1. Now' = Now /\ Grows(Now, Now)
  BY Unmoved, NothingGrows
<1>2. RequestsInv'
  BY <1>1 DEF VerificationInv, RequestsInv
<1>3. ProofsInv'
  BY <1>1, ProofsKept DEF VerificationInv
<1>4. VerificationTypeOK' /\ ChainType'
  BY DEF VerificationInv, VerificationTypeOK, ChainType
<1>5. /\ hero'.fileDigest = hero.fileDigest /\ hero'.selectedFile = hero.selectedFile
      /\ hero'.hashing = hero.hashing
  BY DEF VerificationInv, VerificationTypeOK
<1>6. HeroInv'
  BY <1>5 DEF VerificationInv, HeroInv, HeroHashes
<1> QED BY <1>2, <1>3, <1>4, <1>6 DEF VerificationInv

LEMMA ChangeModeStep ==
    ASSUME VerificationInv, NEW mode \in {"hash", "file"}, changeMode(mode)
    PROVE  VerificationInv'
<1>1. PICK typed \in BOOLEAN :
          hero' = [hero EXCEPT !.mode = mode,
                      !.ready = IF mode = "hash" THEN typed
                                ELSE hero.selectedFile # NULL /\ hero.fileDigest # NULL]
  BY DEF changeMode
<1> DEFINE ready == IF mode = "hash" THEN typed
                    ELSE hero.selectedFile # NULL /\ hero.fileDigest # NULL
<1>2. ready \in BOOLEAN
  OBVIOUS
<1>3. hero' = [hero EXCEPT !.mode = mode, !.ready = ready]
  BY <1>1
<1>4. UNCHANGED <<reads, route, form, history, overtaken>>
  BY DEF changeMode
<1> HIDE DEF ready
<1> QED BY <1>2, <1>3, <1>4, HeroOnlyStep

LEMMA HashChangeStep ==
    ASSUME VerificationInv, NEW typed \in BOOLEAN, handleHashChange(typed)
    PROVE  VerificationInv'
<1>1. hero' = [hero EXCEPT !.mode = hero.mode, !.ready = typed]
  BY DEF handleHashChange, VerificationInv, VerificationTypeOK
<1>2. hero.mode \in {"hash", "file"}
  BY DEF VerificationInv, VerificationTypeOK
<1> QED BY <1>1, <1>2, HeroOnlyStep DEF handleHashChange

-----------------------------------------------------------------------------
(* Moving between the pages. *)

\* Both pages are new, and none of the requests left over is the landing page's.
LEMMA NewPages ==
    ASSUME VerificationInv, RequestsInv', \A s \in Slots : ~HeroHashes(s)',
           route' \in [path : {"home", "verify", "portal"}, hash : Documents],
           hero' = NewHero, NEW h \in Documents, form' = NewForm(h),
           UNCHANGED <<chain, history, overtaken>>
    PROVE  VerificationInv'
<1>1. HeroInv'
  BY HeroLeft
<1>2. Now' = Now /\ Grows(Now, Now)
  BY Unmoved, NothingGrows
<1>3. form'.result = NULL
  BY DEF NewForm
<1>4. ProofsInv'
  BY <1>2, <1>3, ProofsKept DEF VerificationInv
<1>5. /\ hero' \in [mode : {"hash", "file"}, selectedFile : Documents, fileDigest : Documents,
                    ready : BOOLEAN, hashing : BOOLEAN]
      /\ form' \in [selectedFile : Documents, result : Proof \cup {NULL}, loading : BOOLEAN]
  BY DEF NewHero, NewForm, Documents
<1>6. VerificationTypeOK' /\ ChainType'
  BY <1>5 DEF VerificationInv, VerificationTypeOK, ChainType
<1> QED BY <1>1, <1>4, <1>6 DEF VerificationInv

LEMMA ContinueStep ==
    ASSUME VerificationInv, NEW s \in Slots, NEW h \in Documents, handleContinue(s, h)
    PROVE  VerificationInv'
<1> DEFINE name == IF hero.mode = "file" THEN hero.selectedFile ELSE NULL
<1>1. /\ Shows(s, h, name, Leaving) /\ form' = NewForm(h) /\ hero' = NewHero
      /\ UNCHANGED <<chain, history, overtaken>>
      /\ h # NULL /\ (hero.mode = "file" => h = hero.fileDigest)
  BY DEF handleContinue
<1>2. name \in Documents
  BY DEF VerificationInv, VerificationTypeOK, Documents
<1>3. ~overtaken => (name \in Hashes => name = h)
  BY <1>1, ReadsAssumption DEF VerificationInv, HeroInv
<1>4. /\ Leaving = [r \in Slots |-> Leaving[r]]
      /\ \A r \in Slots : /\ RequestOK(Leaving[r], Now, overtaken)
                          /\ ~(Leaving[r].kind = "digest" /\ Leaving[r].caller = "hero")
  BY LeavingStep DEF VerificationInv
<1> HIDE DEF name
<1> DEFINE asking == Leaving
<1>5. /\ asking = [r \in Slots |-> asking[r]] /\ Shows(s, h, name, asking)
      /\ \A r \in Slots : RequestOK(asking[r], Now, overtaken)
  BY <1>1, <1>4
<1> HIDE DEF asking
<1>6. /\ RequestsInv' /\ route' = Path("verify", h)
      /\ \A r \in Slots : requests'[r] = asking[r] \/ ~HeroHashes(r)'
  BY <1>1, <1>2, <1>3, <1>5, ShowsStep
<1>7. \A r \in Slots : ~HeroHashes(r)'
  BY <1>4, <1>6 DEF HeroHashes, asking
<1>8. route' \in [path : {"home", "verify", "portal"}, hash : Documents]
  BY <1>6 DEF Path
<1> QED BY <1>1, <1>6, <1>7, <1>8, NewPages

LEMMA OpenLinkStep ==
    ASSUME VerificationInv, NEW s \in Slots, NEW h \in Documents, OpenLink(s, h)
    PROVE  VerificationInv'
<1> DEFINE asking == [r \in Slots |-> NoRequest]
<1>1. /\ Shows(s, h, NULL, asking) /\ form' = NewForm(h) /\ hero' = NewHero
      /\ UNCHANGED <<chain, history, overtaken>>
  BY DEF OpenLink
<1>2. /\ asking = [r \in Slots |-> asking[r]]
      /\ \A r \in Slots : RequestOK(asking[r], Now, overtaken) /\ asking[r].kind = "none"
  BY DEF RequestOK, NoRequest
<1>3. NULL \in Documents /\ NULL \notin Hashes
  BY ReadsAssumption DEF Documents
<1> HIDE DEF asking
<1>4. /\ RequestsInv' /\ route' = Path("verify", h)
      /\ \A r \in Slots : requests'[r] = asking[r] \/ ~HeroHashes(r)'
  BY <1>1, <1>2, <1>3, ShowsStep
<1>5. \A r \in Slots : ~HeroHashes(r)'
  BY <1>2, <1>4 DEF HeroHashes
<1>6. route' \in [path : {"home", "verify", "portal"}, hash : Documents]
  BY <1>4 DEF Path
<1> QED BY <1>1, <1>4, <1>5, <1>6, NewPages

LEMMA VisitStep ==
    ASSUME VerificationInv, NEW path \in {"home", "portal"}, Visit(path)
    PROVE  VerificationInv'
<1>1. /\ route' = Path(path, NULL) /\ requests' = Leaving
      /\ hero' = NewHero /\ form' = NewForm(NULL)
      /\ UNCHANGED <<chain, history, overtaken>>
  BY DEF Visit
<1>2. /\ Leaving = [r \in Slots |-> Leaving[r]]
      /\ \A r \in Slots : /\ RequestOK(Leaving[r], Now, overtaken)
                          /\ ~(Leaving[r].kind = "digest" /\ Leaving[r].caller = "hero")
  BY LeavingStep DEF VerificationInv
<1>3. Now' = Now
  BY <1>1, Unmoved
<1>4. RequestsInv' /\ \A r \in Slots : ~HeroHashes(r)'
  <2> DEFINE asking == Leaving
  <2>1. /\ requests' = asking /\ asking = [r \in Slots |-> asking[r]]
        /\ \A r \in Slots : /\ RequestOK(asking[r], Now, overtaken)
                            /\ ~(asking[r].kind = "digest" /\ asking[r].caller = "hero")
    BY <1>1, <1>2
  <2> HIDE DEF asking
  <2> QED BY <1>1, <1>3, <2>1 DEF RequestsInv, HeroHashes
<1>5. NULL \in Documents
  BY DEF Documents
<1>6. route' \in [path : {"home", "verify", "portal"}, hash : Documents]
  BY <1>1, <1>5 DEF Path
<1> QED BY <1>1, <1>4, <1>5, <1>6, NewPages

-----------------------------------------------------------------------------
(* The verification page. *)

\* The page may show nothing, or what it showed; the requests stay as they should.
LEMMA FormStep ==
    ASSUME VerificationInv, RequestsInv', HeroInv', UNCHANGED <<chain, history, overtaken>>,
           route' \in [path : {"home", "verify", "portal"}, hash : Documents],
           UNCHANGED hero,
           form' \in [selectedFile : Documents, result : {NULL, form.result}, loading : BOOLEAN]
    PROVE  VerificationInv'
<1>1. Now' = Now /\ Grows(Now, Now)
  BY Unmoved, NothingGrows
<1>2. ProofsInv'
  BY <1>1, ProofsKept DEF VerificationInv
<1>3. form' \in [selectedFile : Documents, result : Proof \cup {NULL}, loading : BOOLEAN]
  <2>1. form.result \in Proof \cup {NULL}
    BY DEF VerificationInv, VerificationTypeOK
  <2> QED BY <2>1
<1>4. VerificationTypeOK' /\ ChainType'
  BY <1>3 DEF VerificationInv, VerificationTypeOK, ChainType
<1> QED BY <1>2, <1>4 DEF VerificationInv

LEMMA HashInputStep ==
    ASSUME VerificationInv, setHashInput
    PROVE  VerificationInv'
<1>1. form' \in [selectedFile : Documents, result : {NULL, form.result}, loading : BOOLEAN]
  BY DEF setHashInput, VerificationInv, VerificationTypeOK
<1>2. UNCHANGED <<reads, route, hero, history, overtaken>>
  BY DEF setHashInput
<1>3. RequestsInv' /\ HeroInv'
  BY <1>2, Unmoved DEF reads, VerificationInv, RequestsInv, HeroInv, HeroHashes
<1> QED BY <1>1, <1>2, <1>3, FormStep DEF VerificationInv, VerificationTypeOK, reads

LEMMA SelectedFileStep ==
    ASSUME VerificationInv, NEW f \in Documents, setSelectedFile(f)
    PROVE  VerificationInv'
<1>1. form' \in [selectedFile : Documents, result : {NULL, form.result}, loading : BOOLEAN]
  BY DEF setSelectedFile, VerificationInv, VerificationTypeOK
<1>2. UNCHANGED <<reads, route, hero, history, overtaken>>
  BY DEF setSelectedFile
<1>3. RequestsInv' /\ HeroInv'
  BY <1>2, Unmoved DEF reads, VerificationInv, RequestsInv, HeroInv, HeroHashes
<1> QED BY <1>1, <1>2, <1>3, FormStep DEF VerificationInv, VerificationTypeOK, reads

\* A slot goes on to a request that is not the landing page's.
LEMMA FormSlotStep ==
    ASSUME VerificationInv, NEW s \in Slots, NEW r, Goes(s, r), RequestOK(r, Now, overtaken),
           ~(r.kind = "digest" /\ r.caller = "hero"), UNCHANGED <<chain, hero, overtaken>>
    PROVE  RequestsInv' /\ HeroInv'
<1>1. /\ RequestsInv' /\ requests'[s] = r
      /\ \A t \in Slots : t # s => requests'[t] = requests[t]
  BY SlotStep DEF VerificationInv
<1>2. \A t \in Slots : requests'[t] = requests[t] \/ ~HeroHashes(t)'
  BY <1>1 DEF HeroHashes
<1> QED BY <1>1, <1>2, HeroKept DEF VerificationInv

LEMMA VerifyFileStep ==
    ASSUME VerificationInv, NEW s \in Slots, handleVerifyFile(s)
    PROVE  VerificationInv'
<1> DEFINE r == Hashing(form.selectedFile, "form")
<1>1. Goes(s, r) /\ UNCHANGED <<chain, pages, history, overtaken>> /\ form.selectedFile # NULL
  BY DEF handleVerifyFile
<1>2. form.selectedFile \in Hashes
  BY <1>1 DEF VerificationInv, VerificationTypeOK, Documents
<1>3. RequestOK(r, Now, overtaken) /\ r.caller = "form"
  BY <1>2 DEF RequestOK, DigestRequest, Hashing
<1> HIDE DEF r
<1>4. RequestsInv' /\ HeroInv'
  BY <1>1, <1>3, FormSlotStep DEF pages
<1>5. form' \in [selectedFile : Documents, result : {NULL, form.result}, loading : BOOLEAN]
  BY <1>1 DEF pages, VerificationInv, VerificationTypeOK
<1> QED BY <1>1, <1>4, <1>5, FormStep DEF pages, VerificationInv, VerificationTypeOK

LEMMA FormHashedStep ==
    ASSUME VerificationInv, NEW s \in Slots, FormHashed(s)
    PROVE  VerificationInv'
<1> DEFINE f == requests[s].hash  caller == requests[s].caller
           r == Verification(f, f, caller)
<1>1. /\ \/ /\ Goes(s, r)
            /\ form' = IF caller = "form" THEN [form EXCEPT !.loading = TRUE] ELSE form
         \/ Goes(s, NoRequest) /\ UNCHANGED form
      /\ UNCHANGED <<chain, route, hero, history, overtaken>>
      /\ caller # "hero" /\ At(s, "digest", "hashing")
  BY DEF FormHashed
<1>2. requests[s] \in DigestRequest
  BY <1>1, DigestUnderWay DEF VerificationInv
<1>3. f \in Hashes /\ f \in Documents /\ caller \in {"form", "gone"}
  BY <1>1, <1>2 DEF DigestRequest, Documents
<1>4. RequestOK(r, Now, overtaken) /\ r.kind = "verify"
  BY <1>3, VerificationAsked
<1>5. RequestOK(NoRequest, Now, overtaken) /\ NoRequest.kind = "none"
  BY DEF RequestOK, NoRequest
<1>6. form' \in [selectedFile : Documents, result : {NULL, form.result}, loading : BOOLEAN]
  BY <1>1 DEF VerificationInv, VerificationTypeOK
<1> HIDE DEF r
<1>7. RequestsInv' /\ HeroInv'
  BY <1>1, <1>4, <1>5, FormSlotStep
<1> QED BY <1>1, <1>6, <1>7, FormStep DEF VerificationInv, VerificationTypeOK

LEMMA VerifyHashStep ==
    ASSUME VerificationInv, NEW s \in Slots, NEW h \in Documents, handleVerifyHash(s, h)
    PROVE  VerificationInv'
<1> DEFINE r == Verification(h, NULL, "form")
<1>1. /\ h \in Hashes /\ NULL \in Documents /\ NULL \notin Hashes
      /\ UNCHANGED <<chain, hero, history, overtaken>>
  BY ReadsAssumption DEF handleVerifyHash, Documents
<1>2. form' \in [selectedFile : Documents, result : {NULL, form.result}, loading : BOOLEAN]
  BY DEF handleVerifyHash, VerificationInv, VerificationTypeOK
<1>3. CASE Goes(s, r) /\ UNCHANGED route
  <2>1. RequestOK(r, Now, overtaken) /\ r.kind = "verify"
    BY <1>1, VerificationAsked
  <2> HIDE DEF r
  <2>2. RequestsInv' /\ HeroInv'
    BY <1>1, <1>3, <2>1, FormSlotStep
  <2> QED BY <1>1, <1>2, <1>3, <2>2, FormStep DEF VerificationInv, VerificationTypeOK
<1>4. CASE Shows(s, h, NULL, requests)
  <2>1. /\ RequestsInv' /\ route' = Path("verify", h)
        /\ \A t \in Slots : requests'[t] = requests[t] \/ ~HeroHashes(t)'
    BY <1>1, <1>4, ShowsStep DEF VerificationInv, RequestsInv
  <2>2. HeroInv'
    BY <1>1, <2>1, HeroKept DEF VerificationInv
  <2>3. route' \in [path : {"home", "verify", "portal"}, hash : Documents]
    BY <2>1 DEF Path
  <2> QED BY <1>1, <1>2, <2>1, <2>2, <2>3, FormStep
<1> QED BY <1>3, <1>4 DEF handleVerifyHash

\* The answer, labelled with what was asked, goes to the page and to the history.
LEMMA ReceiveAnswerStep ==
    ASSUME VerificationInv, NEW s \in Slots, ReceiveAnswer(s)
    PROVE  VerificationInv'
<1> DEFINE r == requests[s]  entry == proof(r)
           n == IF Len(history) < MaxEntries THEN Len(history) + 1 ELSE MaxEntries
<1>1. /\ At(s, "verify", "answered") /\ history' = SubSeq(<<entry>> \o history, 1, n)
      /\ form' = IF r.caller = "gone" THEN form ELSE [finished EXCEPT !.result = entry]
      /\ Goes(s, NoRequest) /\ UNCHANGED <<chain, route, hero, overtaken>>
  BY DEF ReceiveAnswer, addVerificationEntry
<1>2. r \in VerifyRequest /\ Sound(r, Now, overtaken)
  <2>1. RequestOK(r, Now, overtaken) /\ r.kind = "verify" /\ r.step = "answered"
    BY <1>1 DEF VerificationInv, RequestsInv, At
  <2> HIDE DEF r
  <2>2. r \notin DigestRequest /\ r \notin FailedRequest /\ r # NoRequest /\ ~IsQuery(r)
    BY <2>1 DEF DigestRequest, FailedRequest, NoRequest, IsQuery
  <2> QED BY <2>1, <2>2 DEF RequestOK
<1>3. r.step = "answered"
  BY <1>1 DEF At
<1>4. entry \in Proof /\ ProofOK(entry, Now, overtaken)
  <2> HIDE DEF r
  <2>1. entry.hash = r.hash /\ entry.name = r.name /\ entry.status = r.status
    BY DEF proof
  <2>2. r.status \in Status /\ Rank(r.status) <= Rank(Now[r.hash])
    BY <1>2, <1>3 DEF Sound
  <2>3. entry \in Proof
    BY <1>2, <2>2 DEF proof, Proof, VerifyRequest
  <2>4. ~overtaken => (r.name \in Hashes => r.name = r.hash)
    BY <1>2 DEF Sound
  <2> HIDE DEF entry
  <2> QED BY <2>1, <2>2, <2>3, <2>4 DEF ProofOK
<1>5. RequestOK(NoRequest, Now, overtaken) /\ NoRequest.kind = "none"
  BY DEF RequestOK, NoRequest
<1>6. RequestsInv' /\ HeroInv'
  BY <1>1, <1>5, FormSlotStep
<1>7. Now' = Now
  BY <1>1, Unmoved
<1> HIDE DEF r, entry
<1>8. /\ history \in Seq(Proof) /\ Len(history) <= MaxEntries /\ MaxEntries \in Nat \ {0}
      /\ Len(history) \in Nat
  BY VerificationAssumption DEF VerificationInv, VerificationTypeOK
<1>9. /\ <<entry>> \o history \in Seq(Proof) /\ Len(<<entry>> \o history) = Len(history) + 1
      /\ \A i \in 1 .. Len(history) + 1 :
             (<<entry>> \o history)[i] = IF i = 1 THEN entry ELSE history[i - 1]
  BY <1>4, <1>8
<1>10. n \in 1 .. Len(history) + 1 /\ n <= MaxEntries
  BY <1>8
<1> HIDE DEF n
<1> DEFINE longer == <<entry>> \o history
<1>11. longer \in Seq(Proof) /\ Len(longer) = Len(history) + 1
  BY <1>9
<1>12. /\ history' \in Seq(Proof) /\ Len(history') = n
       /\ \A i \in 1 .. n : history'[i] = longer[i]
  <2>1. history' = SubSeq(longer, 1, n)
    BY <1>1
  <2> HIDE DEF longer
  <2> QED BY <1>8, <1>10, <1>11, <2>1
<1>13. \A i \in DOMAIN history' : history'[i] \in {entry} \cup {history[j] : j \in DOMAIN history}
  <2> TAKE i \in DOMAIN history'
  <2>1. i \in 1 .. n /\ i \in 1 .. Len(history) + 1
    BY <1>8, <1>10, <1>12
  <2>2. history'[i] = IF i = 1 THEN entry ELSE history[i - 1]
    BY <1>9, <1>12, <2>1
  <2>3. i # 1 => i - 1 \in DOMAIN history
    BY <1>8, <2>1
  <2> QED BY <2>2, <2>3
<1>14. form'.result \in {form.result, entry}
  BY <1>1 DEF finished, VerificationInv, VerificationTypeOK
<1>15. ProofsInv'
  BY <1>1, <1>4, <1>7, <1>13, <1>14 DEF VerificationInv, ProofsInv
<1>16. VerificationTypeOK' /\ ChainType'
  <2>1. form' \in [selectedFile : Documents, result : Proof \cup {NULL}, loading : BOOLEAN]
    BY <1>1, <1>4 DEF finished, VerificationInv, VerificationTypeOK
  <2> QED BY <1>1, <1>10, <1>12, <2>1 DEF VerificationInv, VerificationTypeOK, ChainType
<1> QED BY <1>6, <1>15, <1>16 DEF VerificationInv

LEMMA ReceiveErrorStep ==
    ASSUME VerificationInv, NEW s \in Slots, ReceiveError(s)
    PROVE  VerificationInv'
<1>1. Goes(s, NoRequest) /\ UNCHANGED <<chain, route, hero, history, overtaken>>
  BY DEF ReceiveError
<1>2. form' \in [selectedFile : Documents, result : {NULL, form.result}, loading : BOOLEAN]
  BY DEF ReceiveError, finished, VerificationInv, VerificationTypeOK
<1>3. RequestOK(NoRequest, Now, overtaken) /\ NoRequest.kind = "none"
  BY DEF RequestOK, NoRequest
<1>4. RequestsInv' /\ HeroInv'
  BY <1>1, <1>3, FormSlotStep
<1> QED BY <1>1, <1>2, <1>4, FormStep DEF VerificationInv, VerificationTypeOK

LEMMA ClearStep ==
    ASSUME VerificationInv, clearVerificationHistory
    PROVE  VerificationInv'
<1>1. history' = <<>> /\ UNCHANGED <<reads, pages, overtaken>>
  BY DEF clearVerificationHistory
<1>2. Now' = Now
  BY <1>1, Unmoved DEF reads
<1>3. RequestsInv' /\ HeroInv' /\ ProofsInv'
  BY <1>1, <1>2 DEF reads, pages, VerificationInv, RequestsInv, HeroInv, HeroHashes, ProofsInv
<1>4. VerificationTypeOK' /\ ChainType'
  BY <1>1, VerificationAssumption DEF reads, pages, VerificationInv, VerificationTypeOK, ChainType
<1> QED BY <1>3, <1>4 DEF VerificationInv

LEMMA ProgressStep ==
    ASSUME VerificationInv, NEW s \in Slots, Progress(s)
    PROVE  VerificationInv'
BY ServingStep, HeroHashedStep, FormHashedStep, ReceiveAnswerStep, ReceiveErrorStep DEF Progress

-----------------------------------------------------------------------------

LEMMA VerificationStarts == VerificationInit => VerificationInv
<1> SUFFICES ASSUME VerificationInit
             PROVE  VerificationInv
  OBVIOUS
<1> USE DEF VerificationInit, ReadsInit
<1>1. VerificationTypeOK
  <2>1. NULL \in Documents
    BY DEF Documents
  <2>2. route \in [path : {"home", "verify", "portal"}, hash : Documents]
    BY <2>1 DEF Path
  <2>3. hero \in [mode : {"hash", "file"}, selectedFile : Documents, fileDigest : Documents,
                 ready : BOOLEAN, hashing : BOOLEAN]
    BY <2>1 DEF NewHero
  <2>4. form \in [selectedFile : Documents, result : Proof \cup {NULL}, loading : BOOLEAN]
    BY <2>1 DEF NewForm
  <2>5. history \in Seq(Proof) /\ Len(history) <= MaxEntries
    BY VerificationAssumption
  <2> QED BY <2>2, <2>3, <2>4, <2>5 DEF VerificationTypeOK
<1>2. ChainType
  <2>1. Deployment \in [name : Names \cup {"none"}, hash : Documents]
    BY DEF Deployment, Documents
  <2> QED BY <2>1 DEF ChainType
<1>3. RequestsInv
  BY DEF RequestsInv, RequestOK
<1>4. HeroInv
  BY DEF HeroInv, HeroHashes, NewHero, NoRequest
<1>5. ProofsInv
  BY DEF ProofsInv, NewForm
<1> QED BY <1>1, <1>2, <1>3, <1>4, <1>5 DEF VerificationInv

LEMMA VerificationStep == VerificationInv /\ [VerificationNext]_vars => VerificationInv'
<1> SUFFICES ASSUME VerificationInv, [VerificationNext]_vars
             PROVE  VerificationInv'
  OBVIOUS
<1>1. CASE \E name \in Names \cup {"none"}, h \in Documents : Gateway(Block(name, h))
  BY <1>1, BlockStep
<1>2. CASE Gateway(Queries)
  BY <1>2, QueriesStep
<1>3. CASE \E s \in Slots : Progress(s) \/ handleVerifyFile(s)
  BY <1>3, ProgressStep, VerifyFileStep
<1>4. CASE \E s \in Slots, h \in Documents :
               processFile(s, h) \/ OpenLink(s, h) \/ handleContinue(s, h) \/ handleVerifyHash(s, h)
  BY <1>4, ProcessFileStep, OpenLinkStep, ContinueStep, VerifyHashStep
<1>5. CASE \/ \E mode \in {"hash", "file"} : changeMode(mode)
           \/ \E typed \in BOOLEAN : handleHashChange(typed)
  BY <1>5, ChangeModeStep, HashChangeStep
<1>6. CASE setHashInput \/ \E f \in Documents : setSelectedFile(f)
  BY <1>6, HashInputStep, SelectedFileStep
<1>7. CASE \E path \in {"home", "portal"} : Visit(path)
  BY <1>7, VisitStep
<1>8. CASE clearVerificationHistory
  BY <1>8, ClearStep
<1>9. CASE UNCHANGED vars
  <2>1. UNCHANGED <<chain, requests, route, hero, form, history, overtaken>>
    BY <1>9 DEF vars, reads, pages
  <2>2. Now' = Now
    BY <2>1, Unmoved
  <2> QED BY <2>1, <2>2 DEF VerificationInv, VerificationTypeOK, ChainType, RequestsInv,
                             HeroInv, HeroHashes, ProofsInv
<1> QED BY <1>1, <1>2, <1>3, <1>4, <1>5, <1>6, <1>7, <1>8, <1>9 DEF VerificationNext, Gateway

LEMMA VerificationAlways == VerificationSpec => []VerificationInv
BY VerificationStarts, VerificationStep, PTL DEF VerificationSpec

\* The pages and the history keep their types, for any documents, and the history its
\* bound.
THEOREM VerificationTypeCorrect == VerificationSpec => []VerificationTypeOK
BY VerificationAlways, PTL DEF VerificationInv

LEMMA AnswersSound == VerificationInv => AnswersAgree
<1> SUFFICES ASSUME VerificationInv, NEW s \in Slots, At(s, "verify", "answered")
             PROVE  /\ Rank(requests[s].status) <= Rank(requests[s].record)
                    /\ Rank(requests[s].record) <= Rank(StatusNow(requests[s].hash))
  BY DEF AnswersAgree
<1> DEFINE r == requests[s]
<1>1. RequestOK(r, Now, overtaken) /\ r.kind = "verify" /\ r.step = "answered"
  BY DEF VerificationInv, RequestsInv, At
<1> HIDE DEF r
<1>2. r \notin DigestRequest /\ r \notin FailedRequest /\ r # NoRequest /\ ~IsQuery(r)
  BY <1>1 DEF DigestRequest, FailedRequest, NoRequest, IsQuery
<1>3. r \in VerifyRequest /\ Sound(r, Now, overtaken)
  BY <1>1, <1>2 DEF RequestOK
<1>4. Now[r.hash] = StatusNow(r.hash)
  BY <1>3 DEF VerifyRequest, Now
<1> QED BY <1>1, <1>3, <1>4 DEF Sound, r

\* The two halves of an answer agree, however many blocks come between the two reads.
THEOREM AnswersAreWhole == VerificationSpec => []AnswersAgree
BY VerificationAlways, AnswersSound, PTL

LEMMA ProofsSound == VerificationInv => ProofsAreTrue /\ ProofsAreNamed
<1> SUFFICES ASSUME VerificationInv
             PROVE  ProofsAreTrue /\ ProofsAreNamed
  OBVIOUS
<1>1. \A p \in Proofs : p \in Proof /\ ProofOK(p, Now, overtaken)
  BY DEF Proofs, VerificationInv, VerificationTypeOK, ProofsInv
<1>2. \A p \in Proofs : Now[p.hash] = StatusNow(p.hash)
  BY <1>1 DEF Now, Proof
<1> QED BY <1>1, <1>2 DEF ProofsAreTrue, ProofsAreNamed, ProofOK

\* No page and no history says of a hash what the registry has not said of it, whatever
\* page the answers arrive on.
THEOREM ProofsStayTrue == VerificationSpec => []ProofsAreTrue
BY VerificationAlways, ProofsSound, PTL

\* A file's name stands for its own hash, unless a file was chosen on the landing page
\* while another was hashed.
THEOREM ProofsBearTheirNames == VerificationSpec => []ProofsAreNamed
BY VerificationAlways, ProofsSound, PTL

-----------------------------------------------------------------------------
(* The event queries.  A query under way has every event of its range up to the block  *)
(* where it goes on, of confirmed blocks only; they stay as they are.                   *)

Blocks == [name : Names \cup {"none"}, hash : Documents]

Logs(blocks, from, to, names) ==
    Selected(blocks, {i \in from .. to : blocks[i].name \in names})

QueryRequest ==
    [kind : {"events"}, step : {"sent", "fetching", "answered", "refused"}, caller : {"page"},
     from : Int \cup {NULL}, to : Int \cup {NULL}, names : SUBSET Names,
     next : Int \cup {NULL}, events : Seq(Blocks)]

\* What a query has read of these blocks, up to one of them.
ReadUpTo(r, last, blocks) ==
    /\ r.from \in Nat \ {0} /\ last \in Nat /\ last <= Len(blocks) - Confirmations
    /\ r.events = Logs(blocks, r.from, last, r.names)

QueryOK(r, blocks) ==
    \/ r.step = "failed"
    \/ /\ r \in QueryRequest
       /\ r.step = "sent" => r.events = <<>>
       /\ r.step = "fetching" =>
              /\ r.next \in Nat /\ r.to \in Nat /\ r.from <= r.next /\ r.next <= r.to
              /\ r.to <= Len(blocks) - Confirmations /\ ReadUpTo(r, r.next - 1, blocks)
       /\ r.step = "answered" =>
              \/ r.from \in Int /\ r.to \in Int /\ r.from > r.to /\ r.events = <<>>
              \/ ReadUpTo(r, r.to, blocks)

EventsInv == \A s \in Slots : requests[s].kind = "events" => QueryOK(requests[s], chain)

LEMMA LogsOfNothing ==
    ASSUME NEW blocks, NEW names, NEW from \in Int, NEW to \in Int, from > to
    PROVE  Logs(blocks, from, to, names) = <<>>
<1>1. {i \in from .. to : blocks[i].name \in names} = {}
  OBVIOUS
<1>2. Cardinality({}) = 0
  BY FS_EmptySet
<1>3. Selected(blocks, {}) = <<>>
  BY <1>2 DEF Selected
<1> QED BY <1>1, <1>3 DEF Logs

\* The logs of a chunk come after those of the blocks before it.
LEMMA LogsUnion ==
    ASSUME NEW S, NEW blocks \in Seq(S), NEW names, NEW from \in Nat \ {0},
           NEW next \in Nat, NEW to \in Nat, from <= next, next <= to, to <= Len(blocks)
    PROVE  Logs(blocks, from, to, names) =
               Logs(blocks, from, next - 1, names) \o Logs(blocks, next, to, names)
<1> DEFINE A == {i \in from .. next - 1 : blocks[i].name \in names}
           B == {i \in next .. to : blocks[i].name \in names}
<1>1. A \in SUBSET DOMAIN blocks /\ B \in SUBSET DOMAIN blocks /\ \A i \in A, j \in B : i < j
  OBVIOUS
<1>2. {i \in from .. to : blocks[i].name \in names} = A \cup B
  OBVIOUS
<1> HIDE DEF A, B
<1>3. Selected(blocks, A \cup B) = Selected(blocks, A) \o Selected(blocks, B)
  BY <1>1, SelectedUnion
<1> QED BY <1>2, <1>3 DEF Logs, A, B

\* A block appended is not in a range that ended before it.
LEMMA LogsStay ==
    ASSUME NEW blocks \in Seq(Blocks), NEW block \in Blocks, NEW names, NEW from \in Nat \ {0},
           NEW to \in Nat, to <= Len(blocks)
    PROVE  Logs(Append(blocks, block), from, to, names) = Logs(blocks, from, to, names)
<1> DEFINE longer == Append(blocks, block)
           places == {i \in from .. to : blocks[i].name \in names}
<1>1. \A i \in from .. to : longer[i] = blocks[i]
  OBVIOUS
<1> HIDE DEF longer
<1>2. {i \in from .. to : longer[i].name \in names} = places
  BY <1>1
<1>3. places \in SUBSET (1 .. to) /\ \A i \in places : longer[i] = blocks[i]
  BY <1>1
<1> HIDE DEF places
<1>4. Selected(longer, places) = Selected(blocks, places)
  BY <1>3, SelectedSame
<1> QED BY <1>2, <1>4 DEF Logs, longer, places

LEMMA LogsType ==
    ASSUME NEW blocks \in Seq(Blocks), NEW names, NEW from \in Nat \ {0},
           NEW to \in Nat, to <= Len(blocks)
    PROVE  Logs(blocks, from, to, names) \in Seq(Blocks)
<1>1. {i \in from .. to : blocks[i].name \in names} \in SUBSET DOMAIN blocks
  OBVIOUS
<1> QED BY <1>1, SelectedFacts DEF Logs

\* New blocks change nothing of what was read.
LEMMA QueryStays ==
    ASSUME NEW blocks \in Seq(Blocks), NEW block \in Blocks, NEW r, QueryOK(r, blocks)
    PROVE  QueryOK(r, Append(blocks, block))
<1> DEFINE longer == Append(blocks, block)
<1>1. Len(blocks) \in Nat /\ Len(longer) = Len(blocks) + 1 /\ Confirmations \in Nat
  BY ReadsAssumption
<1>2. \A last : ReadUpTo(r, last, blocks) => ReadUpTo(r, last, longer)
  <2> SUFFICES ASSUME NEW last, ReadUpTo(r, last, blocks)
               PROVE  ReadUpTo(r, last, longer)
    OBVIOUS
  <2>1. r.from \in Nat \ {0} /\ last \in Nat /\ last <= Len(blocks)
    BY <1>1 DEF ReadUpTo
  <2>2. Logs(longer, r.from, last, r.names) = Logs(blocks, r.from, last, r.names)
    BY <2>1, LogsStay
  <2> HIDE DEF longer
  <2> QED BY <1>1, <2>2 DEF ReadUpTo
<1> HIDE DEF longer
<1>3. \A to \in Nat : to <= Len(blocks) - Confirmations => to <= Len(longer) - Confirmations
  BY <1>1
<1>4. QueryOK(r, longer)
  BY <1>2, <1>3 DEF QueryOK
<1> QED BY <1>4 DEF longer

\* A request of another kind takes a slot, or none does.
LEMMA QueriesKept ==
    ASSUME EventsInv, UNCHANGED chain,
           \A s \in Slots : requests'[s] = requests[s] \/ requests'[s].kind # "events"
    PROVE  EventsInv'
BY DEF EventsInv

\* A request goes on.
LEMMA QuerySlot ==
    ASSUME RequestsInv, EventsInv, NEW s \in Slots, NEW r, Goes(s, r), UNCHANGED chain,
           r.kind = "events" => QueryOK(r, chain)
    PROVE  EventsInv'
<1>1. requests'[s] = r /\ \A t \in Slots : t # s => requests'[t] = requests[t]
  BY DEF RequestsInv, Goes
<1> QED BY <1>1 DEF EventsInv

LEMMA HeadFacts ==
    ASSUME NEW n \in Nat
    PROVE  /\ getConfirmedHead(n) \in Nat
           /\ getConfirmedHead(n) > 0 => getConfirmedHead(n) = n - Confirmations
BY ReadsAssumption DEF getConfirmedHead

\* The bounds asked for, or those there are.
LEMMA RangeFacts ==
    ASSUME NEW asked \in Int \cup {NULL}, NEW upTo \in Int \cup {NULL}, NEW head \in Nat
    PROVE  LET from == IF asked = NULL THEN StartBlock ELSE asked
               to == IF upTo = NULL \/ upTo > head THEN head ELSE upTo
           IN  from \in Int /\ to \in Int /\ to <= head
<1>1. asked # NULL => asked \in Int
  OBVIOUS
<1>2. CASE upTo = NULL
  BY <1>1, <1>2 DEF StartBlock
<1>3. CASE upTo \in Int
  BY <1>1, <1>3 DEF StartBlock
<1> QED BY <1>2, <1>3

\* The bounds of a query: it is answered at once only if its range is empty.
LEMMA FetchStep ==
    ASSUME ChainType, RequestsInv, EventsInv, NEW s \in Slots, fetchEvents(s)
    PROVE  EventsInv'
<1> DEFINE request == requests[s]  head == getConfirmedHead(Len(chain))
           from == IF request.from = NULL THEN StartBlock ELSE request.from
           to == IF request.to = NULL \/ request.to > head THEN head ELSE request.to
           range == [request EXCEPT !.from = from, !.to = to]
           r == normalizeBlockRange(request, head)
<1>1. Goes(s, r) /\ UNCHANGED chain /\ request.kind = "events" /\ request.step = "sent"
  BY DEF fetchEvents, At
<1>2. request \in QueryRequest /\ request.events = <<>>
  BY <1>1 DEF EventsInv, QueryOK
<1>3. /\ head \in Nat /\ (head > 0 => head = Len(chain) - Confirmations)
      /\ Len(chain) \in Nat /\ Confirmations \in Nat
  <2>1. Len(chain) \in Nat /\ Confirmations \in Nat
    BY ReadsAssumption DEF ChainType
  <2> QED BY <2>1, HeadFacts
<1> HIDE DEF request, head
<1>4. from \in Int /\ to \in Int /\ to <= head
  <2>1. request.from \in Int \cup {NULL} /\ request.to \in Int \cup {NULL}
    BY <1>2 DEF QueryRequest
  <2>2. head \in Nat
    BY <1>3
  <2> QED BY <2>1, <2>2, RangeFacts
<1> HIDE DEF from, to
<1>5. range \in QueryRequest /\ range.events = <<>> /\ range.from = from /\ range.to = to
  BY <1>2, <1>4 DEF QueryRequest
<1>6. r = CASE from < StartBlock -> [request EXCEPT !.step = "failed"]
            [] from >= StartBlock /\ from > to -> [range EXCEPT !.step = "answered"]
            [] from >= StartBlock /\ to - from + 1 > EventMaxRange ->
                   [request EXCEPT !.step = "refused"]
            [] OTHER -> [range EXCEPT !.step = "fetching", !.next = from]
  BY DEF normalizeBlockRange, from, to
<1> HIDE DEF range, r
<1>7. CASE from < StartBlock
  <2>1. r = [request EXCEPT !.step = "failed"]
    BY <1>4, <1>6, <1>7 DEF StartBlock
  <2>2. r.step = "failed"
    BY <1>2, <2>1 DEF QueryRequest
  <2> QED BY <1>1, <2>2, QuerySlot DEF QueryOK
<1>8. CASE r = [range EXCEPT !.step = "answered"] /\ from > to
  <2>1. r \in QueryRequest /\ r.step = "answered" /\ r.from = from /\ r.to = to /\ r.events = <<>>
    BY <1>5, <1>8 DEF QueryRequest
  <2>2. QueryOK(r, chain)
    BY <1>4, <1>8, <2>1 DEF QueryOK
  <2> QED BY <1>1, <2>2, QuerySlot
<1>9. CASE r = [request EXCEPT !.step = "refused"]
  <2>1. r \in QueryRequest /\ r.step = "refused"
    BY <1>2, <1>9 DEF QueryRequest
  <2>2. QueryOK(r, chain)
    BY <2>1 DEF QueryOK
  <2> QED BY <1>1, <2>2, QuerySlot
<1>10. CASE /\ r = [range EXCEPT !.step = "fetching", !.next = from]
            /\ from >= StartBlock /\ from <= to
  <2>1. /\ r \in QueryRequest /\ r.step = "fetching" /\ r.from = from /\ r.to = to
        /\ r.events = <<>> /\ r.next = from
    BY <1>4, <1>5, <1>10 DEF QueryRequest
  <2>2. /\ from \in Nat \ {0} /\ to \in Nat /\ to <= Len(chain) - Confirmations
        /\ from - 1 \in Nat /\ from - 1 <= Len(chain) - Confirmations /\ from > from - 1
    <3>1. from >= 1 /\ from <= to /\ from \in Int /\ to \in Int /\ to <= head
      BY <1>4, <1>10 DEF StartBlock
    <3>2. head \in Nat /\ (head > 0 => head = Len(chain) - Confirmations)
      BY <1>3
    <3>3. Len(chain) \in Nat /\ Confirmations \in Nat
      BY <1>3
    <3> QED BY <3>1, <3>2, <3>3
  <2>3. Logs(chain, from, from - 1, r.names) = <<>>
    BY <2>2, LogsOfNothing
  <2>4. ReadUpTo(r, r.next - 1, chain)
    BY <2>1, <2>2, <2>3 DEF ReadUpTo
  <2>5. QueryOK(r, chain)
    BY <1>10, <2>1, <2>2, <2>4 DEF QueryOK
  <2> QED BY <1>1, <2>5, QuerySlot
<1>11. EventMaxRange \in Nat
  BY ReadsAssumption
<1> QED BY <1>4, <1>6, <1>7, <1>8, <1>9, <1>10, <1>11 DEF StartBlock

\* One chunk more.
LEMMA ChunkStep ==
    ASSUME ChainType, RequestsInv, EventsInv, NEW s \in Slots, queryEvents(s)
    PROVE  EventsInv'
<1> DEFINE request == requests[s]
           last == request.next + EventChunkSize - 1
           chunkTo == IF last < request.to THEN last ELSE request.to
           logs == EventsIn(request.next, chunkTo, request.names)
           read == request.events \o logs
           step == IF chunkTo = request.to THEN "answered" ELSE "fetching"
           r == [request EXCEPT !.events = read, !.next = nextChunk(chunkTo), !.step = step]
<1>1. Goes(s, r) /\ UNCHANGED chain /\ request.kind = "events" /\ request.step = "fetching"
  BY DEF queryEvents, At
<1>2. /\ request \in QueryRequest
      /\ request.next \in Nat /\ request.to \in Nat /\ request.from <= request.next
      /\ request.next <= request.to /\ request.to <= Len(chain) - Confirmations
      /\ ReadUpTo(request, request.next - 1, chain)
  BY <1>1 DEF EventsInv, QueryOK
<1>3. /\ Len(chain) \in Nat /\ Confirmations \in Nat /\ EventChunkSize \in Nat \ {0}
      /\ chain \in Seq(Blocks)
  BY ReadsAssumption DEF ChainType, Blocks
<1>4. /\ request.from \in Nat \ {0}
      /\ request.events = Logs(chain, request.from, request.next - 1, request.names)
  BY <1>2 DEF ReadUpTo
<1> HIDE DEF request
<1>5. /\ chunkTo \in Nat /\ request.next <= chunkTo /\ chunkTo <= request.to
      /\ chunkTo <= Len(chain) - Confirmations /\ chunkTo <= Len(chain)
      /\ nextChunk(chunkTo) = chunkTo + 1
  BY <1>2, <1>3 DEF nextChunk
<1> HIDE DEF chunkTo
<1>6. logs = Logs(chain, request.next, chunkTo, request.names)
  BY DEF EventsIn, Logs
<1> HIDE DEF logs
<1>7. read = Logs(chain, request.from, chunkTo, request.names)
  <2>1. Logs(chain, request.from, chunkTo, request.names) =
            Logs(chain, request.from, request.next - 1, request.names)
                \o Logs(chain, request.next, chunkTo, request.names)
    <3> DEFINE from == request.from  next == request.next  names == request.names
    <3>1. from \in Nat \ {0} /\ next \in Nat /\ from <= next
      BY <1>2, <1>4
    <3>2. next <= chunkTo /\ chunkTo \in Nat /\ chunkTo <= Len(chain)
      BY <1>5
    <3> HIDE DEF from, next, names
    <3>0. chain \in Seq(Blocks)
      BY <1>3
    <3>3. Logs(chain, from, chunkTo, names) =
              Logs(chain, from, next - 1, names) \o Logs(chain, next, chunkTo, names)
      BY <3>0, <3>1, <3>2, LogsUnion
    <3> QED BY <3>3 DEF from, next, names
  <2> QED BY <1>4, <1>6, <2>1
<1>8. read \in Seq(Blocks)
  BY <1>3, <1>4, <1>5, <1>7, LogsType
<1> HIDE DEF read
<1>9. step \in {"answered", "fetching"}
  OBVIOUS
<1> HIDE DEF step
<1>10. nextChunk(chunkTo) \in Int
  BY <1>5
<1>11. /\ r \in QueryRequest /\ r.step = step /\ r.from = request.from /\ r.to = request.to
       /\ r.names = request.names /\ r.events = read /\ r.next = chunkTo + 1
  BY <1>2, <1>5, <1>8, <1>9, <1>10 DEF QueryRequest
<1> HIDE DEF r
<1>12. ReadUpTo(r, chunkTo, chain)
  BY <1>4, <1>5, <1>7, <1>11 DEF ReadUpTo
<1>13. CASE chunkTo = request.to
  <2>1. step = "answered"
    BY <1>13 DEF step
  <2>2. QueryOK(r, chain)
    BY <1>11, <1>12, <1>13, <2>1 DEF QueryOK
  <2> QED BY <1>1, <2>2, QuerySlot
<1>14. CASE chunkTo # request.to
  <2>1. step = "fetching"
    BY <1>14 DEF step
  <2>2. r.next - 1 = chunkTo /\ r.next \in Nat /\ r.from <= r.next /\ r.next <= r.to
    BY <1>2, <1>4, <1>5, <1>11, <1>14
  <2>3. QueryOK(r, chain)
    BY <1>2, <1>11, <1>12, <2>1, <2>2 DEF QueryOK
  <2> QED BY <1>1, <2>3, QuerySlot
<1> QED BY <1>13, <1>14

\* A verification is no query, and a failure says nothing.
LEMMA ServeQueries ==
    ASSUME VerificationInv, EventsInv, NEW s \in Slots, Serve(s)
    PROVE  EventsInv'
<1>1. RequestsInv /\ ChainType
  BY DEF VerificationInv
<1>2. CASE verifyCertificate(s)
  <2>1. PICK r \in VerifyRequest : Goes(s, r)
    BY <1>1, <1>2, VerifyStep
  <2>2. r.kind = "verify" /\ UNCHANGED chain
    BY <1>2 DEF VerifyRequest, verifyCertificate
  <2> QED BY <1>1, <2>1, <2>2, QuerySlot
<1>3. CASE fetchEvents(s)
  BY <1>1, <1>3, FetchStep
<1>4. CASE queryEvents(s)
  BY <1>1, <1>4, ChunkStep
<1>5. CASE ReceiveEvents(s)
  <2>1. Goes(s, NoRequest) /\ NoRequest.kind = "none" /\ UNCHANGED chain
    BY <1>5 DEF ReceiveEvents, NoRequest
  <2> QED BY <1>1, <2>1, QuerySlot
<1>6. CASE RequestFails(s)
  <2> DEFINE r == [kind |-> requests[s].kind, step |-> "failed", caller |-> requests[s].caller]
  <2>1. Goes(s, r) /\ UNCHANGED chain /\ QueryOK(r, chain)
    BY <1>6 DEF RequestFails, QueryOK
  <2> HIDE DEF r
  <2> QED BY <1>1, <2>1, QuerySlot
<1> QED BY <1>2, <1>3, <1>4, <1>5, <1>6 DEF Serve

\* A page that is left takes its query with it.
LEMMA LeavingQueries ==
    ASSUME RequestsInv, NEW s \in Slots
    PROVE  Leaving[s].kind # "events"
<1> DEFINE r == requests[s]
<1>1. RequestOK(r, Now, overtaken)
  BY DEF RequestsInv
<1>2. Leaving[s] = IF r.kind = "events" \/ (r.kind = "digest" /\ r.caller = "hero")
                   THEN NoRequest ELSE Orphaned(r)
  BY DEF Leaving
<1> HIDE DEF r
<1>3. CASE Leaving[s] = NoRequest
  BY <1>3 DEF NoRequest
<1>4. CASE Leaving[s] = Orphaned(r) /\ r.kind # "events"
  <2>1. CASE r \in VerifyRequest \cup DigestRequest \cup FailedRequest
    <3>1. [r EXCEPT !.caller = "gone"].kind = r.kind
      BY <2>1 DEF VerifyRequest, DigestRequest, FailedRequest
    <3> QED BY <1>4, <3>1 DEF Orphaned
  <2>2. CASE r = NoRequest
    BY <1>4, <2>2 DEF Orphaned, NoRequest
  <2> QED BY <1>1, <1>4, <2>1, <2>2 DEF RequestOK, IsQuery
<1> QED BY <1>2, <1>3, <1>4

LEMMA ShowsQueries ==
    ASSUME EventsInv, UNCHANGED chain, NEW s \in Slots, NEW h, NEW name, NEW asking,
           asking = [r \in Slots |-> asking[r]],
           \A r \in Slots : asking[r] = requests[r] \/ asking[r].kind # "events",
           Shows(s, h, name, asking)
    PROVE  EventsInv'
<1> DEFINE r == Verification(h, name, "form")
<1>1. r.kind = "verify"
  BY DEF Verification
<1>2. requests' = asking \/ requests' = [asking EXCEPT ![s] = r]
  BY DEF Shows
<1> HIDE DEF r
<1>3. requests' = asking \/ requests' = [t \in Slots |-> IF t = s THEN r ELSE asking[t]]
  BY <1>2
<1>4. \A t \in Slots : requests'[t] = requests[t] \/ requests'[t].kind # "events"
  BY <1>1, <1>3
<1> QED BY <1>4, QueriesKept

\* The pages make requests of other kinds, and leave those that there are or drop them.
LEMMA PageQueries ==
    ASSUME VerificationInv, EventsInv, NEW s \in Slots, NEW h \in Documents,
           \/ processFile(s, h) \/ OpenLink(s, h) \/ handleContinue(s, h)
           \/ handleVerifyHash(s, h) \/ handleVerifyFile(s) \/ HeroHashed(s)
           \/ FormHashed(s) \/ ReceiveAnswer(s) \/ ReceiveError(s)
    PROVE  EventsInv'
<1>1. RequestsInv
  BY DEF VerificationInv
<1>2. /\ NoRequest.kind = "none"
      /\ \A f, caller : Hashing(f, caller).kind = "digest"
      /\ \A f, name, caller : Verification(f, name, caller).kind = "verify"
  BY DEF NoRequest, Hashing, Verification
<1>3. CASE UNCHANGED chain /\ \E r : Goes(s, r) /\ r.kind # "events"
  BY <1>1, <1>3, QuerySlot
<1>4. CASE OpenLink(s, h)
  <2> DEFINE asking == [r \in Slots |-> NoRequest]
  <2>1. /\ UNCHANGED chain /\ Shows(s, h, NULL, asking) /\ asking = [r \in Slots |-> asking[r]]
        /\ \A r \in Slots : asking[r].kind # "events"
    BY <1>2, <1>4 DEF OpenLink
  <2> HIDE DEF asking
  <2> QED BY <2>1, ShowsQueries
<1>5. CASE handleContinue(s, h)
  <2>1. Leaving = [r \in Slots |-> Leaving[r]]
    BY DEF Leaving
  <2>2. UNCHANGED chain /\ \E name : Shows(s, h, name, Leaving)
    BY <1>5 DEF handleContinue
  <2> QED BY <1>1, <2>1, <2>2, LeavingQueries, ShowsQueries
<1>6. CASE UNCHANGED chain /\ Shows(s, h, NULL, requests)
  <2>1. requests = [r \in Slots |-> requests[r]]
    BY <1>1 DEF RequestsInv
  <2> QED BY <1>6, <2>1, ShowsQueries
<1>7. CASE processFile(s, h) \/ handleVerifyFile(s)
  <2>1. UNCHANGED chain /\ \E r : Goes(s, r) /\ r.kind # "events"
    BY <1>2, <1>7 DEF processFile, handleVerifyFile
  <2> QED BY <1>3, <2>1
<1>8. CASE HeroHashed(s) \/ FormHashed(s) \/ ReceiveAnswer(s) \/ ReceiveError(s)
  <2>1. UNCHANGED chain /\ \E r : Goes(s, r) /\ r.kind # "events"
    BY <1>2, <1>8 DEF HeroHashed, FormHashed, ReceiveAnswer, ReceiveError
  <2> QED BY <1>3, <2>1
<1>9. CASE handleVerifyHash(s, h)
  <2>1. /\ UNCHANGED chain
        /\ Goes(s, Verification(h, NULL, "form")) \/ Shows(s, h, NULL, requests)
    BY <1>9 DEF handleVerifyHash
  <2> QED BY <1>2, <1>3, <1>6, <2>1
<1> QED BY <1>4, <1>5, <1>7, <1>8, <1>9

LEMMA EventsStart == VerificationInit => EventsInv
BY DEF VerificationInit, ReadsInit, EventsInv, NoRequest

LEMMA EventsStep ==
    VerificationInv /\ EventsInv /\ [VerificationNext]_vars => EventsInv'
<1> SUFFICES ASSUME VerificationInv, EventsInv, [VerificationNext]_vars
             PROVE  EventsInv'
  OBVIOUS
<1>1. RequestsInv /\ ChainType /\ NULL \in Documents
  BY DEF VerificationInv, Documents
<1>2. ASSUME NEW name \in Names \cup {"none"}, NEW h \in Documents, Block(name, h)
      PROVE  EventsInv'
  <2> DEFINE block == [name |-> name, hash |-> h]
  <2>1. chain \in Seq(Blocks) /\ block \in Blocks
    BY <1>1 DEF ChainType, Blocks
  <2>2. chain' = Append(chain, block) /\ UNCHANGED requests
    BY <1>2 DEF Block
  <2> HIDE DEF block
  <2>3. \A s \in Slots : requests[s].kind = "events" => QueryOK(requests[s], chain')
    BY <2>1, <2>2, QueryStays DEF EventsInv
  <2> QED BY <2>2, <2>3 DEF EventsInv
<1>3. CASE Queries
  <2>1. PICK s \in Slots, from \in {NULL, 0} \cup 1 .. MaxBlocks, to \in {NULL} \cup 1 .. MaxBlocks,
             names \in {Names, {"CertificateRevoked"}} : Ask(s, from, to, names)
    BY <1>3 DEF Queries
  <2> DEFINE r == Query(from, to, names)
  <2>2. r \in QueryRequest /\ r.step = "sent" /\ r.events = <<>>
    BY DEF Query, QueryRequest, Names
  <2>3. Goes(s, r) /\ UNCHANGED chain
    BY <2>1 DEF Ask
  <2> HIDE DEF r
  <2>4. QueryOK(r, chain)
    BY <2>2 DEF QueryOK
  <2> QED BY <1>1, <2>3, <2>4, QuerySlot
<1>4. CASE \E s \in Slots : Serve(s)
  BY <1>4, ServeQueries
<1>5. CASE \E s \in Slots, h \in Documents :
               \/ processFile(s, h) \/ OpenLink(s, h) \/ handleContinue(s, h)
               \/ handleVerifyHash(s, h) \/ handleVerifyFile(s) \/ HeroHashed(s)
               \/ FormHashed(s) \/ ReceiveAnswer(s) \/ ReceiveError(s)
  BY <1>5, PageQueries
<1>6. CASE \E path \in {"home", "portal"} : Visit(path)
  <2>1. requests' = Leaving /\ UNCHANGED chain
    BY <1>6 DEF Visit
  <2>2. \A s \in Slots : requests'[s].kind # "events"
    BY <1>1, <2>1, LeavingQueries
  <2> QED BY <2>1, <2>2, QueriesKept
<1>7. CASE UNCHANGED reads
  BY <1>7, QueriesKept DEF reads
<1>8. \/ Queries \/ UNCHANGED reads
      \/ \E name \in Names \cup {"none"}, h \in Documents : Block(name, h)
      \/ \E s \in Slots : Serve(s)
      \/ \E s \in Slots, h \in Documents :
               \/ processFile(s, h) \/ OpenLink(s, h) \/ handleContinue(s, h)
               \/ handleVerifyHash(s, h) \/ handleVerifyFile(s) \/ HeroHashed(s)
               \/ FormHashed(s) \/ ReceiveAnswer(s) \/ ReceiveError(s)
      \/ \E path \in {"home", "portal"} : Visit(path)
  <2>1. CASE \E s \in Slots : Progress(s) \/ handleVerifyFile(s)
    BY <1>1, <2>1 DEF Progress, Gateway
  <2>2. CASE \/ \E mode \in {"hash", "file"} : changeMode(mode)
             \/ \E typed \in BOOLEAN : handleHashChange(typed)
             \/ setHashInput \/ \E f \in Documents : setSelectedFile(f)
             \/ clearVerificationHistory \/ UNCHANGED vars
    BY <2>2 DEF changeMode, handleHashChange, setHashInput, setSelectedFile,
                clearVerificationHistory, vars
  <2> QED BY <2>1, <2>2 DEF VerificationNext, Gateway
<1> QED BY <1>2, <1>3, <1>4, <1>5, <1>6, <1>7, <1>8

LEMMA EventsAlways == VerificationSpec => []EventsInv
<1>1. VerificationInit => VerificationInv /\ EventsInv
  BY VerificationStarts, EventsStart
<1>2. VerificationInv /\ EventsInv /\ [VerificationNext]_vars => (VerificationInv /\ EventsInv)'
  BY VerificationStep, EventsStep
<1> QED BY <1>1, <1>2, PTL DEF VerificationSpec

LEMMA QueriesExact == ChainType /\ EventsInv => EventsExact
<1> SUFFICES ASSUME ChainType, EventsInv, NEW s \in Slots, At(s, "events", "answered")
             PROVE  /\ requests[s].to <= Len(chain) - Confirmations \/ requests[s].events = <<>>
                    /\ requests[s].events =
                           EventsIn(requests[s].from, requests[s].to, requests[s].names)
  BY DEF EventsExact
<1> DEFINE r == requests[s]
<1>1. QueryOK(r, chain) /\ r.step = "answered"
  BY DEF EventsInv, At
<1> HIDE DEF r
<1>2. \/ r.from \in Int /\ r.to \in Int /\ r.from > r.to /\ r.events = <<>>
      \/ ReadUpTo(r, r.to, chain)
  BY <1>1 DEF QueryOK
<1>3. EventsIn(r.from, r.to, r.names) = Logs(chain, r.from, r.to, r.names)
  BY DEF EventsIn, Logs
<1>4. CASE r.from \in Int /\ r.to \in Int /\ r.from > r.to /\ r.events = <<>>
  BY <1>3, <1>4, LogsOfNothing DEF r
<1>5. CASE ReadUpTo(r, r.to, chain)
  BY <1>3, <1>5 DEF ReadUpTo, r
<1> QED BY <1>2, <1>4, <1>5

\* "Repeating the same confirmed range returns the same results": an answer to an event
\* query is the confirmed events of its range, each once and in order, for any size of
\* the chunks and any number of blocks that come meanwhile.
THEOREM EventsAreExact == VerificationSpec => []EventsExact
<1>1. VerificationInv /\ EventsInv => EventsExact
  BY QueriesExact DEF VerificationInv
<1> QED BY <1>1, VerificationAlways, EventsAlways, PTL
=============================================================================
