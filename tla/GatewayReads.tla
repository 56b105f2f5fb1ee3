---------------------------- MODULE GatewayReads ----------------------------
(***************************************************************************)
(* The gateway's public reads (backend/src/routes/read.js, events.js,      *)
(* eventsTransformed.js; services/certificate.js, events.js): an answer is *)
(* put together from several calls of the RPC while blocks keep coming.    *)
(* Blocks are numbered by their position, the contract's deployment being  *)
(* the first; the role events and their timestamps are left out.           *)
(***************************************************************************)
EXTENDS Integers, Sequences, Selection

CONSTANTS
    Hashes,          \* document hashes
    NULL,
    Confirmations,   \* BLOCKCHAIN_CONFIRMATIONS
    EventChunkSize,  \* EVENT_QUERY_CHUNK_SIZE
    EventMaxRange,   \* EVENT_MAX_RANGE
    MaxBlocks,       \* bound on the chain's length
    Slots            \* the requests in flight

ASSUME ReadsAssumption ==
    /\ {EventChunkSize, EventMaxRange, MaxBlocks} \subseteq Nat \ {0}
    /\ Confirmations \in Nat /\ NULL \notin Hashes \cup Int

VARIABLES
    chain,    \* the blocks since the contract's deployment
    requests  \* the requests under way, by slot

Names == {"CertificateIssued", "CertificateRevoked"}
StartBlock == 1
Deployment == [name |-> "none", hash |-> NULL]

NoRequest == [kind |-> "none", step |-> "none"]

ReadsInit ==
    /\ chain = <<Deployment>>
    /\ requests = [s \in Slots |-> NoRequest]

-----------------------------------------------------------------------------
(* The network. *)

Logged(name, h) == \E i \in DOMAIN chain : chain[i].name = name /\ chain[i].hash = h

\* The state that verifyCertificate and getCertificate of the contract show.
StatusNow(h) ==
    IF Logged("CertificateRevoked", h) THEN "REVOKED"
    ELSE IF Logged("CertificateIssued", h) THEN "ACTIVE" ELSE "NOT_FOUND"

Rank(status) == CASE status = "NOT_FOUND" -> 0 [] status = "ACTIVE" -> 1 [] OTHER -> 2

Block(name, h) ==
    /\ Len(chain) < MaxBlocks
    /\ \/ name = "none" /\ h = NULL
       \/ h # NULL /\ name = "CertificateIssued" /\ StatusNow(h) = "NOT_FOUND"
       \/ h # NULL /\ name = "CertificateRevoked" /\ StatusNow(h) = "ACTIVE"
    /\ chain' = Append(chain, [name |-> name, hash |-> h])
    /\ UNCHANGED requests

-----------------------------------------------------------------------------
(* What the handlers share. *)

At(s, kind, step) == requests[s].kind = kind /\ requests[s].step = step

Goes(s, request) == requests' = [requests EXCEPT ![s] = request]

\* Defective variants: the record read before the status; a chunk that skips a block
\* after the one before; a head that is not confirmed.
RecordFirst == <<"record", "status">>
SkipsOne(chunkTo) == chunkTo + 2
LatestHead(latestBlock) == latestBlock

\* A failed RPC call or a time-out; the answer only says so.
RequestFails(s) ==
    /\ requests[s].step \in {"sent", "reading", "fetching"}
    /\ Goes(s, [kind |-> requests[s].kind, step |-> "failed", caller |-> requests[s].caller])
    /\ UNCHANGED chain

-----------------------------------------------------------------------------
(* GET /verify/:documentHash, for a document the caller knows by some name. *)

Verification(h, name, caller) ==
    [kind |-> "verify", step |-> "sent", hash |-> h, name |-> name, caller |-> caller,
     status |-> NULL, record |-> NULL]

\* verifyCertificate: the status, and then the record.
Reads == <<"status", "record">>

verifyCertificate(s) ==
    LET request == requests[s]  first == request.step = "sent" IN
    /\ request.kind = "verify" /\ request.step \in {"sent", "reading"}
    /\ Goes(s, [request EXCEPT ![Reads[IF first THEN 1 ELSE 2]] = StatusNow(request.hash),
                               !.step = IF first THEN "reading" ELSE "answered"])
    /\ UNCHANGED chain

-----------------------------------------------------------------------------
(* GET /events and /events/transformed. *)

Query(from, to, names) ==
    [kind |-> "events", step |-> "sent", caller |-> "page", from |-> from, to |-> to, names |-> names,
     next |-> NULL, events |-> <<>>]

getConfirmedHead(latestBlock) ==
    IF latestBlock > Confirmations THEN latestBlock - Confirmations ELSE 0

\* normalizeBlockRange: the bounds, refused if they begin too early or span too much.
normalizeBlockRange(request, confirmedHead) ==
    LET from == IF request.from = NULL THEN StartBlock ELSE request.from
        to == IF request.to = NULL \/ request.to > confirmedHead THEN confirmedHead
              ELSE request.to
        range == [request EXCEPT !.from = from, !.to = to]
    IN
    CASE from < StartBlock -> [request EXCEPT !.step = "failed"]
      [] from >= StartBlock /\ from > to -> [range EXCEPT !.step = "answered"]
      [] from >= StartBlock /\ to - from + 1 > EventMaxRange -> [request EXCEPT !.step = "refused"]
      [] OTHER -> [range EXCEPT !.step = "fetching", !.next = from]

fetchEvents(s) ==
    /\ At(s, "events", "sent")
    /\ Goes(s, normalizeBlockRange(requests[s], getConfirmedHead(Len(chain))))
    /\ UNCHANGED chain

\* The logs of a range of blocks, one a block, that match the filter.
EventsIn(from, to, names) == Selected(chain, {i \in from .. to : chain[i].name \in names})

nextChunk(chunkTo) == chunkTo + 1

\* One getLogs of queryEvents.
queryEvents(s) ==
    LET request == requests[s]
        last == request.next + EventChunkSize - 1
        chunkTo == IF last < request.to THEN last ELSE request.to
        logs == EventsIn(request.next, chunkTo, request.names)
    IN
    /\ At(s, "events", "fetching")
    /\ Goes(s, [request EXCEPT !.events = @ \o logs, !.next = nextChunk(chunkTo),
                               !.step = IF chunkTo = request.to THEN "answered" ELSE "fetching"])
    /\ UNCHANGED chain

Ask(s, from, to, names) ==
    /\ \A r \in Slots : requests[r] = NoRequest
    /\ Goes(s, Query(from, to, names))
    /\ UNCHANGED chain

\* The client has its events, or the error.
ReceiveEvents(s) ==
    /\ requests[s].kind = "events" /\ requests[s].step \in {"answered", "failed", "refused"}
    /\ Goes(s, NoRequest)
    /\ UNCHANGED chain

Serve(s) ==
    verifyCertificate(s) \/ fetchEvents(s) \/ queryEvents(s) \/ ReceiveEvents(s) \/ RequestFails(s)

\* Event queries are made one at a time, by anybody; the pages ask for everything.
Queries ==
    \E s \in Slots, from \in {NULL, 0} \cup 1 .. MaxBlocks, to \in {NULL} \cup 1 .. MaxBlocks,
       names \in {Names, {"CertificateRevoked"}} : Ask(s, from, to, names)

ReadsNext ==
    \/ \E name \in Names \cup {"none"}, h \in Hashes \cup {NULL} : Block(name, h)
    \/ Queries \/ \E s \in Slots : Serve(s)

ReadsSpec == ReadsInit /\ [][ReadsNext]_<<chain, requests>>

-----------------------------------------------------------------------------

\* An answer that calls a certificate active or revoked comes with its issuer and its
\* date, although the two are read one after the other, and says nothing the chain has
\* not said.
AnswersAgree ==
    \A s \in Slots : At(s, "verify", "answered") =>
        /\ Rank(requests[s].status) <= Rank(requests[s].record)
        /\ Rank(requests[s].record) <= Rank(StatusNow(requests[s].hash))

\* "Repeating the same confirmed range returns the same results": an answer holds every
\* event of its range once and in order, however it was cut into chunks, and none of a
\* block that was not confirmed.
EventsExact ==
    \A s \in Slots : At(s, "events", "answered") =>
        /\ requests[s].to <= Len(chain) - Confirmations \/ requests[s].events = <<>>
        /\ requests[s].events =
               EventsIn(requests[s].from, requests[s].to, requests[s].names)

\* "When omitted, the service applies its configured bounded event range": a query
\* without from and to, as the audit log makes it, is not refused for its range.
DefaultRangeServed ==
    \A s \in Slots : At(s, "events", "refused") =>
        requests[s].from # NULL \/ requests[s].to # NULL
=============================================================================
