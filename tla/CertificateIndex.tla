-------------------------- MODULE CertificateIndex --------------------------
(***************************************************************************)
(* The gateway's in-memory index of certificates                           *)
(* (backend/src/services/certificateIndex.js): it replays the confirmed    *)
(* blocks of a chain that can be reorganized, in chunks, with an RPC that  *)
(* can fail at every await, and it is written by the gateway's own issue   *)
(* and revoke operations as well (services/certificate.js).  The lists and *)
(* the summary (routes/certificates.js) wait for a synchronization that is *)
(* due, or for the one under way.                                          *)
(***************************************************************************)
EXTENDS Integers, Sequences, SequencesExt

CONSTANTS
    Hashes,          \* document hashes
    NoDocument,      \* the hash of a block without a certificate event
    Confirmations,   \* BLOCKCHAIN_CONFIRMATIONS
    EventChunkSize,  \* EVENT_QUERY_CHUNK_SIZE
    ReorgDepth,      \* how many of the newest blocks the network may take back
    MaxBlocks,       \* bound on the chain's length
    MaxForks         \* bound on the number of reorganizations, plus one

ASSUME IndexConfigAssumption ==
    /\ NoDocument \notin Hashes
    /\ {Confirmations, EventChunkSize} \subseteq Nat \ {0}  \* config.js: minimum 1
    /\ {ReorgDepth, MaxBlocks, MaxForks} \subseteq Nat

VARIABLES
    chain,       \* the blocks since the contract's deployment, in the RPC's view
    highest,     \* how long the chain has been
    forks,       \* how many branches there have been: the hash of a new block
    shallow,     \* no reorganization has gone as deep as Confirmations blocks
    index,       \* the Map `certificates': of each hash, the listed status
    checkpoint,  \* lastProcessedBlock and lastProcessedBlockHash
    ready,       \* indexReady
    sync,        \* the synchronization under way (syncPromise)
    writer,      \* the own write whose contract state has been read, if any
    recorded,    \* the own writes that have been recorded, or given up
    listing      \* a request for the list, and the least confirmed head since it came

network == <<chain, highest, forks, shallow>>
tables == <<index, checkpoint, ready>>
own == <<writer, recorded>>
vars == <<network, tables, sync, own, listing>>

NULL == 0

Names == {"CertificateIssued", "CertificateRevoked"}

NoCheckpoint == [block |-> NULL, hash |-> NULL]
NoSync == [step |-> "idle", safeHead |-> 0, next |-> 0]
NoWrite == <<"none", NoDocument>>
NoListing == [step |-> "none", since |-> NULL]
EmptyIndex == [h \in Hashes |-> "NOT_FOUND"]

IndexInit ==
    /\ chain = <<>> /\ highest = 0 /\ forks = 1 /\ shallow = TRUE
    /\ index = EmptyIndex /\ checkpoint = NoCheckpoint /\ ready = FALSE
    /\ sync = NoSync
    /\ writer = NoWrite /\ recorded = {}
    /\ listing = NoListing

-----------------------------------------------------------------------------
(* The network. *)

Logged(name, h, n) == \E i \in 1 .. n : chain[i].name = name /\ chain[i].hash = h

\* verifyCertificate and getCertificate in the state after block n.
StatusAt(h, n) ==
    IF Logged("CertificateRevoked", h, n) THEN "REVOKED"
    ELSE IF Logged("CertificateIssued", h, n) THEN "ACTIVE" ELSE "NOT_FOUND"

OwnAt(name, h, n) == \E i \in 1 .. n : chain[i].name = name /\ chain[i].hash = h /\ chain[i].own

\* One event per block; the gateway sends a write when the one before it has ended,
\* and revokes what it has issued.
Block(name, h, isOwn) ==
    /\ Len(chain) < MaxBlocks
    /\ \/ name = "none" /\ h = NoDocument /\ ~isOwn
       \/ name = "CertificateIssued" /\ StatusAt(h, Len(chain)) = "NOT_FOUND"
       \/ /\ name = "CertificateRevoked" /\ StatusAt(h, Len(chain)) = "ACTIVE"
          /\ isOwn => OwnAt("CertificateIssued", h, Len(chain))
    /\ isOwn => /\ writer = NoWrite
                /\ \A m \in Names, g \in Hashes :
                       OwnAt(m, g, Len(chain)) => <<m, g>> \in recorded
    /\ chain' = Append(chain, [hash |-> h, name |-> name, own |-> isOwn, fork |-> forks])
    /\ highest' = IF Len(chain') > highest THEN Len(chain') ELSE highest
    /\ UNCHANGED <<forks, shallow, tables, sync, own, listing>>

lowered(since, head) == IF head < since THEN head ELSE since

\* Defective variant: a head that is not confirmed.
LatestHead(latestBlock) == latestBlock

getConfirmedHead(latestBlock) ==
    IF latestBlock > Confirmations THEN latestBlock - Confirmations ELSE 0

Reorganize(n) ==
    /\ n >= highest - ReorgDepth
    /\ forks < MaxForks
    /\ chain' = SubSeq(chain, 1, n)
    /\ forks' = forks + 1
    /\ shallow' = (shallow /\ n > highest - Confirmations)
    /\ listing' = [listing EXCEPT !.since = lowered(@, getConfirmedHead(n))]
    /\ UNCHANGED <<highest, tables, sync, own>>

-----------------------------------------------------------------------------
(* Synchronization. *)

\* Defective variants: a block skipped after the checkpoint; a promise that a failure
\* leaves behind; a checkpoint that is never compared; a list that does not wait for the
\* head.
SkipsOne(block) == block + 2
NeverReleased == [sync EXCEPT !.step = "rejected"]
NeverCompared == TRUE
NotAwaited == listing' = NoListing

nextBlock(block) == block + 1
released == NoSync

\* applyIssued writes a new record over an old one; applyRevoked needs a record.
apply(records, block) ==
    CASE block.name = "CertificateIssued" -> [records EXCEPT ![block.hash] = "ACTIVE"]
      [] block.name = "CertificateRevoked" ->
             [records EXCEPT ![block.hash] = IF @ = "NOT_FOUND" THEN @ ELSE "REVOKED"]
      [] OTHER -> records

\* certificates.clear() and what goes with it.
Clear == index' = EmptyIndex /\ ready' = FALSE /\ checkpoint' = NoCheckpoint

\* From the checkpoint to the head: there are blocks to fetch, or the index is ready.
ProcessAfter(block, safeHead) ==
    IF nextBlock(block) <= safeHead
    THEN sync' = [step |-> "fetching", safeHead |-> safeHead, next |-> nextBlock(block)]
    ELSE sync' = NoSync

\* The list that has waited for a synchronization is served when it has succeeded; after
\* a failure it is served stale, or refused.
queryIfDone ==
    listing' = IF listing.step = "waiting" /\ sync'.step = "idle"
               THEN NoListing ELSE listing

\* getBlockNumber; a checkpoint above the head, or a block to compare it with.
Start ==
    LET safeHead == getConfirmedHead(Len(chain)) IN
    /\ sync.step = "idle"
    /\ \/ /\ checkpoint.block > safeHead
          /\ index' = EmptyIndex /\ checkpoint' = NoCheckpoint
          /\ ready' = ~(nextBlock(NULL) <= safeHead)
          /\ ProcessAfter(NULL, safeHead)
       \/ /\ checkpoint.block <= safeHead /\ checkpoint.hash # NULL
          /\ sync' = [step |-> "comparing", safeHead |-> safeHead, next |-> 0]
          /\ UNCHANGED tables
       \/ /\ checkpoint.block <= safeHead /\ checkpoint.hash = NULL
          /\ ready' = (ready \/ ~(nextBlock(checkpoint.block) <= safeHead))
          /\ ProcessAfter(checkpoint.block, safeHead)
          /\ UNCHANGED <<index, checkpoint>>
    /\ queryIfDone
    /\ UNCHANGED <<network, own>>

hashOf(n) == IF n \in DOMAIN chain THEN chain[n].fork ELSE NULL

checkpointHolds == hashOf(checkpoint.block) = checkpoint.hash

Compare ==
    /\ sync.step = "comparing"
    /\ \/ /\ checkpointHolds
          /\ ready' = (ready \/ ~(nextBlock(checkpoint.block) <= sync.safeHead))
          /\ ProcessAfter(checkpoint.block, sync.safeHead)
          /\ UNCHANGED <<index, checkpoint>>
       \/ /\ ~checkpointHolds
          /\ Clear
          /\ ProcessAfter(NULL, sync.safeHead)
    /\ queryIfDone
    /\ UNCHANGED <<network, own>>

\* One getLogs of processRange.
Fetch ==
    LET last == sync.next + EventChunkSize - 1
        chunkTo == IF last < sync.safeHead THEN last ELSE sync.safeHead
    IN
    /\ sync.step = "fetching"
    /\ index' = FoldLeft(apply, index, SubSeq(chain, sync.next,
                             IF chunkTo < Len(chain) THEN chunkTo ELSE Len(chain)))
    /\ sync' = [sync EXCEPT !.next = chunkTo + 1,
                            !.step = IF chunkTo = sync.safeHead THEN "closing" ELSE "fetching"]
    /\ UNCHANGED <<network, checkpoint, ready, own, listing>>

Close ==
    /\ sync.step = "closing"
    /\ checkpoint' = [block |-> sync.safeHead, hash |-> hashOf(sync.safeHead)]
    /\ ready' = TRUE
    /\ sync' = NoSync
    /\ queryIfDone
    /\ UNCHANGED <<network, index, own>>

\* An RPC call fails: what has been applied stays applied.
Fail ==
    /\ sync.step \in {"comparing", "fetching", "closing"} \/ listing.step = "waiting"
    /\ sync' = released
    /\ listing' = NoListing
    /\ UNCHANGED <<network, tables, own>>

-----------------------------------------------------------------------------
(* The gateway's own writes, and the process. *)

\* transaction.wait(confirmations), then getCertificate: a write whose state does not
\* match ends with an error, and so does one whose receipt comes too late.
ReadOwn(name, h) ==
    /\ writer = NoWrite
    /\ <<name, h>> \notin recorded
    /\ recorded' = recorded \cup {<<name, h>>}
    /\ \/ /\ OwnAt(name, h, Len(chain) - Confirmations + 1)
          /\ StatusAt(h, Len(chain)) = (IF name = "CertificateIssued" THEN "ACTIVE" ELSE "REVOKED")
          /\ writer' = <<name, h>>
       \/ /\ OwnAt(name, h, Len(chain))
          /\ UNCHANGED writer
    /\ UNCHANGED <<network, tables, sync, listing>>

\* addRecord, updateRecordStatus.
RecordOwn ==
    /\ writer # NoWrite
    /\ index' = apply(index, [name |-> writer[1], hash |-> writer[2]])
    /\ writer' = NoWrite
    /\ UNCHANGED <<network, checkpoint, ready, sync, recorded, listing>>

\* A new process builds its index from nothing; its writes are gone.
Restart ==
    /\ Clear
    /\ sync' = NoSync
    /\ writer' = NoWrite /\ listing' = NoListing
    /\ recorded' = {w \in Names \X Hashes : OwnAt(w[1], w[2], Len(chain)) \/ w \in recorded}
    /\ UNCHANGED network

-----------------------------------------------------------------------------
(* GET /certificates and /certificates/summary. *)

\* The hashes of one status, or of both.
queryCertificates(records, status) == {h \in Hashes : records[h] \in status}

\* Between two polls the index is served as it is, or not at all: that changes nothing.
\* Otherwise a synchronization is begun, or the one under way is shared.
refreshIndex ==
    LET head == getConfirmedHead(Len(chain)) IN
    /\ listing = NoListing
    /\ listing' = [step |-> "waiting",
                   since |-> IF sync.step = "idle" THEN head ELSE lowered(head, sync.safeHead)]
    /\ UNCHANGED <<network, tables, sync, own>>

Synchronize == Start \/ Compare \/ Fetch \/ Close

IndexNext ==
    \/ Synchronize \/ Fail \/ refreshIndex \/ RecordOwn \/ Restart
    \/ \E name \in Names \cup {"none"}, h \in Hashes \cup {NoDocument}, isOwn \in BOOLEAN :
           (name = "none" <=> h = NoDocument) /\ Block(name, h, isOwn)
    \/ \E n \in 0 .. Len(chain) - 1 : Reorganize(n)
    \/ \E name \in Names, h \in Hashes : ReadOwn(name, h)

IndexSpec == IndexInit /\ [][IndexNext]_vars

\* Polling never stops, and no RPC call that is repeated fails forever.
IndexFairSpec ==
    /\ IndexSpec /\ WF_vars(Start) /\ SF_vars(Compare) /\ SF_vars(Close)
    /\ \A n \in 1 .. getConfirmedHead(MaxBlocks) : SF_vars(sync.next = n /\ Fetch)

-----------------------------------------------------------------------------

Status == {"NOT_FOUND", "ACTIVE", "REVOKED"}

\* The type of the chain, of the index and of the synchronization under way; nothing
\* is processed before it is confirmed.
IndexTypeOK ==
    /\ chain \in Seq([hash : Hashes \cup {NoDocument}, name : Names \cup {"none"},
                      own : BOOLEAN, fork : Nat])
    /\ highest \in Nat /\ forks \in Nat /\ {ready, shallow} \subseteq BOOLEAN
    /\ index \in [Hashes -> Status]
    /\ checkpoint \in [block : Nat, hash : Nat]
    /\ checkpoint = NoCheckpoint \/ checkpoint.block + Confirmations <= highest
    /\ sync \in [step : {"idle", "comparing", "fetching", "closing"}, safeHead : Nat, next : Nat]
    /\ writer \in (Names \X Hashes) \cup {NoWrite}
    /\ recorded \subseteq Names \X Hashes
    /\ listing \in [step : {"none", "waiting"}, since : Nat]

Rank(status) == CASE status = "NOT_FOUND" -> 0 [] status = "ACTIVE" -> 1 [] OTHER -> 2

\* No certificate is listed that the chain does not hold, nor listed as revoked that
\* it does not hold revoked, whatever was reorganized, retried or rebuilt.
ListedIsOnChain ==
    \A h \in Hashes : Rank(index[h]) <= Rank(StatusAt(h, Len(chain)))

\* The same, as long as no reorganization has taken back Confirmations blocks or more.
ListedUnlessDeep == shallow => ListedIsOnChain

\* The gateway issued it and somebody else revoked it: the one case in which the
\* issuance can be recorded after the revocation was indexed.
RevokedBehindOurBack(h) ==
    /\ OwnAt("CertificateIssued", h, Len(chain))
    /\ Logged("CertificateRevoked", h, Len(chain))
    /\ ~OwnAt("CertificateRevoked", h, Len(chain))

\* An index that is served has everything up to its checkpoint: no chunk, retry or
\* rebuild leaves a hole, and no record falls back to an earlier status, unless a
\* reorganization takes back Confirmations blocks or more.
ReadyCoversCheckpoint ==
    shallow /\ ready => \A h \in Hashes :
        RevokedBehindOurBack(h) \/ Rank(index[h]) >= Rank(StatusAt(h, checkpoint.block))

\* A list that waited for a synchronization, its own or one it found under way, misses
\* nothing that was confirmed when it was asked for, as far as the head had been read
\* by then and has not moved back.
ListingIsFresh ==
    [][Synchronize /\ shallow /\ listing # NoListing /\ listing' = NoListing =>
        \A h \in Hashes :
            LET then == StatusAt(h, listing.since) IN
            \/ then = "NOT_FOUND" \/ RevokedBehindOurBack(h)
            \/ h \in queryCertificates(index', {then, "REVOKED"})]_vars

\* Once the network and the process are quiet, the index catches up with the confirmed
\* blocks and stays there, whatever was fetched, failed, rebuilt or taken back before,
\* however deep, and its checkpoint is a block of the chain as it is then.  (The one
\* checkpoint without a hash was read while its block was missing.)
IndexCatchesUp ==
    <>[][UNCHANGED network /\ ~Restart]_vars =>
        <>[]( /\ ready
              /\ checkpoint.block =
                     IF Len(chain) > Confirmations THEN Len(chain) - Confirmations ELSE 0
              /\ checkpoint.hash \in {hashOf(checkpoint.block), NULL})
=============================================================================
