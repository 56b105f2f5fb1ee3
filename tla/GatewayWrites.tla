--------------------------- MODULE GatewayWrites ---------------------------
(***************************************************************************)
(* The gateway's protected writes: the idempotency journal                 *)
(* (backend/src/services/idempotency.js), the FIFO of write operations and *)
(* the submission of their transactions (services/certificate.js), with    *)
(* the journal's file, the mempool, and crashes of the process.  What      *)
(* other wallets do to the registry comes in between.                      *)
(***************************************************************************)
EXTENDS Naturals, Sequences, FiniteSets, Selection

CONSTANTS
    Names,            \* values of the Idempotency-Key header
    Hashes,           \* document hashes: the fingerprint of a request
    MaxOperations,    \* capacity of the journal (MAX_OPERATIONS)
    MaxTransactions   \* bound on the transactions broadcast

ASSUME CapacityAssumption == MaxOperations \in Nat \ {0} /\ MaxTransactions \in Nat

VARIABLES
    operations,    \* the Map `operations', in insertion order
    loaded,        \* loadedStorePath is set
    store,         \* the operations in the journal's file
    readable,      \* every read of that file has succeeded so far
    queue,         \* writeQueue: the executions that have not settled
    transactions,  \* what the signer has broadcast, in nonce order
    certificate,   \* the registry: of each hash, [status, mine]
    authorized     \* the signer holds ISSUER_ROLE

journal == <<operations, loaded, store, readable>>
registry == <<certificate, authorized>>
vars == <<journal, queue, transactions, registry>>

Kinds == {"issue", "revoke"}
StorageKeys == Kinds \X Names  \* `${operation}:${key}`

GatewayInit ==
    /\ operations = <<>>
    /\ loaded = FALSE
    /\ store = <<>>
    /\ readable = TRUE
    /\ queue = <<>>
    /\ transactions = <<>>
    /\ certificate = [h \in Hashes |-> [status |-> "NOT_FOUND", mine |-> FALSE]]
    /\ authorized = TRUE

-----------------------------------------------------------------------------
(* The journal in memory and on disk. *)

\* Deleted from the Map; the others keep their order.
Without(ops, key) == Selected(ops, {i \in DOMAIN ops : ops[i].key # key})

Update(ops, key, state) ==
    [i \in DOMAIN ops |-> IF ops[i].key = key
                          THEN [ops[i] EXCEPT !.state = state, !.promise = FALSE] ELSE ops[i]]

\* Defective variants: failed operations pruned too, a journal of settled operations
\* only, no limit, writes that do not wait for their turn, a receipt taken for a
\* success, a rejected write that blocks those behind it.
AnySettled(state) == state # "pending"
OnlySettled(ops) == Selected(ops, {i \in DOMAIN ops : ops[i].state # "pending"})
NoLimit(ops) == TRUE
AnyTurn(q) == TRUE
AnyReceipt(t) == transactions[t].mined # "no"
QueueBlocked(q) == [i \in 1 .. Len(queue) - 1 |-> [queue[i + 1] EXCEPT !.step = "blocked"]]

isPrunable(state) == state = "completed"
persisted(ops) == [i \in DOMAIN ops |-> [ops[i] EXCEPT !.promise = FALSE]]
hasRoom(ops) == Len(ops) < MaxOperations
isTurn(q) == q = 1
isConfirmed(t) == transactions[t].mined = "applied"
released(q) == SubSeq(queue, 1, q - 1) \o SubSeq(queue, q + 1, Len(queue))

\* pruneCompletedOperations: the oldest completed operations go until the target
\* size is reached.
pruned(ops, targetSize) ==
    LET older(i) == {j \in 1 .. i - 1 : isPrunable(ops[j].state)}
        goes(i) == isPrunable(ops[i].state) /\ targetSize + Cardinality(older(i)) < Len(ops)
    IN Selected(ops, {i \in DOMAIN ops : ~goes(i)})

-----------------------------------------------------------------------------
(* runIdempotent, up to the start of the operation. *)

loadedOperations == IF loaded THEN operations ELSE store

\* loadOperations takes the path for loaded before it reads it, and throws.
LoadFails ==
    /\ ~loaded
    /\ store # <<>>
    /\ loaded' = TRUE
    /\ operations' = <<>>
    /\ readable' = FALSE
    /\ UNCHANGED <<store, queue, transactions, registry>>

\* A key the journal knows is answered from it, or refused, or waits for the
\* promise of the operation under way; the journal may just have been read.
Replay(key) ==
    /\ \E i \in DOMAIN loadedOperations : loadedOperations[i].key = key
    /\ loaded' = TRUE
    /\ operations' = loadedOperations
    /\ UNCHANGED <<store, readable, queue, transactions, registry>>

Admit(key, h) ==
    LET room == pruned(loadedOperations, MaxOperations - 1)
        record == [key |-> key, fingerprint |-> h, state |-> "pending", promise |-> FALSE]
        started == Append(room, [record EXCEPT !.promise = TRUE])
    IN
    /\ \A i \in DOMAIN loadedOperations : loadedOperations[i].key # key
    /\ loaded' = TRUE
    /\ \/ /\ ~hasRoom(room)  \* 503: full of unresolved operations
          /\ operations' = room
          /\ UNCHANGED <<store, queue>>
       \/ /\ hasRoom(room)
          /\ operations' = started
          /\ store' = persisted(started)
          /\ queue' = Append(queue, [key |-> key, hash |-> h, step |-> "checking",
                                     transaction |-> 0])
       \/ /\ hasRoom(room)  \* the file cannot be written
          /\ operations' = Append(room, record)
          /\ UNCHANGED <<store, queue>>
    /\ UNCHANGED <<readable, transactions, registry>>

-----------------------------------------------------------------------------
(* The end of an operation. *)

\* The file is written, or it is not.
persistOrFail(ops) == store' \in {persisted(ops), store}

Completes(q) ==
    LET key == queue[q].key
        completed == pruned(Update(operations, key, "completed"), MaxOperations)
    IN
    /\ queue' = released(q)
    /\ \/ /\ operations' = completed
          /\ store' = persisted(completed)
       \/ /\ operations' = Update(operations, key, "failed")
          /\ persistOrFail(operations')
    /\ UNCHANGED <<loaded, readable>>

\* A status of 500 or more, and every error that is not an HttpError.
Fails(q) ==
    /\ queue' = released(q)
    /\ operations' = Update(operations, queue[q].key, "failed")
    /\ persistOrFail(operations')
    /\ UNCHANGED <<loaded, readable>>

\* A status below 500: nothing has been broadcast and the key is free again.
IsRefused(q) ==
    /\ queue' = released(q)
    /\ operations' = Without(operations, queue[q].key)
    /\ persistOrFail(operations')
    /\ UNCHANGED <<loaded, readable>>

-----------------------------------------------------------------------------
(* issueCertificate and revokeCertificate, one at a time through serializeWrite. *)

Running(q, step) == isTurn(q) /\ queue[q].step = step

Kind(key) == key[1]

isAccepted(key, h) ==
    \/ Kind(key) = "issue" /\ authorized /\ certificate[h].status = "NOT_FOUND"
    \/ Kind(key) = "revoke" /\ certificate[h].status = "ACTIVE" /\ certificate[h].mine

Final(key) == IF Kind(key) = "issue" THEN "ACTIVE" ELSE "REVOKED"

\* The reads before the write: its conditions, or a failed RPC.
Check(q) ==
    /\ Running(q, "checking")
    /\ \/ /\ isAccepted(queue[q].key, queue[q].hash)
          /\ queue' = [queue EXCEPT ![q].step = "sending"]
          /\ UNCHANGED journal
       \/ ~isAccepted(queue[q].key, queue[q].hash) /\ IsRefused(q)
       \/ Fails(q)
    /\ UNCHANGED <<transactions, registry>>

Broadcast(q, seen) ==
    /\ Len(transactions) < MaxTransactions
    /\ transactions' = Append(transactions,
           [key |-> queue[q].key, hash |-> queue[q].hash, mined |-> "no", seen |-> seen])

\* The transaction is broadcast; or the gas estimate reverts with a contract error;
\* or the submission fails, before the broadcast or after it.
Send(q) ==
    /\ Running(q, "sending")
    /\ \/ /\ Broadcast(q, "awaited")
          /\ queue' = [queue EXCEPT ![q].step = "waiting",
                                    ![q].transaction = Len(transactions) + 1]
          /\ UNCHANGED journal
       \/ ~isAccepted(queue[q].key, queue[q].hash) /\ IsRefused(q) /\ UNCHANGED transactions
       \/ Fails(q) /\ (Broadcast(q, "unknown") \/ UNCHANGED transactions)
    /\ UNCHANGED registry

See(q, seen) == transactions' = [transactions EXCEPT ![queue[q].transaction].seen = seen]

\* The receipt, then the contract's state once more.
Confirm(q) ==
    /\ Running(q, "waiting")
    /\ isConfirmed(queue[q].transaction)
    /\ See(q, "confirmed")
    /\ \/ certificate[queue[q].hash].status = Final(queue[q].key) /\ Completes(q)
       \/ Fails(q)  \* POST_WRITE_STATE_CHECK_FAILED or POST_WRITE_STATE_MISMATCH
    /\ UNCHANGED registry

\* The receipt of a transaction that reverted, or none in time.
GiveUp(q) ==
    /\ Running(q, "waiting")
    /\ See(q, IF transactions[queue[q].transaction].mined = "reverted"
              THEN "reverted" ELSE "unknown")
    /\ Fails(q)
    /\ UNCHANGED registry

-----------------------------------------------------------------------------
(* The environment. *)

\* Transactions of one signer are mined in nonce order.
Mine(t) ==
    LET key == transactions[t].key  h == transactions[t].hash IN
    /\ transactions[t].mined = "no"
    /\ \A s \in 1 .. t - 1 : transactions[s].mined # "no"
    /\ \/ /\ isAccepted(key, h)
          /\ transactions' = [transactions EXCEPT ![t].mined = "applied"]
          /\ certificate' = [certificate EXCEPT ![h] = [status |-> Final(key), mine |-> TRUE]]
       \/ /\ ~isAccepted(key, h)
          /\ transactions' = [transactions EXCEPT ![t].mined = "reverted"]
          /\ UNCHANGED certificate
    /\ UNCHANGED <<journal, queue, authorized>>

\* Another issuer issues, the certificate's issuer or an administrator revokes, an
\* administrator changes the signer's role.
Others ==
    /\ \/ /\ \E h \in Hashes :
                \/ /\ certificate[h].status = "NOT_FOUND"
                   /\ certificate' = [certificate EXCEPT ![h].status = "ACTIVE"]
                \/ /\ certificate[h].status = "ACTIVE"
                   /\ certificate' = [certificate EXCEPT ![h].status = "REVOKED"]
          /\ UNCHANGED authorized
       \/ authorized' = ~authorized /\ UNCHANGED certificate
    /\ UNCHANGED <<journal, queue, transactions>>

\* The process dies; the file, the mempool and the registry stay.
Crash ==
    /\ operations' = <<>>
    /\ loaded' = FALSE
    /\ queue' = <<>>
    /\ transactions' = [t \in DOMAIN transactions |->
           IF transactions[t].seen = "awaited" THEN [transactions[t] EXCEPT !.seen = "unknown"]
           ELSE transactions[t]]
    /\ UNCHANGED <<store, readable, registry>>

Post(key) == Replay(key) \/ \E h \in Hashes : Admit(key, h)

Execute(q) == Check(q) \/ Send(q) \/ Confirm(q) \/ GiveUp(q)

GatewayNext ==
    \/ LoadFails \/ Others \/ Crash
    \/ \E key \in StorageKeys : Post(key)
    \/ \E q \in DOMAIN queue : Execute(q)
    \/ \E t \in DOMAIN transactions : Mine(t)

GatewaySpec == GatewayInit /\ [][GatewayNext]_vars

\* RPC calls settle and receipts are waited for with a timeout.
GatewayFairSpec == GatewaySpec /\ WF_vars(\E q \in DOMAIN queue : Execute(q))

-----------------------------------------------------------------------------

Operation == [key : StorageKeys, fingerprint : Hashes,
              state : {"pending", "completed", "failed"}, promise : BOOLEAN]

Keys(ops) == {ops[i].key : i \in DOMAIN ops}

\* The type of the journal, of the queue and of what was broadcast; the journal never
\* outgrows its capacity, in memory or on disk.
GatewayTypeOK ==
    /\ operations \in Seq(Operation) /\ Len(operations) <= MaxOperations
    /\ store \in Seq(Operation) /\ Len(store) <= MaxOperations
    /\ {loaded, readable} \subseteq BOOLEAN /\ authorized \in BOOLEAN
    /\ queue \in Seq([key : StorageKeys, hash : Hashes, transaction : Nat,
                      step : {"checking", "sending", "waiting"}])
    /\ transactions \in Seq([key : StorageKeys, hash : Hashes,
                             mined : {"no", "applied", "reverted"},
                             seen : {"awaited", "confirmed", "reverted", "unknown"}])
    /\ certificate \in [Hashes -> [status : {"NOT_FOUND", "ACTIVE", "REVOKED"}, mine : BOOLEAN]]

Remembers(ops, t) ==
    \E i \in DOMAIN ops : /\ ops[i].key = transactions[t].key
                          /\ ops[i].fingerprint = transactions[t].hash
                          /\ ops[i].state # "completed"

\* "A restart cannot silently duplicate an unresolved operation": as long as a
\* transaction has not been seen to succeed, the file and, once it is loaded, the
\* memory hold its operation as unresolved, whatever write or process failed since,
\* but for a read of the file.
UnresolvedRemembered ==
    readable => \A t \in DOMAIN transactions : transactions[t].seen # "confirmed" =>
        Remembers(store, t) /\ (loaded => Remembers(operations, t))

\* "Prevents one logical issue/revoke request from producing duplicate blockchain
\* transactions": one transaction at most for a key and a body, across retries,
\* restarts, lost replies and pruning.
OneTransactionPerRequest ==
    \A s, t \in DOMAIN transactions : s # t =>
        <<transactions[s].key, transactions[s].hash>>
            # <<transactions[t].key, transactions[t].hash>>

\* The same, as long as no read of the file has failed.
OneTransactionIfReadable == readable => OneTransactionPerRequest

\* Writes are serialized: a second transaction of the same kind for a document is
\* only ever sent when the outcome of the first is unknown or was a revert.
WritesSerialized ==
    \A s, t \in DOMAIN transactions :
        /\ s < t
        /\ transactions[s].hash = transactions[t].hash
        /\ Kind(transactions[s].key) = Kind(transactions[t].key)
        => transactions[s].seen \in {"unknown", "reverted"}

\* What the gateway reports as done, now or after a restart, happened: a completed
\* operation has a transaction of its own that the registry applied.
CompletedWasApplied ==
    \A ops \in {operations, store} : \A i \in DOMAIN ops : ops[i].state = "completed" =>
        \E t \in DOMAIN transactions :
            /\ transactions[t].key = ops[i].key
            /\ transactions[t].hash = ops[i].fingerprint
            /\ transactions[t].mined = "applied"

UnderWay(key) == \E i \in DOMAIN operations : operations[i].key = key /\ operations[i].promise

\* Every admitted write is answered, whatever became of those queued before it.
WritesAnswered == \A key \in StorageKeys : UnderWay(key) ~> ~UnderWay(key)
=============================================================================
