------------------------ MODULE GatewayWrites_proofs ------------------------
(***************************************************************************)
(* Theorems about GatewayWrites, for any keys, documents and capacities.   *)
(* That writes are serialized does not depend on the journal: it follows   *)
(* from what the operation at the head of the queue knows of the           *)
(* transactions broadcast before (SendingKnows, WaitingKnows) and from     *)
(* what the registry shows of those that were applied (AppliedShows).  The *)
(* journal comes after that: deletions keep what they do not delete        *)
(* (SelectedFacts), an operation under way is recorded in memory and in    *)
(* the file until it ends (QueueRecorded) and its key is used by no other  *)
(* transaction that may still be mined (KeysFree), so completing it        *)
(* forgets nothing that is unresolved.                                     *)
(***************************************************************************)
EXTENDS GatewayWrites, Selection_proofs

QueueEntry == [key : StorageKeys, hash : Hashes, transaction : Nat,
               step : {"checking", "sending", "waiting"}]
TransactionRow == [key : StorageKeys, hash : Hashes, mined : {"no", "applied", "reverted"},
                   seen : {"awaited", "confirmed", "reverted", "unknown"}]
Certificate == [status : {"NOT_FOUND", "ACTIVE", "REVOKED"}, mine : BOOLEAN]

\* The types of the queue, the transactions and the registry.
WriteTypes ==
    /\ queue \in Seq(QueueEntry) /\ transactions \in Seq(TransactionRow)
    /\ certificate \in [Hashes -> Certificate]

SameWrite(s, key, h) ==
    transactions[s].hash = h /\ Kind(transactions[s].key) = Kind(key)

\* Nothing has been asked of the chain for those that wait.
OthersWait == \A q \in DOMAIN queue : q # 1 => queue[q].step = "checking"

\* A transaction that is waited for is the one of the head of the queue.
WaitingKnows ==
    /\ \A q \in DOMAIN queue : queue[q].step = "waiting" =>
           /\ queue[q].transaction \in DOMAIN transactions
           /\ transactions[queue[q].transaction].seen = "awaited"
    /\ \A t \in DOMAIN transactions : transactions[t].seen = "awaited" =>
           1 \in DOMAIN queue /\ queue[1].step = "waiting" /\ queue[1].transaction = t

\* An operation whose checks have passed is the only one for its document.
SendingKnows ==
    \A q \in DOMAIN queue : queue[q].step = "sending" =>
        \A s \in DOMAIN transactions : SameWrite(s, queue[q].key, queue[q].hash) =>
            transactions[s].seen \in {"unknown", "reverted"}

\* What was applied can be seen in the registry, for good.
AppliedShows ==
    \A t \in DOMAIN transactions :
        /\ transactions[t].seen = "confirmed" => transactions[t].mined = "applied"
        /\ transactions[t].mined = "applied" =>
               certificate[transactions[t].hash].status \in {Final(transactions[t].key), "REVOKED"}

QueueInv ==
    WriteTypes /\ OthersWait /\ WaitingKnows /\ SendingKnows /\ AppliedShows /\ WritesSerialized

LEMMA QueueFacts ==
    ASSUME WriteTypes
    PROVE  /\ Len(queue) \in Nat /\ DOMAIN queue = 1 .. Len(queue)
           /\ \A q \in DOMAIN queue : queue[q] \in QueueEntry
           /\ Len(transactions) \in Nat /\ DOMAIN transactions = 1 .. Len(transactions)
           /\ \A t \in DOMAIN transactions : transactions[t] \in TransactionRow
BY DEF WriteTypes

\* The head of the queue is released, and the next in turn becomes the head.
LEMMA ReleasedHead ==
    ASSUME WriteTypes, 1 \in DOMAIN queue
    PROVE  /\ released(1) \in Seq(QueueEntry)
           /\ \A q \in DOMAIN released(1) :
                  q + 1 \in DOMAIN queue /\ q \in Nat \ {0} /\ released(1)[q] = queue[q + 1]
<1>1. Len(queue) \in Nat /\ DOMAIN queue = 1 .. Len(queue) /\ queue \in Seq(QueueEntry)
  BY DEF WriteTypes
<1>2. SubSeq(queue, 1, 0) = << >>
  BY <1>1
<1>3. /\ SubSeq(queue, 2, Len(queue)) \in Seq(QueueEntry)
      /\ Len(SubSeq(queue, 2, Len(queue))) = Len(queue) - 1
      /\ \A q \in 1 .. Len(queue) - 1 : SubSeq(queue, 2, Len(queue))[q] = queue[q + 1]
  BY <1>1
<1>4. released(1) = SubSeq(queue, 2, Len(queue))
  BY <1>1, <1>2, <1>3 DEF released
<1>5. DOMAIN released(1) = 1 .. Len(queue) - 1
  BY <1>1, <1>3, <1>4
<1>6. \A q \in 1 .. Len(queue) - 1 : q + 1 \in 1 .. Len(queue) /\ q \in Nat \ {0}
  BY <1>1
<1>7. \A q \in DOMAIN released(1) :
          q + 1 \in DOMAIN queue /\ q \in Nat \ {0} /\ released(1)[q] = queue[q + 1]
  BY <1>1, <1>3, <1>4, <1>5, <1>6
<1> QED BY <1>3, <1>4, <1>7

\* An operation that has ended, with no transaction waited for any more.
LEMMA HeadLeaves ==
    ASSUME QueueInv, 1 \in DOMAIN queue, queue' = released(1)
    PROVE  /\ queue' \in Seq(QueueEntry)
           /\ \A q \in DOMAIN queue' : queue'[q].step = "checking"
<1>1. WriteTypes /\ OthersWait
  BY DEF QueueInv
<1> QED BY <1>1, ReleasedHead DEF OthersWait

\* The head of the queue has ended or has nothing under way with the chain: the other
\* operations all wait, so only the transactions matter.
LEMMA QuietQueue ==
    ASSUME QueueInv,
           queue' \in Seq(QueueEntry), \A q \in DOMAIN queue' : queue'[q].step = "checking",
           transactions' \in Seq(TransactionRow), UNCHANGED certificate,
           Len(transactions') \in Nat, DOMAIN transactions' = 1 .. Len(transactions'),
           \A t \in DOMAIN transactions' : transactions'[t].seen # "awaited",
           AppliedShows', WritesSerialized'
    PROVE  QueueInv'
BY DEF QueueInv, WriteTypes, OthersWait, WaitingKnows, SendingKnows

LEMMA QueueInvKept ==
    ASSUME QueueInv, UNCHANGED <<queue, transactions, certificate>>
    PROVE  QueueInv'
<1>1. WriteTypes' /\ OthersWait'
  BY DEF QueueInv, WriteTypes, OthersWait
<1>2. WaitingKnows'
  BY DEF QueueInv, WaitingKnows
<1>3. SendingKnows'
  BY DEF QueueInv, SendingKnows, SameWrite
<1>4. AppliedShows' /\ WritesSerialized'
  BY DEF QueueInv, AppliedShows, WritesSerialized
<1> QED BY <1>1, <1>2, <1>3, <1>4 DEF QueueInv

LEMMA AdmitKeepsQueueInv ==
    ASSUME QueueInv, NEW key \in StorageKeys, NEW h \in Hashes, Admit(key, h)
    PROVE  QueueInv'
<1>1. WriteTypes /\ UNCHANGED <<transactions, certificate>>
  BY DEF QueueInv, Admit, registry
<1>2. CASE UNCHANGED queue
  <2>1. UNCHANGED <<queue, transactions, certificate>>
    BY <1>1, <1>2
  <2> QED BY <2>1, QueueInvKept
<1>3. CASE queue' = Append(queue, [key |-> key, hash |-> h, step |-> "checking",
                                   transaction |-> 0])
  <2> DEFINE new == [key |-> key, hash |-> h, step |-> "checking", transaction |-> 0]
  <2>1. new \in QueueEntry
    BY DEF QueueEntry
  <2>2. /\ queue' \in Seq(QueueEntry) /\ DOMAIN queue' = 1 .. Len(queue) + 1
        /\ Len(queue) \in Nat /\ DOMAIN queue = 1 .. Len(queue)
        /\ \A q \in DOMAIN queue : queue'[q] = queue[q]
        /\ queue'[Len(queue) + 1].step = "checking"
    BY <1>1, <1>3, <2>1 DEF WriteTypes
  <2>3. \A q \in DOMAIN queue' :
            \/ q \in DOMAIN queue /\ queue'[q] = queue[q]
            \/ queue'[q].step = "checking"
    BY <2>2
  <2>4. WriteTypes' /\ OthersWait' /\ SendingKnows'
    BY <1>1, <2>2, <2>3 DEF QueueInv, WriteTypes, OthersWait, SendingKnows, SameWrite
  <2>5. WaitingKnows'
    BY <1>1, <2>2, <2>3 DEF QueueInv, WaitingKnows
  <2>6. AppliedShows' /\ WritesSerialized'
    BY <1>1 DEF QueueInv, AppliedShows, WritesSerialized
  <2> QED BY <2>4, <2>5, <2>6 DEF QueueInv
<1> QED BY <1>2, <1>3 DEF Admit

\* What the checks of an operation that waits its turn rule out.
LEMMA CheckKeepsQueueInv ==
    ASSUME QueueInv, NEW q \in DOMAIN queue, Check(q)
    PROVE  QueueInv'
<1>1. /\ WriteTypes /\ q = 1 /\ queue[1].step = "checking" /\ 1 \in DOMAIN queue
      /\ UNCHANGED <<transactions, certificate>>
  BY DEF QueueInv, Check, Running, isTurn, registry
<1>2. \A t \in DOMAIN transactions : transactions[t].seen # "awaited"
  BY <1>1 DEF QueueInv, WaitingKnows
<1>3. CASE queue' = released(1)
  <2>1. AppliedShows' /\ WritesSerialized'
    BY <1>1 DEF QueueInv, AppliedShows, WritesSerialized
  <2>2. transactions' \in Seq(TransactionRow) /\ DOMAIN transactions' = 1 .. Len(transactions')
        /\ Len(transactions') \in Nat
    BY <1>1, QueueFacts DEF WriteTypes
  <2> QED BY <1>1, <1>2, <1>3, <2>1, <2>2, HeadLeaves, QuietQueue
<1>4. CASE /\ isAccepted(queue[1].key, queue[1].hash)
           /\ queue' = [queue EXCEPT ![1].step = "sending"]
  <2>1. /\ queue[1] \in QueueEntry
        /\ \A t \in DOMAIN transactions : transactions[t] \in TransactionRow
    BY <1>1, QueueFacts
  <2>2. ASSUME NEW s \in DOMAIN transactions, SameWrite(s, queue[1].key, queue[1].hash)
        PROVE  transactions[s].seen \in {"unknown", "reverted"}
    <3>1. transactions[s].mined # "applied"
      <4>1. Kind(transactions[s].key) \in Kinds /\ transactions[s].hash \in Hashes
        BY <2>1 DEF TransactionRow, StorageKeys, Kind
      <4> QED BY <1>4, <2>2, <4>1 DEF QueueInv, AppliedShows, SameWrite, isAccepted, Final, Kinds
    <3> QED BY <1>2, <2>1, <3>1 DEF QueueInv, AppliedShows, TransactionRow
  <2>3. /\ queue' \in Seq(QueueEntry) /\ DOMAIN queue' = DOMAIN queue
        /\ queue'[1].step = "sending" /\ queue'[1].key = queue[1].key
        /\ queue'[1].hash = queue[1].hash
        /\ \A r \in DOMAIN queue : r # 1 => queue'[r] = queue[r]
    BY <1>1, <1>4, <2>1 DEF WriteTypes, QueueEntry
  <2>4. \A r \in DOMAIN queue' : queue'[r].step = "sending" => r = 1
    BY <2>3 DEF QueueInv, OthersWait
  <2>5. SendingKnows'
    BY <1>1, <2>2, <2>3, <2>4 DEF SendingKnows, SameWrite
  <2>6. OthersWait' /\ WaitingKnows'
    BY <1>1, <1>2, <2>3 DEF QueueInv, OthersWait, WaitingKnows
  <2> QED BY <1>1, <2>3, <2>5, <2>6 DEF QueueInv, WriteTypes, AppliedShows, WritesSerialized
<1> QED BY <1>1, <1>3, <1>4 DEF Check, IsRefused, Fails

\* The broadcast of the only operation for its document.
LEMMA BroadcastSerialized ==
    ASSUME QueueInv, 1 \in DOMAIN queue, queue[1].step = "sending",
           NEW seen \in {"awaited", "unknown"}, Broadcast(1, seen)
    PROVE  /\ transactions' \in Seq(TransactionRow)
           /\ Len(transactions) \in Nat /\ DOMAIN transactions' = 1 .. Len(transactions) + 1
           /\ Len(transactions') = Len(transactions) + 1
           /\ DOMAIN transactions = 1 .. Len(transactions)
           /\ \A t \in DOMAIN transactions : transactions'[t] = transactions[t]
           /\ \A t \in DOMAIN transactions : transactions[t].seen # "awaited"
           /\ LET new == transactions'[Len(transactions) + 1] IN
                  /\ new.key = queue[1].key /\ new.hash = queue[1].hash
                  /\ new.mined = "no" /\ new.seen = seen
           /\ WritesSerialized'
<1>1. queue[1] \in QueueEntry /\ transactions \in Seq(TransactionRow)
  BY QueueFacts DEF QueueInv, WriteTypes
<1> DEFINE new == [key |-> queue[1].key, hash |-> queue[1].hash, mined |-> "no", seen |-> seen]
<1>2. new \in TransactionRow
  BY <1>1 DEF QueueEntry, TransactionRow
<1>3. /\ transactions' \in Seq(TransactionRow)
      /\ Len(transactions) \in Nat /\ DOMAIN transactions' = 1 .. Len(transactions) + 1
      /\ Len(transactions') = Len(transactions) + 1
      /\ DOMAIN transactions = 1 .. Len(transactions)
      /\ \A t \in DOMAIN transactions : transactions'[t] = transactions[t]
      /\ transactions'[Len(transactions) + 1] = new
  BY <1>1, <1>2 DEF Broadcast
<1>4. \A t \in DOMAIN transactions : transactions[t].seen # "awaited"
  BY DEF QueueInv, WaitingKnows
<1>5. \A s \in DOMAIN transactions : SameWrite(s, new.key, new.hash) =>
          transactions[s].seen \in {"unknown", "reverted"}
  BY DEF QueueInv, SendingKnows
<1>6. WritesSerialized'
  <2> SUFFICES ASSUME NEW s \in DOMAIN transactions', NEW t \in DOMAIN transactions', s < t,
                      transactions'[s].hash = transactions'[t].hash,
                      Kind(transactions'[s].key) = Kind(transactions'[t].key)
               PROVE  transactions'[s].seen \in {"unknown", "reverted"}
    BY DEF WritesSerialized, Kind
  <2>1. s \in DOMAIN transactions /\ transactions'[s] = transactions[s]
    BY <1>3
  <2>2. CASE t = Len(transactions) + 1
    BY <1>3, <1>5, <2>1, <2>2 DEF SameWrite
  <2>3. CASE t # Len(transactions) + 1
    <3>1. t \in DOMAIN transactions /\ transactions'[t] = transactions[t]
      BY <1>3, <2>3
    <3> QED BY <2>1, <3>1 DEF QueueInv, WritesSerialized
  <2> QED BY <2>2, <2>3
<1> HIDE DEF new
<1>7. new.key = queue[1].key /\ new.hash = queue[1].hash /\ new.mined = "no" /\ new.seen = seen
  BY DEF new
<1> QED BY <1>3, <1>4, <1>6, <1>7

LEMMA SendKeepsQueueInv ==
    ASSUME QueueInv, NEW q \in DOMAIN queue, Send(q)
    PROVE  QueueInv'
<1>1. /\ WriteTypes /\ q = 1 /\ queue[1].step = "sending" /\ 1 \in DOMAIN queue
      /\ UNCHANGED certificate
  BY DEF QueueInv, Send, Running, isTurn, registry
<1>2. /\ Len(transactions) \in Nat /\ DOMAIN transactions = 1 .. Len(transactions)
      /\ \A t \in DOMAIN transactions : transactions[t].seen # "awaited"
  BY <1>1, QueueFacts DEF QueueInv, WaitingKnows
<1>3. CASE queue' = released(1) /\ UNCHANGED transactions
  <2>1. AppliedShows' /\ WritesSerialized'
    BY <1>1, <1>3 DEF QueueInv, AppliedShows, WritesSerialized
  <2> QED BY <1>1, <1>2, <1>3, <2>1, HeadLeaves, QuietQueue DEF WriteTypes
<1>4. CASE queue' = released(1) /\ Broadcast(1, "unknown")
  <2>1. AppliedShows'
    BY <1>1, <1>4, BroadcastSerialized DEF QueueInv, AppliedShows
  <2>2. \A t \in DOMAIN transactions' : transactions'[t].seen # "awaited"
    BY <1>1, <1>4, BroadcastSerialized
  <2>3. transactions' \in Seq(TransactionRow) /\ WritesSerialized'
        /\ Len(transactions') \in Nat /\ DOMAIN transactions' = 1 .. Len(transactions')
    BY <1>1, <1>4, BroadcastSerialized
  <2> QED BY <1>1, <1>4, <2>1, <2>2, <2>3, HeadLeaves, QuietQueue
<1>5. CASE /\ Broadcast(1, "awaited")
           /\ queue' = [queue EXCEPT ![1].step = "waiting",
                                     ![1].transaction = Len(transactions) + 1]
  <2>1. AppliedShows'
    BY <1>1, <1>5, BroadcastSerialized DEF QueueInv, AppliedShows
  <2>2. queue[1] \in QueueEntry
    BY <1>1, QueueFacts
  <2>3. /\ queue' \in Seq(QueueEntry) /\ DOMAIN queue' = DOMAIN queue
        /\ queue'[1].step = "waiting" /\ queue'[1].transaction = Len(transactions) + 1
        /\ \A r \in DOMAIN queue : r # 1 => queue'[r] = queue[r]
    <3> DEFINE head == [queue[1] EXCEPT !.step = "waiting", !.transaction = Len(transactions) + 1]
    <3>1. head \in QueueEntry /\ head.step = "waiting" /\ head.transaction = Len(transactions) + 1
      <4>1. \A entry \in QueueEntry, t \in Nat :
                LET waiting == [entry EXCEPT !.step = "waiting", !.transaction = t] IN
                waiting \in QueueEntry /\ waiting.step = "waiting" /\ waiting.transaction = t
        BY DEF QueueEntry
      <4>2. Len(transactions) + 1 \in Nat
        BY <1>2
      <4> QED BY <2>2, <4>1, <4>2
    <3>2. queue' = [queue EXCEPT ![1] = head]
      BY <1>5
    <3> HIDE DEF head
    <3> QED BY <1>1, <3>1, <3>2 DEF WriteTypes
  <2>4. OthersWait'
    BY <2>3 DEF QueueInv, OthersWait
  <2>5. SendingKnows'
    BY <2>3 DEF QueueInv, OthersWait, SendingKnows
  <2>6. WaitingKnows'
    <3>1. \A r \in DOMAIN queue' : queue'[r].step = "waiting" => r = 1
      BY <2>3 DEF QueueInv, OthersWait
    <3>2. /\ Len(transactions) + 1 \in DOMAIN transactions'
          /\ transactions'[Len(transactions) + 1].seen = "awaited"
          /\ \A t \in DOMAIN transactions' : t # Len(transactions) + 1
                 => t \in DOMAIN transactions /\ transactions'[t] = transactions[t]
      BY <1>1, <1>5, BroadcastSerialized
    <3> QED BY <1>1, <1>2, <2>3, <3>1, <3>2 DEF WaitingKnows
  <2>7. transactions' \in Seq(TransactionRow) /\ WritesSerialized'
    BY <1>1, <1>5, BroadcastSerialized
  <2> QED BY <1>1, <2>1, <2>3, <2>4, <2>5, <2>6, <2>7 DEF QueueInv, WriteTypes
<1> QED BY <1>1, <1>3, <1>4, <1>5 DEF Send, IsRefused, Fails

\* The end of the wait: nothing was sent for the same document since.
LEMMA SeeKeepsQueueInv ==
    ASSUME QueueInv, 1 \in DOMAIN queue, queue[1].step = "waiting",
           NEW seen \in {"confirmed", "reverted", "unknown"}, See(1, seen),
           seen = "confirmed" => transactions[queue[1].transaction].mined = "applied",
           queue' = released(1), UNCHANGED certificate
    PROVE  QueueInv'
<1> DEFINE x == queue[1].transaction
<1>1. /\ WriteTypes /\ x \in DOMAIN transactions /\ transactions[x].seen = "awaited"
      /\ \A t \in DOMAIN transactions : t # x => transactions[t].seen # "awaited"
  BY DEF QueueInv, WaitingKnows
<1>2. /\ Len(transactions) \in Nat /\ DOMAIN transactions = 1 .. Len(transactions)
      /\ transactions \in Seq(TransactionRow)
      /\ \A t \in DOMAIN transactions : transactions[t] \in TransactionRow
  BY <1>1, QueueFacts DEF WriteTypes
<1>3. /\ transactions' \in Seq(TransactionRow) /\ Len(transactions') = Len(transactions)
      /\ DOMAIN transactions' = DOMAIN transactions
      /\ transactions'[x] = [transactions[x] EXCEPT !.seen = seen]
      /\ \A t \in DOMAIN transactions : t # x => transactions'[t] = transactions[t]
  BY <1>1, <1>2 DEF See, TransactionRow
<1> HIDE DEF x
<1>4. \A t \in DOMAIN transactions :
          /\ transactions'[t].key = transactions[t].key
          /\ transactions'[t].hash = transactions[t].hash
          /\ transactions'[t].mined = transactions[t].mined
          /\ transactions'[t].seen = IF t = x THEN seen ELSE transactions[t].seen
  BY <1>1, <1>2, <1>3 DEF TransactionRow
<1>5. AppliedShows'
  BY <1>3, <1>4 DEF QueueInv, AppliedShows, x
<1>6. WritesSerialized'
  <2> SUFFICES ASSUME NEW s \in DOMAIN transactions, NEW t \in DOMAIN transactions, s < t,
                      transactions[s].hash = transactions[t].hash,
                      Kind(transactions[s].key) = Kind(transactions[t].key)
               PROVE  transactions'[s].seen \in {"unknown", "reverted"}
    BY <1>3, <1>4 DEF WritesSerialized, Kind
  <2>1. transactions[s].seen \in {"unknown", "reverted"}
    BY DEF QueueInv, WritesSerialized
  <2> QED BY <1>1, <1>4, <2>1
<1>7. \A t \in DOMAIN transactions' : transactions'[t].seen # "awaited"
  BY <1>1, <1>3, <1>4
<1> QED BY <1>2, <1>3, <1>5, <1>6, <1>7, HeadLeaves, QuietQueue

LEMMA WaitKeepsQueueInv ==
    ASSUME QueueInv, NEW q \in DOMAIN queue, Confirm(q) \/ GiveUp(q)
    PROVE  QueueInv'
<1>1. /\ q = 1 /\ queue[1].step = "waiting" /\ 1 \in DOMAIN queue
      /\ queue' = released(1) /\ UNCHANGED certificate
  BY DEF Confirm, GiveUp, Running, isTurn, registry, Completes, Fails
<1>2. \E seen \in {"confirmed", "reverted", "unknown"} :
          /\ See(1, seen)
          /\ seen = "confirmed" => transactions[queue[1].transaction].mined = "applied"
  BY <1>1 DEF Confirm, GiveUp, isConfirmed
<1> QED BY <1>1, <1>2, SeeKeepsQueueInv

\* The registry only moves on.
LEMMA MineKeepsQueueInv ==
    ASSUME QueueInv, NEW t \in DOMAIN transactions, Mine(t)
    PROVE  QueueInv'
<1> DEFINE key == transactions[t].key  h == transactions[t].hash
<1>1. /\ WriteTypes /\ UNCHANGED queue /\ transactions[t].mined = "no"
      /\ Len(transactions) \in Nat /\ DOMAIN transactions = 1 .. Len(transactions)
      /\ \A s \in DOMAIN transactions : transactions[s] \in TransactionRow
  BY QueueFacts DEF QueueInv, Mine
<1>2. PICK mined \in {"applied", "reverted"} :
          transactions' = [transactions EXCEPT ![t].mined = mined]
  BY DEF Mine
<1>3. /\ transactions' \in Seq(TransactionRow) /\ DOMAIN transactions' = DOMAIN transactions
      /\ \A s \in DOMAIN transactions :
             /\ transactions'[s].key = transactions[s].key
             /\ transactions'[s].hash = transactions[s].hash
             /\ transactions'[s].seen = transactions[s].seen
             /\ transactions'[s].mined = IF s = t THEN mined ELSE transactions[s].mined
  <2>1. /\ DOMAIN transactions' = DOMAIN transactions
        /\ \A s \in DOMAIN transactions : transactions'[s] =
               IF s = t THEN [transactions[s] EXCEPT !.mined = mined] ELSE transactions[s]
    BY <1>1, <1>2
  <2>2. \A s \in DOMAIN transactions :
            /\ transactions'[s] \in TransactionRow
            /\ transactions'[s].key = transactions[s].key
            /\ transactions'[s].hash = transactions[s].hash
            /\ transactions'[s].seen = transactions[s].seen
            /\ transactions'[s].mined = IF s = t THEN mined ELSE transactions[s].mined
    BY <1>1, <2>1 DEF TransactionRow
  <2>3. transactions' = [s \in 1 .. Len(transactions) |-> transactions'[s]]
    BY <1>1, <1>2
  <2> QED BY <1>1, <2>1, <2>2, <2>3
<1>4. h \in Hashes /\ Kind(key) \in Kinds
  BY <1>1 DEF TransactionRow, StorageKeys, Kind
<1>5. /\ certificate' \in [Hashes -> Certificate]
      /\ mined = "applied" => certificate'[h].status = Final(key)
      /\ \A g \in Hashes : certificate[g].status # certificate'[g].status =>
             \/ certificate[g].status = "NOT_FOUND"
             \/ certificate'[g].status = "REVOKED"
  <2>1. CASE /\ isAccepted(key, h)
             /\ certificate' = [certificate EXCEPT ![h] = [status |-> Final(key), mine |-> TRUE]]
    BY <1>1, <1>4, <2>1 DEF WriteTypes, Certificate, isAccepted, Final, Kinds
  <2>2. CASE UNCHANGED certificate /\ transactions' = [transactions EXCEPT ![t].mined = "reverted"]
    <3>1. mined = "reverted"
      BY <1>1, <1>2, <1>3, <2>2 DEF TransactionRow
    <3> QED BY <1>1, <2>2, <3>1 DEF WriteTypes
  <2> QED BY <2>1, <2>2 DEF Mine
<1>6. AppliedShows'
  <2> SUFFICES ASSUME NEW s \in DOMAIN transactions
               PROVE  /\ transactions'[s].seen = "confirmed" => transactions'[s].mined = "applied"
                      /\ transactions'[s].mined = "applied" =>
                             certificate'[transactions'[s].hash].status
                                 \in {Final(transactions'[s].key), "REVOKED"}
    BY <1>3 DEF AppliedShows, Final, Kind
  <2>1. transactions[s].hash \in Hashes /\ Final(transactions'[s].key) = Final(transactions[s].key)
    BY <1>1, <1>3 DEF TransactionRow
  <2>2. /\ transactions[s].seen = "confirmed" => transactions[s].mined = "applied"
        /\ transactions[s].mined = "applied" =>
               certificate[transactions[s].hash].status \in {Final(transactions[s].key), "REVOKED"}
    BY DEF QueueInv, AppliedShows
  <2>3. Final(transactions[s].key) \in {"ACTIVE", "REVOKED"}
    BY DEF Final
  <2> HIDE DEF key, h
  <2>4. key = transactions[t].key /\ h = transactions[t].hash
    BY DEF key, h
  <2> QED BY <1>1, <1>3, <1>5, <2>1, <2>2, <2>3, <2>4
<1>7. WaitingKnows'
  BY <1>1, <1>3 DEF QueueInv, WaitingKnows
<1>8. SendingKnows' /\ WritesSerialized'
  BY <1>1, <1>3 DEF QueueInv, SendingKnows, SameWrite, WritesSerialized, Kind
<1>9. WriteTypes' /\ OthersWait'
  BY <1>1, <1>3, <1>5 DEF QueueInv, WriteTypes, OthersWait
<1> QED BY <1>6, <1>7, <1>8, <1>9 DEF QueueInv

LEMMA OthersKeepQueueInv ==
    ASSUME QueueInv, Others
    PROVE  QueueInv'
<1>1. WriteTypes /\ UNCHANGED <<queue, transactions>>
  BY DEF QueueInv, Others
<1>2. /\ certificate' \in [Hashes -> Certificate]
      /\ \A g \in Hashes : certificate[g].status # certificate'[g].status =>
             \/ certificate[g].status = "NOT_FOUND"
             \/ certificate'[g].status = "REVOKED"
  <2>1. CASE \E h \in Hashes :
                \/ /\ certificate[h].status = "NOT_FOUND"
                   /\ certificate' = [certificate EXCEPT ![h].status = "ACTIVE"]
                \/ /\ certificate[h].status = "ACTIVE"
                   /\ certificate' = [certificate EXCEPT ![h].status = "REVOKED"]
    BY <1>1, <2>1 DEF WriteTypes, Certificate
  <2>2. CASE UNCHANGED certificate
    BY <1>1, <2>2 DEF WriteTypes
  <2> QED BY <2>1, <2>2 DEF Others
<1>3. AppliedShows'
  <2>1. \A s \in DOMAIN transactions : /\ transactions[s].hash \in Hashes
                                       /\ Final(transactions[s].key) \in {"ACTIVE", "REVOKED"}
    BY <1>1, QueueFacts DEF TransactionRow, Final
  <2> QED BY <1>1, <1>2, <2>1 DEF QueueInv, AppliedShows
<1>4. WaitingKnows' /\ OthersWait'
  BY <1>1 DEF QueueInv, WaitingKnows, OthersWait
<1>5. SendingKnows' /\ WritesSerialized'
  BY <1>1 DEF QueueInv, SendingKnows, SameWrite, WritesSerialized
<1> QED BY <1>1, <1>2, <1>3, <1>4, <1>5 DEF QueueInv, WriteTypes

\* What was waited for becomes unknown: it may still be mined.
LEMMA CrashKeepsQueueInv ==
    ASSUME QueueInv, Crash
    PROVE  QueueInv'
<1>1. /\ WriteTypes /\ queue' = << >> /\ UNCHANGED certificate
      /\ Len(transactions) \in Nat /\ DOMAIN transactions = 1 .. Len(transactions)
      /\ \A t \in DOMAIN transactions : transactions[t] \in TransactionRow
  BY QueueFacts DEF QueueInv, Crash, registry
<1>2. transactions' = [t \in DOMAIN transactions |->
           IF transactions[t].seen = "awaited" THEN [transactions[t] EXCEPT !.seen = "unknown"]
           ELSE transactions[t]]
  BY DEF Crash
<1>3. /\ transactions' \in Seq(TransactionRow) /\ DOMAIN transactions' = DOMAIN transactions
      /\ Len(transactions') = Len(transactions)
      /\ \A t \in DOMAIN transactions :
             /\ transactions'[t].key = transactions[t].key
             /\ transactions'[t].hash = transactions[t].hash
             /\ transactions'[t].mined = transactions[t].mined
             /\ transactions'[t].seen =
                    IF transactions[t].seen = "awaited" THEN "unknown" ELSE transactions[t].seen
  <2>1. \A t \in DOMAIN transactions :
            /\ transactions'[t] \in TransactionRow
            /\ transactions'[t].key = transactions[t].key
            /\ transactions'[t].hash = transactions[t].hash
            /\ transactions'[t].mined = transactions[t].mined
            /\ transactions'[t].seen =
                   IF transactions[t].seen = "awaited" THEN "unknown" ELSE transactions[t].seen
    <3> TAKE t \in DOMAIN transactions
    <3>1. CASE transactions[t].seen = "awaited"
      <4>1. transactions'[t] = [transactions[t] EXCEPT !.seen = "unknown"]
        BY <1>2, <3>1
      <4> QED BY <1>1, <3>1, <4>1 DEF TransactionRow
    <3>2. CASE transactions[t].seen # "awaited"
      BY <1>1, <1>2, <3>2
    <3> QED BY <3>1, <3>2
  <2>2. transactions' = [t \in 1 .. Len(transactions) |-> transactions'[t]]
    BY <1>1, <1>2
  <2> QED BY <1>1, <2>1, <2>2
<1>4. AppliedShows'
  BY <1>1, <1>3 DEF QueueInv, AppliedShows, Final, Kind
<1>5. WritesSerialized'
  BY <1>3 DEF QueueInv, WritesSerialized, Kind
<1>6. \A t \in DOMAIN transactions' : transactions'[t].seen # "awaited"
  BY <1>3
<1>7. queue' \in Seq(QueueEntry) /\ \A q \in DOMAIN queue' : queue'[q].step = "checking"
  BY <1>1
<1> QED BY <1>1, <1>3, <1>4, <1>5, <1>6, <1>7, QuietQueue

LEMMA QueueInvInductive ==
    ASSUME QueueInv, [GatewayNext]_vars
    PROVE  QueueInv'
<1>1. CASE UNCHANGED <<queue, transactions, certificate>>
  BY <1>1, QueueInvKept
<1>2. CASE LoadFails \/ \E key \in StorageKeys : Replay(key)
  BY <1>1, <1>2 DEF LoadFails, Replay, registry
<1>3. CASE \E key \in StorageKeys, h \in Hashes : Admit(key, h)
  BY <1>3, AdmitKeepsQueueInv
<1>4. CASE \E q \in DOMAIN queue : Execute(q)
  BY <1>4, CheckKeepsQueueInv, SendKeepsQueueInv, WaitKeepsQueueInv DEF Execute
<1>5. CASE Others \/ Crash \/ \E t \in DOMAIN transactions : Mine(t)
  BY <1>5, OthersKeepQueueInv, CrashKeepsQueueInv, MineKeepsQueueInv
<1> QED BY <1>1, <1>2, <1>3, <1>4, <1>5 DEF GatewayNext, Post, vars, registry

LEMMA InitQueueInv == GatewayInit => QueueInv
BY DEF GatewayInit, QueueInv, WriteTypes, Certificate, OthersWait, WaitingKnows, SendingKnows,
       AppliedShows, WritesSerialized

\* Two transactions of one kind for one document are only ever sent when the first is
\* known to have failed or its outcome is unknown: WritesSerialized.
THEOREM WritesAreSerialized == GatewaySpec => []WritesSerialized
<1>1. GatewayInit => QueueInv
  BY InitQueueInv
<1>2. QueueInv /\ [GatewayNext]_vars => QueueInv'
  BY QueueInvInductive
<1>3. QueueInv => WritesSerialized
  BY DEF QueueInv
<1> QED BY <1>1, <1>2, <1>3, PTL DEF GatewaySpec

-----------------------------------------------------------------------------
(* What the operators on the journal keep. *)

KeysUnique(ops) == \A i, j \in DOMAIN ops : ops[i].key = ops[j].key => i = j

\* An operation is recorded as not completed.
Recorded(ops, key, h) ==
    \E i \in DOMAIN ops : ops[i].key = key /\ ops[i].fingerprint = h /\ ops[i].state # "completed"

WasApplied(txs, key, h) ==
    \E t \in DOMAIN txs : txs[t].key = key /\ txs[t].hash = h /\ txs[t].mined = "applied"

Backed(ops, txs) ==
    \A i \in DOMAIN ops : ops[i].state = "completed" =>
        WasApplied(txs, ops[i].key, ops[i].fingerprint)

JournalOK(ops, txs) ==
    ops \in Seq(Operation) /\ Len(ops) <= MaxOperations /\ KeysUnique(ops) /\ Backed(ops, txs)

Absent(ops, key) == \A i \in DOMAIN ops : ops[i].key # key

LEMMA JournalFacts ==
    ASSUME NEW ops \in Seq(Operation)
    PROVE  /\ Len(ops) \in Nat /\ DOMAIN ops = 1 .. Len(ops)
           /\ \A i \in DOMAIN ops : ops[i] \in Operation
OBVIOUS

LEMMA SelectedOK ==
    ASSUME NEW ops, NEW txs, JournalOK(ops, txs), NEW places \in SUBSET DOMAIN ops
    PROVE  /\ JournalOK(Selected(ops, places), txs)
           /\ \A i \in places : \E n \in DOMAIN Selected(ops, places) :
                                     Selected(ops, places)[n] = ops[i]
           /\ \A key : Absent(ops, key) => Absent(Selected(ops, places), key)
<1> DEFINE kept == Selected(ops, places)
<1>1. /\ ops \in Seq(Operation) /\ Len(ops) <= MaxOperations /\ MaxOperations \in Nat
      /\ Len(ops) \in Nat
  BY CapacityAssumption DEF JournalOK
<1>2. /\ kept \in Seq(Operation) /\ Len(kept) <= Len(ops)
      /\ \A i \in places : \E n \in DOMAIN kept : kept[n] = ops[i]
      /\ \E f \in [DOMAIN kept -> places] :
             /\ \A n \in DOMAIN kept : kept[n] = ops[f[n]]
             /\ \A n, o \in DOMAIN kept : f[n] = f[o] => n = o
  BY <1>1, SelectedFacts
<1> HIDE DEF kept
<1>3. PICK f \in [DOMAIN kept -> places] :
          /\ \A n \in DOMAIN kept : kept[n] = ops[f[n]]
          /\ \A n, o \in DOMAIN kept : f[n] = f[o] => n = o
  BY <1>2
<1>4. \A n \in DOMAIN kept : f[n] \in DOMAIN ops
  BY <1>3
<1>5. KeysUnique(kept)
  BY <1>3, <1>4 DEF JournalOK, KeysUnique
<1>6. Backed(kept, txs)
  BY <1>3, <1>4 DEF JournalOK, Backed
<1>7. \A key : Absent(ops, key) => Absent(kept, key)
  BY <1>3, <1>4 DEF Absent
<1>8. Len(kept) <= MaxOperations
  <2>1. Len(kept) \in Nat
    BY <1>2
  <2> QED BY <1>1, <1>2, <2>1
<1> QED BY <1>2, <1>5, <1>6, <1>7, <1>8 DEF JournalOK, kept

LEMMA WithoutOK ==
    ASSUME NEW ops, NEW txs, JournalOK(ops, txs), NEW key
    PROVE  /\ JournalOK(Without(ops, key), txs)
           /\ \A k, h : k # key /\ Recorded(ops, k, h) => Recorded(Without(ops, key), k, h)
<1> DEFINE places == {i \in DOMAIN ops : ops[i].key # key}
<1>1. places \in SUBSET DOMAIN ops /\ Without(ops, key) = Selected(ops, places)
  BY DEF Without
<1>2. \A k, h, i : i \in DOMAIN ops /\ k # key /\ ops[i].key = k => i \in places
  OBVIOUS
<1> HIDE DEF places
<1>3. /\ JournalOK(Selected(ops, places), txs)
      /\ \A i \in places : \E n \in DOMAIN Selected(ops, places) : Selected(ops, places)[n] = ops[i]
  BY <1>1, SelectedOK
<1> QED BY <1>1, <1>2, <1>3 DEF Recorded

LEMMA PrunedOK ==
    ASSUME NEW ops, NEW txs, JournalOK(ops, txs), NEW targetSize
    PROVE  /\ JournalOK(pruned(ops, targetSize), txs)
           /\ \A k, h : Recorded(ops, k, h) => Recorded(pruned(ops, targetSize), k, h)
           /\ \A k : Absent(ops, k) => Absent(pruned(ops, targetSize), k)
<1> DEFINE older(i) == {j \in 1 .. i - 1 : isPrunable(ops[j].state)}
           goes(i) == isPrunable(ops[i].state) /\ targetSize + Cardinality(older(i)) < Len(ops)
           places == {i \in DOMAIN ops : ~goes(i)}
<1>1. places \in SUBSET DOMAIN ops /\ pruned(ops, targetSize) = Selected(ops, places)
  BY DEF pruned
<1>2. \A i \in DOMAIN ops : ops[i].state # "completed" => i \in places
  BY DEF isPrunable
<1> HIDE DEF places
<1>3. /\ JournalOK(Selected(ops, places), txs)
      /\ \A i \in places : \E n \in DOMAIN Selected(ops, places) : Selected(ops, places)[n] = ops[i]
      /\ \A k : Absent(ops, k) => Absent(Selected(ops, places), k)
  BY <1>1, SelectedOK
<1> QED BY <1>1, <1>2, <1>3 DEF Recorded

LEMMA UpdateOK ==
    ASSUME NEW ops, NEW txs, JournalOK(ops, txs), NEW key,
           NEW state \in {"pending", "completed", "failed"},
           state = "completed" =>
               \A i \in DOMAIN ops : ops[i].key = key => WasApplied(txs, key, ops[i].fingerprint)
    PROVE  /\ JournalOK(Update(ops, key, state), txs)
           /\ \A k, h : (state = "completed" => k # key) /\ Recorded(ops, k, h)
                          => Recorded(Update(ops, key, state), k, h)
<1> DEFINE updated == Update(ops, key, state)
<1>1. /\ ops \in Seq(Operation) /\ Len(ops) \in Nat /\ DOMAIN ops = 1 .. Len(ops)
      /\ \A i \in DOMAIN ops : ops[i] \in Operation
  BY JournalFacts DEF JournalOK
<1>2. updated = [i \in 1 .. Len(ops) |->
                    IF ops[i].key = key THEN [ops[i] EXCEPT !.state = state, !.promise = FALSE]
                    ELSE ops[i]]
  BY <1>1 DEF Update
<1>3. \A o \in Operation :
          LET other == [o EXCEPT !.state = state, !.promise = FALSE] IN
          /\ other \in Operation /\ other.key = o.key /\ other.fingerprint = o.fingerprint
          /\ other.state = state
  BY DEF Operation
<1> HIDE DEF updated
<1>4. \A i \in DOMAIN ops :
          /\ updated[i] \in Operation /\ updated[i].key = ops[i].key
          /\ updated[i].fingerprint = ops[i].fingerprint
          /\ updated[i].state = IF ops[i].key = key THEN state ELSE ops[i].state
  <2> TAKE i \in DOMAIN ops
  <2>1. CASE ops[i].key = key
    BY <1>1, <1>2, <1>3, <2>1
  <2>2. CASE ops[i].key # key
    BY <1>1, <1>2, <2>2
  <2> QED BY <2>1, <2>2
<1>5. updated \in Seq(Operation) /\ Len(updated) = Len(ops) /\ DOMAIN updated = DOMAIN ops
  <2>1. updated = [i \in 1 .. Len(ops) |-> updated[i]]
    BY <1>2
  <2>2. \A i \in 1 .. Len(ops) : updated[i] \in Operation
    BY <1>1, <1>4
  <2> QED BY <1>1, <2>1, <2>2
<1>6. KeysUnique(updated) /\ Backed(updated, txs)
  BY <1>4, <1>5 DEF JournalOK, KeysUnique, Backed
<1>7. \A k, h : (state = "completed" => k # key) /\ Recorded(ops, k, h) => Recorded(updated, k, h)
  BY <1>4, <1>5 DEF Recorded
<1> QED BY <1>5, <1>6, <1>7 DEF JournalOK, updated

LEMMA PersistedOK ==
    ASSUME NEW ops, NEW txs, JournalOK(ops, txs)
    PROVE  /\ JournalOK(persisted(ops), txs)
           /\ \A k, h : Recorded(ops, k, h) => Recorded(persisted(ops), k, h)
<1> DEFINE file == persisted(ops)
<1>1. /\ ops \in Seq(Operation) /\ Len(ops) \in Nat /\ DOMAIN ops = 1 .. Len(ops)
      /\ \A i \in DOMAIN ops : ops[i] \in Operation
  BY JournalFacts DEF JournalOK
<1>2. file = [i \in 1 .. Len(ops) |-> [ops[i] EXCEPT !.promise = FALSE]]
  BY <1>1 DEF persisted
<1>3. \A o \in Operation :
          LET other == [o EXCEPT !.promise = FALSE] IN
          /\ other \in Operation /\ other.key = o.key /\ other.fingerprint = o.fingerprint
          /\ other.state = o.state
  BY DEF Operation
<1> HIDE DEF file
<1>4. \A i \in DOMAIN ops :
          /\ file[i] \in Operation /\ file[i].key = ops[i].key
          /\ file[i].fingerprint = ops[i].fingerprint /\ file[i].state = ops[i].state
  BY <1>1, <1>2, <1>3
<1>5. file \in Seq(Operation) /\ Len(file) = Len(ops) /\ DOMAIN file = DOMAIN ops
  BY <1>1, <1>2, <1>4
<1>6. KeysUnique(file) /\ Backed(file, txs)
  BY <1>4, <1>5 DEF JournalOK, KeysUnique, Backed
<1>7. \A k, h : Recorded(ops, k, h) => Recorded(file, k, h)
  BY <1>4, <1>5 DEF Recorded
<1> QED BY <1>5, <1>6, <1>7 DEF JournalOK, file

LEMMA AppendOK ==
    ASSUME NEW ops, NEW txs, JournalOK(ops, txs), hasRoom(ops),
           NEW o \in Operation, o.state = "pending", Absent(ops, o.key),
           NEW more, more = Append(ops, o)
    PROVE  /\ JournalOK(more, txs) /\ Recorded(more, o.key, o.fingerprint)
           /\ \A k, g : Recorded(ops, k, g) => Recorded(more, k, g)
<1> DEFINE key == o.key
<1>1. ops \in Seq(Operation) /\ Len(ops) \in Nat /\ DOMAIN ops = 1 .. Len(ops)
  BY JournalFacts DEF JournalOK
<1>4. /\ more \in Seq(Operation) /\ Len(more) = Len(ops) + 1 /\ DOMAIN more = 1 .. Len(ops) + 1
      /\ \A i \in DOMAIN ops : more[i] = ops[i]
      /\ more[Len(ops) + 1] = o
  BY <1>1
<1>5. Len(more) <= MaxOperations
  BY <1>1, <1>4, CapacityAssumption DEF hasRoom
<1>6. \A i \in DOMAIN more : i \in DOMAIN ops \/ i = Len(ops) + 1
  BY <1>1, <1>4
<1>7. KeysUnique(more)
  <2> SUFFICES ASSUME NEW i \in DOMAIN more, NEW j \in DOMAIN more, more[i].key = more[j].key
               PROVE  i = j
    BY DEF KeysUnique
  <2>1. \A n \in DOMAIN more :
            \/ n \in DOMAIN ops /\ more[n] = ops[n] /\ ops[n].key # key
            \/ n = Len(ops) + 1 /\ more[n].key = key
    <3> TAKE n \in DOMAIN more
    <3>1. CASE n \in DOMAIN ops
      BY <1>4, <3>1 DEF Absent
    <3>2. CASE n = Len(ops) + 1
      BY <1>4, <3>2
    <3> QED BY <1>6, <3>1, <3>2
  <2>2. CASE i \in DOMAIN ops /\ j \in DOMAIN ops
    BY <1>4, <2>2 DEF JournalOK, KeysUnique
  <2> QED BY <2>1, <2>2
<1>8. Backed(more, txs)
  <2> SUFFICES ASSUME NEW i \in DOMAIN more, more[i].state = "completed"
               PROVE  WasApplied(txs, more[i].key, more[i].fingerprint)
    BY DEF Backed
  <2>1. i \in DOMAIN ops
    BY <1>4, <1>6
  <2> QED BY <1>4, <2>1 DEF JournalOK, Backed
<1>9. Len(ops) + 1 \in DOMAIN more /\ DOMAIN ops \subseteq DOMAIN more
  BY <1>1, <1>4
<1>10. Recorded(more, key, o.fingerprint)
  BY <1>4, <1>9 DEF Recorded
<1>11. \A k, g : Recorded(ops, k, g) => Recorded(more, k, g)
  BY <1>4, <1>9 DEF Recorded
<1> QED BY <1>4, <1>5, <1>7, <1>8, <1>10, <1>11 DEF JournalOK

-----------------------------------------------------------------------------
(* The invariant. *)

\* What is under way is recorded, in memory and in the file, under a key of its own.
QueueRecorded ==
    \A q \in DOMAIN queue :
        /\ loaded
        /\ Recorded(operations, queue[q].key, queue[q].hash)
        /\ Recorded(store, queue[q].key, queue[q].hash)
        /\ \A r \in DOMAIN queue : queue[r].key = queue[q].key => r = q

WaitingIsOurs ==
    \A q \in DOMAIN queue : queue[q].step = "waiting" =>
        /\ transactions[queue[q].transaction].key = queue[q].key
        /\ transactions[queue[q].transaction].hash = queue[q].hash

\* Of the transactions with the key of an operation under way, only the one it waits
\* for has not been seen to succeed.
KeysFree ==
    readable => \A q \in DOMAIN queue, t \in DOMAIN transactions :
        transactions[t].key = queue[q].key /\ transactions[t].seen # "confirmed" =>
            queue[q].step = "waiting" /\ queue[q].transaction = t

JournalInv ==
    /\ QueueInv
    /\ loaded \in BOOLEAN /\ readable \in BOOLEAN /\ authorized \in BOOLEAN
    /\ JournalOK(operations, transactions) /\ JournalOK(store, transactions)
    /\ QueueRecorded /\ WaitingIsOurs /\ KeysFree
    /\ UnresolvedRemembered /\ OneTransactionIfReadable

LEMMA RemembersIsRecorded ==
    \A ops, t : Remembers(ops, t) <=> Recorded(ops, transactions[t].key, transactions[t].hash)
BY DEF Remembers, Recorded

\* Transactions keep their key and document, and stay applied.
TransactionsStay ==
    \A t \in DOMAIN transactions :
        /\ t \in DOMAIN transactions'
        /\ transactions'[t].key = transactions[t].key
        /\ transactions'[t].hash = transactions[t].hash
        /\ transactions[t].mined = "applied" => transactions'[t].mined = "applied"
        /\ transactions[t].seen = "confirmed" => transactions'[t].seen = "confirmed"

LEMMA BackedStays ==
    ASSUME TransactionsStay, NEW ops, JournalOK(ops, transactions)
    PROVE  JournalOK(ops, transactions')
BY DEF TransactionsStay, JournalOK, Backed, WasApplied

\* The transactions are the same ones.
SameTransactions == TransactionsStay /\ DOMAIN transactions' = DOMAIN transactions

LEMMA PairsStay ==
    ASSUME SameTransactions, OneTransactionIfReadable, readable' => readable
    PROVE  OneTransactionIfReadable'
BY DEF SameTransactions, TransactionsStay, OneTransactionIfReadable, OneTransactionPerRequest

LEMMA Unchanged ==
    ASSUME UNCHANGED transactions
    PROVE  SameTransactions
BY DEF SameTransactions, TransactionsStay

-----------------------------------------------------------------------------
(* Requests that reach the journal. *)

\* The journal is read on the first request; by then nothing is under way.
LEMMA LoadedFacts ==
    ASSUME JournalInv
    PROVE  /\ JournalOK(loadedOperations, transactions)
           /\ \A q \in DOMAIN queue : loaded /\ loadedOperations = operations
           /\ readable => \A t \in DOMAIN transactions : transactions[t].seen # "confirmed" =>
                  /\ Recorded(store, transactions[t].key, transactions[t].hash)
                  /\ Recorded(loadedOperations, transactions[t].key, transactions[t].hash)
BY RemembersIsRecorded DEF JournalInv, loadedOperations, QueueRecorded, UnresolvedRemembered

LEMMA LoadFailsStep ==
    ASSUME JournalInv, QueueInv', LoadFails
    PROVE  JournalInv'
<1>1. /\ ~loaded /\ loaded' = TRUE /\ operations' = << >> /\ readable' = FALSE
      /\ UNCHANGED <<store, queue, transactions, certificate, authorized>>
  BY DEF LoadFails, registry
<1>2. \A q \in DOMAIN queue : FALSE
  BY <1>1 DEF JournalInv, QueueRecorded
<1>3. JournalOK(<< >>, transactions)
  BY CapacityAssumption DEF JournalOK, KeysUnique, Backed
<1>4. QueueRecorded' /\ WaitingIsOurs' /\ KeysFree'
  BY <1>1, <1>2 DEF QueueRecorded, WaitingIsOurs, KeysFree
<1>5. UnresolvedRemembered' /\ OneTransactionIfReadable'
  BY <1>1 DEF UnresolvedRemembered, OneTransactionIfReadable
<1>6. JournalOK(operations, transactions)' /\ JournalOK(store, transactions)'
  BY <1>1, <1>3 DEF JournalInv
<1> QED BY <1>1, <1>4, <1>5, <1>6 DEF JournalInv

\* The journal in memory may have grown, and the file with it; who is under way is as
\* before.
LEMMA MemoryStep ==
    ASSUME JournalInv, QueueInv', loaded' = TRUE,
           UNCHANGED <<readable, queue, transactions, authorized>>,
           JournalOK(operations', transactions), JournalOK(store', transactions),
           \A k, h : Recorded(loadedOperations, k, h) => Recorded(operations', k, h),
           \A k, h : Recorded(loadedOperations, k, h) /\ Recorded(store, k, h)
                         => Recorded(store', k, h)
    PROVE  JournalInv'
<1>1. QueueRecorded'
  <2> SUFFICES ASSUME NEW q \in DOMAIN queue
               PROVE  /\ Recorded(operations', queue[q].key, queue[q].hash)
                      /\ Recorded(store', queue[q].key, queue[q].hash)
                      /\ \A r \in DOMAIN queue : queue[r].key = queue[q].key => r = q
    BY DEF QueueRecorded, Recorded
  <2> QED BY LoadedFacts DEF JournalInv, QueueRecorded
<1>2. WaitingIsOurs' /\ KeysFree' /\ OneTransactionIfReadable'
  BY DEF JournalInv, WaitingIsOurs, KeysFree, OneTransactionIfReadable, OneTransactionPerRequest
<1>3. UnresolvedRemembered'
  <2> SUFFICES ASSUME readable, NEW t \in DOMAIN transactions, transactions[t].seen # "confirmed"
               PROVE  /\ Recorded(store', transactions[t].key, transactions[t].hash)
                      /\ Recorded(operations', transactions[t].key, transactions[t].hash)
    BY DEF UnresolvedRemembered, Remembers, Recorded
  <2> QED BY LoadedFacts
<1>4. JournalOK(operations, transactions)' /\ JournalOK(store, transactions)'
  BY DEF JournalOK, Backed, WasApplied, KeysUnique
<1> QED BY <1>1, <1>2, <1>3, <1>4 DEF JournalInv

LEMMA ReplayStep ==
    ASSUME JournalInv, QueueInv', NEW key \in StorageKeys, Replay(key)
    PROVE  JournalInv'
<1>1. /\ loaded' = TRUE /\ operations' = loadedOperations
      /\ UNCHANGED <<store, readable, queue, transactions, authorized>>
  BY DEF Replay, registry
<1>2. JournalOK(operations', transactions) /\ JournalOK(store', transactions)
  BY <1>1, LoadedFacts DEF JournalInv
<1> QED BY <1>1, <1>2, MemoryStep

\* An operation is admitted under a key that the journal does not hold, so that no
\* transaction of this key is unresolved and no operation under way uses it.
LEMMA AdmittedStep ==
    ASSUME JournalInv, QueueInv', NEW key \in StorageKeys, NEW h \in Hashes,
           Absent(loadedOperations, key), loaded' = TRUE,
           UNCHANGED <<readable, transactions, authorized>>,
           JournalOK(operations', transactions), JournalOK(store', transactions),
           \A k, g : Recorded(loadedOperations, k, g) =>
                        Recorded(operations', k, g) /\ Recorded(store', k, g),
           Recorded(operations', key, h), Recorded(store', key, h),
           queue' = Append(queue, [key |-> key, hash |-> h, step |-> "checking",
                                   transaction |-> 0])
    PROVE  JournalInv'
<1> DEFINE n == Len(queue) + 1
<1>1. /\ Len(queue) \in Nat /\ DOMAIN queue = 1 .. Len(queue) /\ queue \in Seq(QueueEntry)
      /\ \A q \in DOMAIN queue : queue[q] \in QueueEntry
  BY QueueFacts DEF JournalInv, QueueInv, WriteTypes
<1>2. /\ DOMAIN queue' = 1 .. n
      /\ \A q \in DOMAIN queue : q \in DOMAIN queue' /\ queue'[q] = queue[q]
      /\ queue'[n].key = key /\ queue'[n].hash = h /\ queue'[n].step = "checking"
      /\ \A q \in DOMAIN queue' : q \in DOMAIN queue \/ q = n
  BY <1>1
<1> HIDE DEF n
<1>3. \A q \in DOMAIN queue : queue[q].key # key
  <2> TAKE q \in DOMAIN queue
  <2>1. Recorded(loadedOperations, queue[q].key, queue[q].hash)
    BY LoadedFacts DEF JournalInv, QueueRecorded
  <2> QED BY <2>1 DEF Recorded, Absent
<1>4. readable => \A t \in DOMAIN transactions :
          transactions[t].seen # "confirmed" => transactions[t].key # key
  BY LoadedFacts DEF Recorded, Absent
<1>5. QueueRecorded'
  <2>1. ASSUME NEW q \in DOMAIN queue'
        PROVE  /\ Recorded(operations', queue'[q].key, queue'[q].hash)
               /\ Recorded(store', queue'[q].key, queue'[q].hash)
    <3>1. CASE q = n
      BY <1>2, <3>1
    <3>2. CASE q \in DOMAIN queue
      <4>1. Recorded(loadedOperations, queue[q].key, queue[q].hash)
        BY <3>2, LoadedFacts DEF JournalInv, QueueRecorded
      <4> QED BY <1>2, <3>2, <4>1
    <3> QED BY <1>2, <3>1, <3>2
  <2>2. \A q, r \in DOMAIN queue' : queue'[r].key = queue'[q].key => r = q
    <3> SUFFICES ASSUME NEW q \in DOMAIN queue', NEW r \in DOMAIN queue',
                        queue'[r].key = queue'[q].key
                 PROVE  r = q
      OBVIOUS
    <3>1. CASE q \in DOMAIN queue /\ r \in DOMAIN queue
      BY <1>2, <3>1 DEF JournalInv, QueueRecorded
    <3> QED BY <1>2, <1>3, <3>1
  <2>3. \A q \in DOMAIN queue' :
            /\ Recorded(operations', queue'[q].key, queue'[q].hash)
            /\ Recorded(store', queue'[q].key, queue'[q].hash)
    BY <2>1
  <2> QED BY <2>2, <2>3 DEF QueueRecorded, Recorded
<1>6. WaitingIsOurs'
  <2> SUFFICES ASSUME NEW q \in DOMAIN queue', queue'[q].step = "waiting"
               PROVE  /\ transactions[queue'[q].transaction].key = queue'[q].key
                      /\ transactions[queue'[q].transaction].hash = queue'[q].hash
    BY DEF WaitingIsOurs
  <2>1. q \in DOMAIN queue /\ queue'[q] = queue[q]
    BY <1>2
  <2> QED BY <2>1 DEF JournalInv, WaitingIsOurs
<1>7. KeysFree'
  <2> SUFFICES ASSUME readable, NEW q \in DOMAIN queue', NEW t \in DOMAIN transactions,
                      transactions[t].key = queue'[q].key, transactions[t].seen # "confirmed"
               PROVE  queue'[q].step = "waiting" /\ queue'[q].transaction = t
    BY DEF KeysFree
  <2>1. q \in DOMAIN queue /\ queue'[q] = queue[q]
    BY <1>2, <1>4
  <2> QED BY <2>1 DEF JournalInv, KeysFree
<1>8. UnresolvedRemembered'
  <2> SUFFICES ASSUME readable, NEW t \in DOMAIN transactions, transactions[t].seen # "confirmed"
               PROVE  /\ Recorded(store', transactions[t].key, transactions[t].hash)
                      /\ Recorded(operations', transactions[t].key, transactions[t].hash)
    BY DEF UnresolvedRemembered, Remembers, Recorded
  <2> QED BY LoadedFacts
<1>9. OneTransactionIfReadable'
  BY DEF JournalInv, OneTransactionIfReadable, OneTransactionPerRequest
<1>10. JournalOK(operations, transactions)' /\ JournalOK(store, transactions)'
  BY DEF JournalOK, Backed, WasApplied, KeysUnique
<1> QED BY <1>5, <1>6, <1>7, <1>8, <1>9, <1>10 DEF JournalInv

LEMMA AdmitStep ==
    ASSUME JournalInv, QueueInv', NEW key \in StorageKeys, NEW h \in Hashes, Admit(key, h)
    PROVE  JournalInv'
<1> DEFINE room == pruned(loadedOperations, MaxOperations - 1)
           record == [key |-> key, fingerprint |-> h, state |-> "pending", promise |-> FALSE]
           started == Append(room, [record EXCEPT !.promise = TRUE])
           failed == Append(room, record)
<1>1. /\ Absent(loadedOperations, key) /\ loaded' = TRUE
      /\ UNCHANGED <<readable, transactions, authorized>>
      /\ \/ operations' = room /\ UNCHANGED <<store, queue>>
         \/ /\ hasRoom(room) /\ operations' = started /\ store' = persisted(started)
            /\ queue' = Append(queue, [key |-> key, hash |-> h, step |-> "checking",
                                       transaction |-> 0])
         \/ hasRoom(room) /\ operations' = failed /\ UNCHANGED <<store, queue>>
  BY DEF Admit, Absent, registry
<1>2. /\ JournalOK(loadedOperations, transactions) /\ JournalOK(store, transactions)
  BY LoadedFacts DEF JournalInv
<1>3. /\ JournalOK(room, transactions) /\ Absent(room, key)
      /\ \A k, g : Recorded(loadedOperations, k, g) => Recorded(room, k, g)
  BY <1>1, <1>2, PrunedOK
<1> DEFINE running == [record EXCEPT !.promise = TRUE]
<1>4. /\ record \in Operation /\ record.key = key /\ record.fingerprint = h
      /\ record.state = "pending"
      /\ running \in Operation /\ running.key = key /\ running.fingerprint = h
      /\ running.state = "pending"
  BY DEF Operation
<1> HIDE DEF record, running
<1> HIDE DEF room
<1>5. CASE operations' = room /\ UNCHANGED <<store, queue>>
  BY <1>1, <1>2, <1>3, <1>5, MemoryStep
<1>6. CASE hasRoom(room) /\ operations' = failed /\ UNCHANGED <<store, queue>>
  <2> DEFINE more == failed
  <2>1. more = Append(room, record)
    OBVIOUS
  <2> HIDE DEF more
  <2>2. /\ JournalOK(more, transactions)
        /\ \A k, g : Recorded(room, k, g) => Recorded(more, k, g)
    BY <1>3, <1>4, <1>6, <2>1, AppendOK
  <2>3. operations' = more
    BY <1>6 DEF more
  <2> QED BY <1>1, <1>2, <1>3, <1>6, <2>2, <2>3, MemoryStep
<1>7. CASE /\ hasRoom(room) /\ operations' = started /\ store' = persisted(started)
           /\ queue' = Append(queue, [key |-> key, hash |-> h, step |-> "checking",
                                      transaction |-> 0])
  <2> DEFINE more == started
  <2>1. more = Append(room, running)
    BY DEF running
  <2>2. operations' = more /\ store' = persisted(more)
    BY <1>7
  <2> HIDE DEF more
  <2>3. /\ JournalOK(more, transactions) /\ Recorded(more, key, h)
        /\ \A k, g : Recorded(room, k, g) => Recorded(more, k, g)
    BY <1>3, <1>4, <1>7, <2>1, AppendOK
  <2>4. /\ JournalOK(persisted(more), transactions)
        /\ \A k, g : Recorded(more, k, g) => Recorded(persisted(more), k, g)
    BY <2>3, PersistedOK
  <2>5. /\ JournalOK(operations', transactions) /\ JournalOK(store', transactions)
        /\ Recorded(operations', key, h) /\ Recorded(store', key, h)
        /\ \A k, g : Recorded(loadedOperations, k, g) =>
                         Recorded(operations', k, g) /\ Recorded(store', k, g)
    BY <1>3, <2>2, <2>3, <2>4
  <2> QED BY <1>1, <1>7, <2>5, AdmittedStep
<1> QED BY <1>1, <1>5, <1>6, <1>7

-----------------------------------------------------------------------------
(* The end of an operation. *)

\* The head of the queue ends.  What others have recorded stays, and whatever of its own
\* key may still be mined is recorded.
LEMMA EndStep ==
    ASSUME JournalInv, QueueInv', 1 \in DOMAIN queue, queue' = released(1),
           UNCHANGED <<loaded, readable, authorized>>, TransactionsStay,
           \A t \in DOMAIN transactions' :
               t \in DOMAIN transactions \/ transactions'[t].key = queue[1].key,
           OneTransactionIfReadable', JournalOK(operations', transactions'),
           store' \in {persisted(operations'), store},
           \A k, h : k # queue[1].key /\ Recorded(operations, k, h) => Recorded(operations', k, h),
           readable => \A t \in DOMAIN transactions' :
               transactions'[t].key = queue[1].key /\ transactions'[t].seen # "confirmed" =>
                   /\ Recorded(operations', transactions'[t].key, transactions'[t].hash)
                   /\ Recorded(store', transactions'[t].key, transactions'[t].hash)
    PROVE  JournalInv'
<1> DEFINE head == queue[1].key
<1>1. /\ \A q \in DOMAIN queue' : /\ q + 1 \in DOMAIN queue /\ q \in Nat \ {0}
                                  /\ queue'[q] = queue[q + 1]
      /\ \A q \in DOMAIN queue' : queue'[q].step = "checking"
      /\ loaded
  BY ReleasedHead, HeadLeaves DEF JournalInv, QueueInv, QueueRecorded
<1>2. \A q \in DOMAIN queue' : queue'[q].key # head
  BY <1>1 DEF JournalInv, QueueRecorded
<1> HIDE DEF head
<1>3. \A k, h : k # head /\ Recorded(operations, k, h) => Recorded(operations', k, h)
  BY DEF head
<1>4. /\ JournalOK(store', transactions')
      /\ \A k, h : Recorded(operations', k, h) /\ Recorded(store, k, h) => Recorded(store', k, h)
  <2>1. CASE store' = persisted(operations')
    BY <2>1, PersistedOK
  <2>2. CASE store' = store
    BY <2>2, BackedStays DEF JournalInv
  <2> QED BY <2>1, <2>2
<1>5. QueueRecorded'
  <2>1. \A q \in DOMAIN queue' : /\ Recorded(operations', queue'[q].key, queue'[q].hash)
                                 /\ Recorded(store', queue'[q].key, queue'[q].hash)
    BY <1>1, <1>2, <1>3, <1>4 DEF JournalInv, QueueRecorded
  <2>2. \A q, r \in DOMAIN queue' : queue'[r].key = queue'[q].key => r = q
    <3> TAKE q, r \in DOMAIN queue'
    <3>1. queue[r + 1].key = queue[q + 1].key => r + 1 = q + 1
      BY <1>1 DEF JournalInv, QueueRecorded
    <3>2. q \in Nat /\ r \in Nat
      BY <1>1
    <3> QED BY <1>1, <3>1, <3>2
  <2> QED BY <1>1, <2>1, <2>2 DEF QueueRecorded, Recorded
<1>6. WaitingIsOurs'
  BY <1>1 DEF WaitingIsOurs
<1>7. KeysFree'
  <2> SUFFICES ASSUME readable, NEW q \in DOMAIN queue', NEW t \in DOMAIN transactions',
                      transactions'[t].key = queue'[q].key, transactions'[t].seen # "confirmed"
               PROVE  FALSE
    BY DEF KeysFree
  <2>1. t \in DOMAIN transactions
    BY <1>2 DEF head
  <2>2. transactions[t].key = queue[q + 1].key /\ transactions[t].seen # "confirmed"
    BY <1>1, <2>1 DEF TransactionsStay
  <2>3. queue[q + 1].step = "waiting"
    BY <1>1, <2>1, <2>2 DEF JournalInv, KeysFree
  <2> QED BY <1>1, <2>3
<1>8. UnresolvedRemembered'
  <2> SUFFICES ASSUME readable, NEW t \in DOMAIN transactions', transactions'[t].seen # "confirmed"
               PROVE  /\ Recorded(operations', transactions'[t].key, transactions'[t].hash)
                      /\ Recorded(store', transactions'[t].key, transactions'[t].hash)
    BY DEF UnresolvedRemembered, Remembers, Recorded
  <2>1. CASE transactions'[t].key = head
    BY <2>1 DEF head
  <2>2. CASE transactions'[t].key # head
    <3>1. t \in DOMAIN transactions
      BY <2>2 DEF head
    <3>2. /\ transactions[t].key = transactions'[t].key
          /\ transactions[t].hash = transactions'[t].hash /\ transactions[t].seen # "confirmed"
      BY <3>1 DEF TransactionsStay
    <3>3. /\ Recorded(operations, transactions[t].key, transactions[t].hash)
          /\ Recorded(store, transactions[t].key, transactions[t].hash)
      BY <1>1, <3>1, <3>2, RemembersIsRecorded DEF JournalInv, UnresolvedRemembered
    <3> QED BY <1>3, <1>4, <2>2, <3>2, <3>3
  <2> QED BY <2>1, <2>2
<1>9. JournalOK(operations, transactions)' /\ JournalOK(store, transactions)'
  BY <1>4 DEF JournalOK, Backed, WasApplied, KeysUnique
<1> QED BY <1>5, <1>6, <1>7, <1>8, <1>9 DEF JournalInv

\* A refused operation sent nothing, so its key may go.
LEMMA RefusedStep ==
    ASSUME JournalInv, QueueInv', 1 \in DOMAIN queue, queue[1].step # "waiting",
           IsRefused(1), UNCHANGED <<transactions, authorized>>
    PROVE  JournalInv'
<1>1. /\ queue' = released(1) /\ UNCHANGED <<loaded, readable>>
      /\ operations' = Without(operations, queue[1].key)
      /\ store' \in {persisted(operations'), store}
  BY DEF IsRefused, persistOrFail
<1>2. SameTransactions
  BY Unchanged
<1>3. OneTransactionIfReadable'
  BY <1>1, <1>2, PairsStay DEF JournalInv
<1>4. /\ JournalOK(operations', transactions')
      /\ \A k, h : k # queue[1].key /\ Recorded(operations, k, h) => Recorded(operations', k, h)
  <2>1. JournalOK(operations, transactions')
    BY <1>2, BackedStays DEF JournalInv, SameTransactions
  <2> QED BY <1>1, <2>1, WithoutOK
<1>5. readable => \A t \in DOMAIN transactions' :
          ~(transactions'[t].key = queue[1].key /\ transactions'[t].seen # "confirmed")
  BY DEF JournalInv, KeysFree
<1> QED BY <1>1, <1>2, <1>3, <1>4, <1>5, EndStep DEF SameTransactions

\* A failed operation stays, with its transaction if it has one.
LEMMA FailedStep ==
    ASSUME JournalInv, QueueInv', 1 \in DOMAIN queue, Fails(1), UNCHANGED authorized,
           TransactionsStay, OneTransactionIfReadable',
           \A t \in DOMAIN transactions' :
               \/ t \in DOMAIN transactions
               \/ transactions'[t].key = queue[1].key /\ transactions'[t].hash = queue[1].hash
    PROVE  JournalInv'
<1>1. /\ queue' = released(1) /\ UNCHANGED <<loaded, readable>>
      /\ operations' = Update(operations, queue[1].key, "failed")
      /\ store' \in {persisted(operations'), store}
  BY DEF Fails, persistOrFail
<1>2. /\ JournalOK(operations', transactions')
      /\ \A k, h : Recorded(operations, k, h) => Recorded(operations', k, h)
  <2>1. JournalOK(operations, transactions')
    BY BackedStays DEF JournalInv
  <2>2. /\ JournalOK(Update(operations, queue[1].key, "failed"), transactions')
        /\ \A k, h : ("failed" = "completed" => k # queue[1].key) /\ Recorded(operations, k, h)
               => Recorded(Update(operations, queue[1].key, "failed"), k, h)
    BY <2>1, UpdateOK
  <2> QED BY <1>1, <2>2
<1>3. \A k, h : Recorded(operations, k, h) /\ Recorded(store, k, h) => Recorded(store', k, h)
  BY <1>1, <1>2, PersistedOK
<1>4. readable => \A t \in DOMAIN transactions' :
          transactions'[t].key = queue[1].key /\ transactions'[t].seen # "confirmed" =>
              /\ Recorded(operations', transactions'[t].key, transactions'[t].hash)
              /\ Recorded(store', transactions'[t].key, transactions'[t].hash)
  <2> SUFFICES ASSUME readable, NEW t \in DOMAIN transactions',
                      transactions'[t].key = queue[1].key, transactions'[t].seen # "confirmed"
               PROVE  /\ Recorded(operations, transactions'[t].key, transactions'[t].hash)
                      /\ Recorded(store, transactions'[t].key, transactions'[t].hash)
    BY <1>2, <1>3
  <2>1. loaded /\ Recorded(operations, queue[1].key, queue[1].hash)
        /\ Recorded(store, queue[1].key, queue[1].hash)
    BY DEF JournalInv, QueueRecorded
  <2>2. CASE t \in DOMAIN transactions
    BY <2>1, <2>2, RemembersIsRecorded DEF TransactionsStay, JournalInv, UnresolvedRemembered
  <2> QED BY <2>1, <2>2
<1> QED BY <1>1, <1>2, <1>4, EndStep

\* A completed operation has the transaction that was applied, and no other of its key
\* is unresolved.
LEMMA CompletedStep ==
    ASSUME JournalInv, QueueInv', 1 \in DOMAIN queue, queue' = released(1),
           operations' = pruned(Update(operations, queue[1].key, "completed"), MaxOperations),
           store' = persisted(operations'), UNCHANGED <<loaded, readable, authorized>>,
           SameTransactions, NEW x \in DOMAIN transactions,
           transactions[x].key = queue[1].key, transactions[x].hash = queue[1].hash,
           transactions[x].mined = "applied", transactions'[x].seen = "confirmed",
           queue[1].transaction = x
    PROVE  JournalInv'
<1> DEFINE head == queue[1].key
<1>1. JournalOK(operations, transactions') /\ OneTransactionIfReadable'
  BY BackedStays, PairsStay DEF JournalInv, SameTransactions
<1>2. WasApplied(transactions', head, queue[1].hash)
  BY DEF WasApplied, SameTransactions, TransactionsStay
<1>3. \A i \in DOMAIN operations : operations[i].key = head =>
          WasApplied(transactions', head, operations[i].fingerprint)
  <2>1. Recorded(operations, head, queue[1].hash) /\ KeysUnique(operations)
    BY DEF JournalInv, QueueRecorded, JournalOK
  <2>2. \A i \in DOMAIN operations : operations[i].key = head =>
            operations[i].fingerprint = queue[1].hash
    BY <2>1 DEF Recorded, KeysUnique
  <2> QED BY <1>2, <2>2
<1> HIDE DEF head
<1> DEFINE updated == Update(operations, head, "completed")
<1>4. /\ JournalOK(updated, transactions')
      /\ \A k, h : k # head /\ Recorded(operations, k, h) => Recorded(updated, k, h)
  <2>1. /\ JournalOK(updated, transactions')
        /\ \A k, h : ("completed" = "completed" => k # head) /\ Recorded(operations, k, h)
               => Recorded(updated, k, h)
    BY <1>1, <1>3, UpdateOK
  <2> QED BY <2>1
<1>5. operations' = pruned(updated, MaxOperations)
  BY DEF head
<1> HIDE DEF updated
<1>6. /\ JournalOK(operations', transactions')
      /\ \A k, h : k # head /\ Recorded(operations, k, h) => Recorded(operations', k, h)
  BY <1>4, <1>5, PrunedOK
<1>7. readable => \A t \in DOMAIN transactions' :
          ~(transactions'[t].key = head /\ transactions'[t].seen # "confirmed")
  <2> SUFFICES ASSUME readable, NEW t \in DOMAIN transactions',
                      transactions'[t].key = head, transactions'[t].seen # "confirmed"
               PROVE  FALSE
    OBVIOUS
  <2>1. /\ t \in DOMAIN transactions /\ transactions[t].key = head
        /\ transactions[t].seen # "confirmed"
    BY DEF SameTransactions, TransactionsStay
  <2>2. t = x
    BY <2>1 DEF JournalInv, KeysFree, head
  <2> QED BY <2>2
<1> QED BY <1>1, <1>6, <1>7, EndStep DEF head, SameTransactions

-----------------------------------------------------------------------------
(* The operation at the head of the queue. *)

\* The head goes from one step to the next, with its transaction if it has broadcast one.
LEMMA AdvanceStep ==
    ASSUME JournalInv, QueueInv', 1 \in DOMAIN queue,
           UNCHANGED <<journal, authorized>>, TransactionsStay, OneTransactionIfReadable',
           DOMAIN queue' = DOMAIN queue,
           \A q \in DOMAIN queue : /\ queue'[q].key = queue[q].key
                                   /\ queue'[q].hash = queue[q].hash
                                   /\ q # 1 => queue'[q] = queue[q],
           queue[1].step # "waiting", queue'[1].step = "waiting" =>
               /\ transactions'[queue'[1].transaction].key = queue[1].key
               /\ transactions'[queue'[1].transaction].hash = queue[1].hash,
           \A t \in DOMAIN transactions' :
               \/ t \in DOMAIN transactions
               \/ /\ transactions'[t].key = queue[1].key /\ transactions'[t].hash = queue[1].hash
                  /\ queue'[1].step = "waiting" /\ queue'[1].transaction = t
    PROVE  JournalInv'
<1>0. /\ UNCHANGED <<operations, loaded, store, readable, authorized>>
      /\ DOMAIN queue' = DOMAIN queue
      /\ \A q \in DOMAIN queue : /\ queue'[q].key = queue[q].key /\ queue'[q].hash = queue[q].hash
                                 /\ q # 1 => queue'[q] = queue[q]
  BY DEF journal
<1>1. QueueRecorded'
  <2>1. \A q \in DOMAIN queue :
            /\ loaded
            /\ Recorded(operations, queue'[q].key, queue'[q].hash)
            /\ Recorded(store, queue'[q].key, queue'[q].hash)
            /\ \A r \in DOMAIN queue : queue'[r].key = queue'[q].key => r = q
    BY <1>0 DEF JournalInv, QueueRecorded
  <2> QED BY <1>0, <2>1 DEF QueueRecorded, Recorded
<1>2. \A q \in DOMAIN queue : q # 1 => queue[q].step = "checking"
  BY DEF JournalInv, QueueInv, OthersWait
<1>3. WaitingIsOurs'
  <2>1. \A q \in DOMAIN queue : queue'[q].step = "waiting" => q = 1
    BY <1>0, <1>2
  <2> QED BY <1>0, <2>1 DEF WaitingIsOurs
<1>4. KeysFree'
  <2> SUFFICES ASSUME readable, NEW q \in DOMAIN queue, NEW t \in DOMAIN transactions',
                      transactions'[t].key = queue[q].key, transactions'[t].seen # "confirmed"
               PROVE  queue'[q].step = "waiting" /\ queue'[q].transaction = t
    BY <1>0 DEF KeysFree
  <2>1. CASE t \in DOMAIN transactions
    <3>1. transactions[t].key = queue[q].key /\ transactions[t].seen # "confirmed"
      BY <2>1 DEF TransactionsStay
    <3>2. queue[q].step = "waiting"
      BY <2>1, <3>1 DEF JournalInv, KeysFree
    <3> QED BY <1>2, <3>2
  <2>2. CASE t \notin DOMAIN transactions
    <3>1. transactions'[t].key = queue[1].key /\ queue'[1].step = "waiting" /\ queue'[1].transaction = t
      BY <2>2
    <3>2. queue[1].key = queue[q].key
      BY <3>1
    <3>3. q = 1
      BY <3>2 DEF JournalInv, QueueRecorded
    <3> QED BY <3>1, <3>3
  <2> QED BY <2>1, <2>2
<1>5. UnresolvedRemembered'
  <2> SUFFICES ASSUME readable, NEW t \in DOMAIN transactions', transactions'[t].seen # "confirmed"
               PROVE  /\ Recorded(store, transactions'[t].key, transactions'[t].hash)
                      /\ Recorded(operations, transactions'[t].key, transactions'[t].hash)
    BY <1>0 DEF UnresolvedRemembered, Remembers, Recorded
  <2>1. loaded /\ Recorded(operations, queue[1].key, queue[1].hash)
        /\ Recorded(store, queue[1].key, queue[1].hash)
    BY DEF JournalInv, QueueRecorded
  <2>2. CASE t \in DOMAIN transactions
    BY <2>1, <2>2, RemembersIsRecorded DEF TransactionsStay, JournalInv, UnresolvedRemembered
  <2> QED BY <2>1, <2>2
<1>6. JournalOK(operations, transactions)' /\ JournalOK(store, transactions)'
  <2>1. JournalOK(operations, transactions') /\ JournalOK(store, transactions')
    BY BackedStays DEF JournalInv
  <2> QED BY <1>0, <2>1 DEF JournalOK, Backed, WasApplied, KeysUnique
<1> QED BY <1>0, <1>1, <1>3, <1>4, <1>5, <1>6 DEF JournalInv

LEMMA CheckStep ==
    ASSUME JournalInv, QueueInv', NEW q \in DOMAIN queue, Check(q)
    PROVE  JournalInv'
<1>1. /\ q = 1 /\ 1 \in DOMAIN queue /\ queue[1].step = "checking"
      /\ UNCHANGED <<transactions, authorized>>
  BY DEF Check, Running, isTurn, registry
<1>2. SameTransactions /\ OneTransactionIfReadable'
  <2>1. SameTransactions
    BY <1>1, Unchanged
  <2>2. readable' => readable
    BY DEF Check, journal, IsRefused, Fails
  <2> QED BY <2>1, <2>2, PairsStay DEF JournalInv
<1>3. CASE queue' = [queue EXCEPT ![1].step = "sending"] /\ UNCHANGED journal
  <2>1. queue[1] \in QueueEntry
    BY <1>1, QueueFacts DEF JournalInv, QueueInv
  <2>2. /\ DOMAIN queue' = DOMAIN queue /\ queue'[1].step = "sending"
        /\ \A r \in DOMAIN queue : /\ queue'[r].key = queue[r].key
                                   /\ queue'[r].hash = queue[r].hash
                                   /\ r # 1 => queue'[r] = queue[r]
    BY <1>1, <1>3, <2>1 DEF QueueEntry
  <2> QED BY <1>1, <1>2, <1>3, <2>2, AdvanceStep DEF SameTransactions
<1>4. CASE IsRefused(1)
  BY <1>1, <1>4, RefusedStep
<1>5. CASE Fails(1)
  BY <1>1, <1>2, <1>5, FailedStep DEF SameTransactions
<1> QED BY <1>1, <1>3, <1>4, <1>5 DEF Check

\* A broadcast is the first for its key and document: of those before it for this
\* document none was seen to succeed, and one that may still be mined keeps its key.
LEMMA BroadcastStep ==
    ASSUME JournalInv, 1 \in DOMAIN queue, queue[1].step = "sending", UNCHANGED readable,
           NEW seen \in {"awaited", "unknown"}, Broadcast(1, seen)
    PROVE  /\ TransactionsStay /\ OneTransactionIfReadable'
           /\ \A t \in DOMAIN transactions' :
                  \/ t \in DOMAIN transactions
                  \/ /\ t = Len(transactions) + 1
                     /\ transactions'[t].key = queue[1].key /\ transactions'[t].hash = queue[1].hash
           /\ Len(transactions) + 1 \in DOMAIN transactions'
           /\ Len(transactions) + 1 \notin DOMAIN transactions
<1> DEFINE n == Len(transactions) + 1
<1>1. /\ Len(transactions) \in Nat /\ DOMAIN transactions' = 1 .. Len(transactions) + 1
      /\ DOMAIN transactions = 1 .. Len(transactions)
      /\ \A t \in DOMAIN transactions : transactions'[t] = transactions[t]
      /\ transactions'[n].key = queue[1].key /\ transactions'[n].hash = queue[1].hash
  BY BroadcastSerialized DEF JournalInv
<1>2. /\ n \in DOMAIN transactions' /\ n \notin DOMAIN transactions
      /\ \A t \in DOMAIN transactions' : t \in DOMAIN transactions \/ t = n
      /\ \A t \in DOMAIN transactions : t \in DOMAIN transactions'
  BY <1>1
<1> HIDE DEF n
<1>3. readable => \A s \in DOMAIN transactions :
          <<transactions[s].key, transactions[s].hash>> # <<queue[1].key, queue[1].hash>>
  <2> SUFFICES ASSUME readable, NEW s \in DOMAIN transactions,
                      transactions[s].key = queue[1].key, transactions[s].hash = queue[1].hash
               PROVE  FALSE
    OBVIOUS
  <2>1. SameWrite(s, queue[1].key, queue[1].hash)
    BY DEF SameWrite
  <2>2. transactions[s].seen \in {"unknown", "reverted"}
    BY <2>1 DEF JournalInv, QueueInv, SendingKnows
  <2>3. queue[1].step = "waiting"
    BY <2>2 DEF JournalInv, KeysFree
  <2> QED BY <2>3
<1>4. OneTransactionIfReadable'
  <2> SUFFICES ASSUME readable, NEW s \in DOMAIN transactions', NEW t \in DOMAIN transactions', s # t
               PROVE  <<transactions'[s].key, transactions'[s].hash>>
                          # <<transactions'[t].key, transactions'[t].hash>>
    BY DEF OneTransactionIfReadable, OneTransactionPerRequest
  <2>1. CASE s \in DOMAIN transactions /\ t \in DOMAIN transactions
    BY <1>1, <2>1 DEF JournalInv, OneTransactionIfReadable, OneTransactionPerRequest
  <2>2. CASE s = n \/ t = n
    BY <1>1, <1>2, <1>3, <2>2
  <2> QED BY <1>2, <2>1, <2>2
<1>5. TransactionsStay
  BY <1>1, <1>2 DEF TransactionsStay
<1> QED BY <1>1, <1>2, <1>4, <1>5 DEF n
LEMMA SendStep ==
    ASSUME JournalInv, QueueInv', NEW q \in DOMAIN queue, Send(q)
    PROVE  JournalInv'
<1>1. /\ q = 1 /\ 1 \in DOMAIN queue /\ queue[1].step = "sending" /\ UNCHANGED authorized
  BY DEF Send, Running, isTurn, registry
<1>2. CASE /\ Broadcast(1, "awaited")
           /\ queue' = [queue EXCEPT ![1].step = "waiting",
                                     ![1].transaction = Len(transactions) + 1]
           /\ UNCHANGED journal
  <2>1. UNCHANGED readable
    BY <1>2 DEF journal
  <2> DEFINE n == Len(transactions) + 1
  <2>2. /\ TransactionsStay /\ OneTransactionIfReadable' /\ n \in DOMAIN transactions'
        /\ n \notin DOMAIN transactions
        /\ \A t \in DOMAIN transactions' :
               \/ t \in DOMAIN transactions
               \/ /\ t = n
                  /\ transactions'[t].key = queue[1].key /\ transactions'[t].hash = queue[1].hash
    BY <1>1, <1>2, <2>1, BroadcastStep
  <2>3. queue' = [queue EXCEPT ![1] = [queue[1] EXCEPT !.step = "waiting", !.transaction = n]]
    BY <1>2
  <2>4. queue[1] \in QueueEntry
    BY <1>1, QueueFacts DEF JournalInv, QueueInv
  <2> HIDE DEF n
  <2>5. /\ DOMAIN queue' = DOMAIN queue
        /\ queue'[1].step = "waiting" /\ queue'[1].transaction = n
        /\ \A r \in DOMAIN queue : /\ queue'[r].key = queue[r].key
                                   /\ queue'[r].hash = queue[r].hash
                                   /\ r # 1 => queue'[r] = queue[r]
    BY <1>1, <2>3, <2>4 DEF QueueEntry
  <2>6. /\ transactions'[queue'[1].transaction].key = queue[1].key
        /\ transactions'[queue'[1].transaction].hash = queue[1].hash
    BY <2>2, <2>5
  <2>7. \A t \in DOMAIN transactions' :
            \/ t \in DOMAIN transactions
            \/ /\ transactions'[t].key = queue[1].key /\ transactions'[t].hash = queue[1].hash
               /\ queue'[1].step = "waiting" /\ queue'[1].transaction = t
    BY <2>2, <2>5
  <2> QED BY <1>1, <1>2, <2>2, <2>5, <2>6, <2>7, AdvanceStep
<1>3. CASE IsRefused(1) /\ UNCHANGED transactions
  BY <1>1, <1>3, RefusedStep
<1>4. CASE Fails(1) /\ Broadcast(1, "unknown")
  <2>1. UNCHANGED readable
    BY <1>4 DEF Fails
  <2>2. /\ TransactionsStay /\ OneTransactionIfReadable'
        /\ \A t \in DOMAIN transactions' :
               \/ t \in DOMAIN transactions
               \/ transactions'[t].key = queue[1].key /\ transactions'[t].hash = queue[1].hash
    BY <1>1, <1>4, <2>1, BroadcastStep
  <2> QED BY <1>1, <1>4, <2>2, FailedStep
<1>5. CASE Fails(1) /\ UNCHANGED transactions
  <2>1. SameTransactions
    BY <1>5, Unchanged
  <2>2. OneTransactionIfReadable'
    BY <1>5, <2>1, PairsStay DEF Fails, JournalInv
  <2> QED BY <1>1, <1>5, <2>1, <2>2, FailedStep DEF SameTransactions
<1> QED BY <1>1, <1>2, <1>3, <1>4, <1>5 DEF Send

\* Of the transaction that was waited for, only what is known of it changes.
LEMMA SeeFacts ==
    ASSUME QueueInv, 1 \in DOMAIN queue, queue[1].step = "waiting", NEW seen, See(1, seen)
    PROVE  /\ SameTransactions /\ queue[1].transaction \in DOMAIN transactions
           /\ transactions'[queue[1].transaction].seen = seen
<1> DEFINE x == queue[1].transaction
<1>1. x \in DOMAIN transactions /\ transactions[x].seen = "awaited"
  BY DEF QueueInv, WaitingKnows
<1>2. transactions[x] \in TransactionRow
  BY <1>1, QueueFacts DEF QueueInv
<1>3. transactions' = [transactions EXCEPT ![x] = [transactions[x] EXCEPT !.seen = seen]]
  BY DEF See
<1> HIDE DEF x
<1>4. DOMAIN transactions' = DOMAIN transactions
      /\ \A t \in DOMAIN transactions : t # x => transactions'[t] = transactions[t]
  BY <1>3
<1>5. /\ transactions'[x].key = transactions[x].key /\ transactions'[x].hash = transactions[x].hash
      /\ transactions'[x].mined = transactions[x].mined /\ transactions'[x].seen = seen
  BY <1>1, <1>2, <1>3 DEF TransactionRow
<1>6. transactions[x].seen # "confirmed"
  BY <1>1
<1>7. SameTransactions
  BY <1>4, <1>5, <1>6 DEF SameTransactions, TransactionsStay
<1> QED BY <1>1, <1>5, <1>7 DEF x

LEMMA ConfirmStep ==
    ASSUME JournalInv, QueueInv', NEW q \in DOMAIN queue, Confirm(q)
    PROVE  JournalInv'
<1> DEFINE x == queue[1].transaction
<1>1. /\ q = 1 /\ 1 \in DOMAIN queue /\ queue[1].step = "waiting" /\ UNCHANGED authorized
      /\ See(1, "confirmed") /\ transactions[x].mined = "applied"
      /\ Completes(1) \/ Fails(1)
  BY DEF Confirm, Running, isTurn, isConfirmed, registry
<1>2. SameTransactions /\ x \in DOMAIN transactions /\ transactions'[x].seen = "confirmed"
  BY <1>1, SeeFacts DEF JournalInv
<1>3. UNCHANGED <<loaded, readable>> /\ queue' = released(1)
  BY <1>1 DEF Completes, Fails
<1>4. OneTransactionIfReadable'
  BY <1>2, <1>3, PairsStay DEF JournalInv
<1>5. CASE Fails(1)
  BY <1>1, <1>2, <1>4, <1>5, FailedStep DEF SameTransactions
<1>6. CASE /\ operations' = pruned(Update(operations, queue[1].key, "completed"), MaxOperations)
           /\ store' = persisted(operations')
  <2>1. transactions[x].key = queue[1].key /\ transactions[x].hash = queue[1].hash
    BY <1>1 DEF JournalInv, WaitingIsOurs
  <2> HIDE DEF x
  <2>2. queue[1].transaction = x
    BY DEF x
  <2> QED BY <1>1, <1>2, <1>3, <1>6, <2>1, <2>2, CompletedStep
<1>7. Completes(1) =>
          \/ Fails(1)
          \/ /\ operations' = pruned(Update(operations, queue[1].key, "completed"), MaxOperations)
             /\ store' = persisted(operations')
  BY DEF Completes, Fails
<1> QED BY <1>1, <1>5, <1>6, <1>7

LEMMA GiveUpStep ==
    ASSUME JournalInv, QueueInv', NEW q \in DOMAIN queue, GiveUp(q)
    PROVE  JournalInv'
<1>1. /\ q = 1 /\ 1 \in DOMAIN queue /\ queue[1].step = "waiting" /\ UNCHANGED authorized
      /\ Fails(1) /\ UNCHANGED readable
      /\ \E seen : See(1, seen)
  BY DEF GiveUp, Running, isTurn, registry, Fails
<1>2. SameTransactions
  BY <1>1, SeeFacts DEF JournalInv
<1>3. OneTransactionIfReadable'
  BY <1>1, <1>2, PairsStay DEF JournalInv
<1> QED BY <1>1, <1>2, <1>3, FailedStep DEF SameTransactions

-----------------------------------------------------------------------------
(* The environment. *)

\* What is mined and what others do changes nothing the journal relies on.
LEMMA EnvironmentStep ==
    ASSUME JournalInv, QueueInv', UNCHANGED <<journal, queue>>, SameTransactions,
           authorized' \in BOOLEAN
    PROVE  JournalInv'
<1>1. UNCHANGED <<operations, loaded, store, readable, queue>>
  BY DEF journal
<1>2. QueueRecorded'
  BY <1>1 DEF JournalInv, QueueRecorded, Recorded
<1>3. WaitingIsOurs'
  <2>1. \A q \in DOMAIN queue : queue[q].step = "waiting" =>
            /\ queue[q].transaction \in DOMAIN transactions
            /\ transactions[queue[q].transaction].key = queue[q].key
            /\ transactions[queue[q].transaction].hash = queue[q].hash
    BY DEF JournalInv, QueueInv, WaitingKnows, WaitingIsOurs
  <2> QED BY <1>1, <2>1 DEF WaitingIsOurs, SameTransactions, TransactionsStay
<1>4. KeysFree'
  BY <1>1 DEF JournalInv, KeysFree, SameTransactions, TransactionsStay
<1>5. UnresolvedRemembered'
  <2> SUFFICES ASSUME readable, NEW t \in DOMAIN transactions', transactions'[t].seen # "confirmed"
               PROVE  /\ Recorded(store, transactions'[t].key, transactions'[t].hash)
                      /\ loaded => Recorded(operations, transactions'[t].key, transactions'[t].hash)
    BY <1>1 DEF UnresolvedRemembered, Remembers, Recorded
  <2>1. /\ t \in DOMAIN transactions /\ transactions[t].seen # "confirmed"
        /\ transactions'[t].key = transactions[t].key
        /\ transactions'[t].hash = transactions[t].hash
    BY DEF SameTransactions, TransactionsStay
  <2> QED BY <2>1, RemembersIsRecorded DEF JournalInv, UnresolvedRemembered
<1>6. OneTransactionIfReadable'
  BY <1>1, PairsStay DEF JournalInv
<1>7. JournalOK(operations, transactions)' /\ JournalOK(store, transactions)'
  <2>1. JournalOK(operations, transactions') /\ JournalOK(store, transactions')
    BY BackedStays DEF JournalInv, SameTransactions
  <2> QED BY <1>1, <2>1 DEF JournalOK, Backed, WasApplied, KeysUnique
<1>8. loaded' \in BOOLEAN /\ readable' \in BOOLEAN
  BY <1>1 DEF JournalInv
<1> QED BY <1>2, <1>3, <1>4, <1>5, <1>6, <1>7, <1>8 DEF JournalInv

LEMMA MineStep ==
    ASSUME JournalInv, QueueInv', NEW t \in DOMAIN transactions, Mine(t)
    PROVE  JournalInv'
<1>1. /\ UNCHANGED <<journal, queue, authorized>> /\ transactions[t].mined = "no"
      /\ \E mined : transactions' = [transactions EXCEPT ![t].mined = mined]
  BY DEF Mine
<1>2. PICK mined : transactions' = [transactions EXCEPT ![t].mined = mined]
  BY <1>1
<1>3. transactions[t] \in TransactionRow
  BY QueueFacts DEF JournalInv, QueueInv
<1>4. /\ transactions'[t].key = transactions[t].key /\ transactions'[t].hash = transactions[t].hash
      /\ transactions'[t].seen = transactions[t].seen
  BY <1>2, <1>3 DEF TransactionRow
<1>5. DOMAIN transactions' = DOMAIN transactions
      /\ \A s \in DOMAIN transactions : s # t => transactions'[s] = transactions[s]
  BY <1>2
<1>6. SameTransactions
  BY <1>1, <1>4, <1>5 DEF SameTransactions, TransactionsStay
<1> QED BY <1>1, <1>6, EnvironmentStep DEF JournalInv

LEMMA OthersStep ==
    ASSUME JournalInv, QueueInv', Others
    PROVE  JournalInv'
<1>1. UNCHANGED <<journal, queue, transactions>> /\ authorized' \in BOOLEAN
  BY DEF Others, JournalInv
<1>2. SameTransactions
  BY <1>1, Unchanged
<1> QED BY <1>1, <1>2, EnvironmentStep

\* The file holds what is unresolved; the memory starts anew.
LEMMA CrashStep ==
    ASSUME JournalInv, QueueInv', Crash
    PROVE  JournalInv'
<1>1. /\ operations' = << >> /\ loaded' = FALSE /\ queue' = << >>
      /\ UNCHANGED <<store, readable, authorized>>
      /\ DOMAIN transactions' = DOMAIN transactions
      /\ \A t \in DOMAIN transactions : transactions'[t] =
             IF transactions[t].seen = "awaited" THEN [transactions[t] EXCEPT !.seen = "unknown"]
             ELSE transactions[t]
  BY DEF Crash, registry
<1>2. \A t \in DOMAIN transactions : transactions[t] \in TransactionRow
  BY QueueFacts DEF JournalInv, QueueInv
<1>3. \A t \in DOMAIN transactions :
          /\ transactions'[t].key = transactions[t].key
          /\ transactions'[t].hash = transactions[t].hash
          /\ transactions'[t].mined = transactions[t].mined
          /\ transactions'[t].seen = "confirmed" <=> transactions[t].seen = "confirmed"
  BY <1>1, <1>2 DEF TransactionRow
<1>4. SameTransactions
  BY <1>1, <1>3 DEF SameTransactions, TransactionsStay
<1>5. QueueRecorded' /\ WaitingIsOurs' /\ KeysFree'
  BY <1>1 DEF QueueRecorded, WaitingIsOurs, KeysFree
<1>6. UnresolvedRemembered'
  <2> SUFFICES ASSUME readable, NEW t \in DOMAIN transactions, transactions'[t].seen # "confirmed"
               PROVE  Recorded(store, transactions'[t].key, transactions'[t].hash)
    BY <1>1 DEF UnresolvedRemembered, Remembers, Recorded
  <2> QED BY <1>3, RemembersIsRecorded DEF JournalInv, UnresolvedRemembered
<1>7. OneTransactionIfReadable'
  BY <1>1, <1>4, PairsStay DEF JournalInv
<1>8. JournalOK(operations, transactions)' /\ JournalOK(store, transactions)'
  <2>1. JournalOK(<< >>, transactions') /\ JournalOK(store, transactions')
    BY <1>4, BackedStays, CapacityAssumption
    DEF JournalInv, SameTransactions, JournalOK, KeysUnique, Backed
  <2> QED BY <1>1, <2>1 DEF JournalOK, Backed, WasApplied, KeysUnique
<1> QED BY <1>1, <1>5, <1>6, <1>7, <1>8 DEF JournalInv

-----------------------------------------------------------------------------

LEMMA InitJournalInv == GatewayInit => JournalInv
<1> SUFFICES ASSUME GatewayInit
             PROVE  JournalInv
  OBVIOUS
<1>1. /\ operations = << >> /\ store = << >> /\ queue = << >> /\ transactions = << >>
      /\ loaded = FALSE /\ readable = TRUE /\ authorized = TRUE
  BY DEF GatewayInit
<1>2. JournalOK(<< >>, << >>)
  BY CapacityAssumption DEF JournalOK, KeysUnique, Backed
<1>3. QueueRecorded /\ WaitingIsOurs /\ KeysFree
  BY <1>1 DEF QueueRecorded, WaitingIsOurs, KeysFree
<1>4. UnresolvedRemembered /\ OneTransactionIfReadable
  BY <1>1 DEF UnresolvedRemembered, OneTransactionIfReadable, OneTransactionPerRequest
<1> QED BY <1>1, <1>2, <1>3, <1>4, InitQueueInv DEF JournalInv

LEMMA NextJournalInv ==
    ASSUME JournalInv, [GatewayNext]_vars
    PROVE  JournalInv'
<1>0. QueueInv'
  BY QueueInvInductive DEF JournalInv
<1>1. CASE LoadFails
  BY <1>0, <1>1, LoadFailsStep
<1>2. CASE Others
  BY <1>0, <1>2, OthersStep
<1>3. CASE Crash
  BY <1>0, <1>3, CrashStep
<1>4. ASSUME NEW key \in StorageKeys, Post(key)
      PROVE  JournalInv'
  BY <1>0, <1>4, ReplayStep, AdmitStep DEF Post
<1>5. ASSUME NEW q \in DOMAIN queue, Execute(q)
      PROVE  JournalInv'
  BY <1>0, <1>5, CheckStep, SendStep, ConfirmStep, GiveUpStep DEF Execute
<1>6. ASSUME NEW t \in DOMAIN transactions, Mine(t)
      PROVE  JournalInv'
  BY <1>0, <1>6, MineStep
<1>7. CASE UNCHANGED vars
  <2>1. UNCHANGED <<journal, queue, transactions, authorized>>
    BY <1>7 DEF vars, registry
  <2>2. SameTransactions
    BY <2>1, Unchanged
  <2> QED BY <1>0, <2>1, <2>2, EnvironmentStep DEF JournalInv
<1> QED BY <1>1, <1>2, <1>3, <1>4, <1>5, <1>6, <1>7 DEF GatewayNext

LEMMA JournalInvInductive == GatewaySpec => []JournalInv
<1>1. JournalInv /\ [GatewayNext]_vars => JournalInv'
  BY NextJournalInv
<1> QED BY <1>1, InitJournalInv, PTL DEF GatewaySpec

\* The journal and everything kept with it are well formed, and the journal never
\* outgrows its capacity, in memory or in the file: an operation is only admitted once
\* pruning has made room for it.
THEOREM GatewayTypeCorrect == GatewaySpec => []GatewayTypeOK
<1>1. JournalInv => GatewayTypeOK
  BY DEF JournalInv, QueueInv, WriteTypes, JournalOK, GatewayTypeOK, QueueEntry,
         TransactionRow, Certificate
<1> QED BY <1>1, JournalInvInductive, PTL

\* A transaction that has not been seen to succeed stays recorded as unresolved, in the
\* file and in the memory that was read from it.
THEOREM JournalRemembers == GatewaySpec => []UnresolvedRemembered
<1>1. JournalInv => UnresolvedRemembered
  BY DEF JournalInv
<1> QED BY <1>1, JournalInvInductive, PTL

\* As long as every read of the file has succeeded, no request is sent twice to the chain.
THEOREM RequestsAreSentOnce == GatewaySpec => []OneTransactionIfReadable
<1>1. JournalInv => OneTransactionIfReadable
  BY DEF JournalInv
<1> QED BY <1>1, JournalInvInductive, PTL

\* A completed operation, in memory or in the file, has a transaction that was applied.
THEOREM CompletedIsApplied == GatewaySpec => []CompletedWasApplied
<1>1. JournalInv => CompletedWasApplied
  BY DEF JournalInv, JournalOK, Backed, WasApplied, CompletedWasApplied
<1> QED BY <1>1, JournalInvInductive, PTL
=============================================================================
