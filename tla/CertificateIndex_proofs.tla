----------------------- MODULE CertificateIndex_proofs -----------------------
(***************************************************************************)
(* Proofs about the gateway's certificate index: what replaying a range of *)
(* blocks does to the record of a hash, the inductive invariant of the     *)
(* index, and the three invariants and the action property that rest on it.*)
(***************************************************************************)
EXTENDS CertificateIndex, WellFoundedInduction, TLAPS

-----------------------------------------------------------------------------
(* Replaying blocks: the fold of `apply' is a run of single applications.  *)

Blocks == [hash : Hashes \cup {NoDocument}, name : Names \cup {"none"},
           own : BOOLEAN, fork : Nat]

Records == [Hashes -> Status]

\* Induction along 0 .. n, over a set instead of a predicate.
LEMMA Climb ==
    ASSUME NEW n \in Nat, NEW T \in SUBSET (0 .. n),
           0 \in T, \A i \in 1 .. n : i - 1 \in T => i \in T
    PROVE  \A i \in 0 .. n : i \in T
<1> DEFINE rest == {i \in 0 .. n : i \notin T}
<1>1. SUFFICES ASSUME rest # {} PROVE FALSE
  OBVIOUS
<1>2. rest \subseteq Nat
  OBVIOUS
<1>3. \E x \in rest : \A y \in rest : ~(<<y, x>> \in OpToRel(<, Nat))
  BY <1>1, <1>2, NatLessThanWellFounded, WFMin
<1>4. PICK x \in rest : \A y \in rest : ~(y < x)
  <2>1. PICK x \in rest : \A y \in rest : ~(<<y, x>> \in OpToRel(<, Nat))
    BY <1>3
  <2>2. \A y \in rest : y < x => <<y, x>> \in OpToRel(<, Nat)
    BY <1>2 DEF OpToRel
  <2> QED BY <2>1, <2>2
<1>5. x \in 1 .. n /\ x - 1 \in 0 .. n /\ x - 1 < x
  OBVIOUS
<1>6. x - 1 \in T
  BY <1>4, <1>5
<1> QED BY <1>4, <1>5, <1>6

LEMMA MaxUnique ==
    ASSUME NEW S \in SUBSET Int, NEW m \in S, \A x \in S : m >= x
    PROVE  Max(S) = m
<1> DEFINE P(x) == x \in S /\ \A y \in S : x >= y
<1>1. P(m)
  OBVIOUS
<1>2. Max(S) = CHOOSE x : P(x)
  BY Zenon DEF Max
<1>3. P(CHOOSE x : P(x))
  BY <1>1, Zenon
<1>4. ASSUME NEW x, P(x) PROVE x = m
  BY <1>4
<1> HIDE DEF P
<1> QED BY <1>2, <1>3, <1>4

\* The equation by which MapThenFoldSet chooses its function, on the places 1 .. n.
FoldsTo(g, base, s, n) ==
    g = [places \in SUBSET (1 .. n) |->
             IF places = {} THEN base
             ELSE LET last == Max(places) IN apply(g[places \ {last}], s[last])]

LEMMA FoldExists ==
    ASSUME NEW base, NEW s, NEW n \in Nat
    PROVE  \E g : FoldsTo(g, base, s, n)
<1> DEFINE T == {i \in 0 .. n : \E g : FoldsTo(g, base, s, i)}
<1>1. 0 \in T
  <2> DEFINE g == [places \in SUBSET (1 .. 0) |-> base]
  <2>1. SUBSET (1 .. 0) = {{}}
    OBVIOUS
  <2>2. FoldsTo(g, base, s, 0)
    BY <2>1 DEF FoldsTo
  <2> QED BY <2>2
<1>2. ASSUME NEW i \in 1 .. n, i - 1 \in T PROVE i \in T
  <2>1. PICK g : FoldsTo(g, base, s, i - 1)
    BY <1>2
  <2> DEFINE G == [places \in SUBSET (1 .. i) |->
                       IF i \in places THEN apply(g[places \ {i}], s[i]) ELSE g[places]]
             F(p) == IF p = {} THEN base
                     ELSE LET last == Max(p) IN apply(G[p \ {last}], s[last])
  <2>2. ASSUME NEW p \in SUBSET (1 .. i), i \notin p
        PROVE  p \in SUBSET (1 .. i - 1) /\ G[p] = g[p]
    <3>1. \A x \in 1 .. i : x # i => x \in 1 .. i - 1
      OBVIOUS
    <3>2. p \in SUBSET (1 .. i - 1)
      BY <2>2, <3>1
    <3> QED BY <2>2, <3>2
  <2>3. ASSUME NEW p \in SUBSET (1 .. i) PROVE G[p] = F(p)
    <3>1. CASE i \in p
      <4>1. Max(p) = i
        BY <3>1, MaxUnique
      <4>2. G[p] = apply(g[p \ {i}], s[i])
        BY <3>1
      <4>3. G[p \ {i}] = g[p \ {i}]
        BY <2>2
      <4> QED BY <3>1, <4>1, <4>2, <4>3
    <3>2. CASE i \notin p
      <4>1. G[p] = g[p] /\ p \in SUBSET (1 .. i - 1)
        BY <2>2, <3>2
      <4>2. g[p] = IF p = {} THEN base
                   ELSE LET last == Max(p) IN apply(g[p \ {last}], s[last])
        BY <2>1, <4>1 DEF FoldsTo
      <4>3. G[p \ {Max(p)}] = g[p \ {Max(p)}]
        BY <2>2, <3>2
      <4> QED BY <4>1, <4>2, <4>3
    <3> QED BY <3>1, <3>2
  <2>4. G = [places \in SUBSET (1 .. i) |-> G[places]]
    OBVIOUS
  <2>5. G = [places \in SUBSET (1 .. i) |-> F(places)]
    <3> HIDE DEF F, G
    <3> QED BY <2>3, <2>4
  <2>6. FoldsTo(G, base, s, i)
    <3> HIDE DEF G
    <3> QED BY <2>5 DEF FoldsTo
  <2> QED BY <2>6
<1> HIDE DEF T
<1>3. T \in SUBSET (0 .. n)
  BY DEF T
<1>4. n \in T
  BY <1>1, <1>2, <1>3, Climb
<1> QED BY <1>4 DEF T

\* FoldLeft applies the blocks one after the other, from the first.
LEMMA FoldRuns ==
    ASSUME NEW base, NEW s \in Seq(Blocks)
    PROVE  \E run : /\ run[0] = base
                    /\ \A i \in 1 .. Len(s) : run[i] = apply(run[i - 1], s[i])
                    /\ FoldLeft(apply, base, s) = run[Len(s)]
<1> DEFINE n == Len(s)
<1>1. n \in Nat /\ DOMAIN s = 1 .. n
  OBVIOUS
<1> DEFINE iter == CHOOSE g : FoldsTo(g, base, s, n)
<1>2. FoldsTo(iter, base, s, n)
  BY <1>1, FoldExists
<1>3. FoldLeft(apply, base, s) = iter[1 .. n]
  BY <1>1 DEF FoldLeft, MapThenFoldSet, FoldsTo
<1> HIDE DEF iter
<1>4. \A p \in SUBSET (1 .. n) :
         iter[p] = IF p = {} THEN base
                   ELSE LET last == Max(p) IN apply(iter[p \ {last}], s[last])
  BY <1>2 DEF FoldsTo
<1> DEFINE run == [i \in 0 .. n |-> iter[1 .. i]]
<1>5. run[0] = base
  <2>1. 1 .. 0 = {}
    OBVIOUS
  <2>2. run[0] = iter[1 .. 0]
    BY <1>1
  <2>3. iter[{}] = base
    BY <1>4
  <2> QED BY <2>1, <2>2, <2>3
<1>6. ASSUME NEW i \in 1 .. n PROVE run[i] = apply(run[i - 1], s[i])
  <2>1. i \in Int /\ i \in 1 .. i /\ i \in 0 .. n /\ i - 1 \in 0 .. n
    BY <1>1
  <2>2. 1 .. i \in SUBSET (1 .. n) /\ 1 .. i \in SUBSET Int
    BY <1>1
  <2>3. \A x : x \in (1 .. i) \ {i} <=> x \in 1 .. i - 1
    BY <1>1
  <2>4. (1 .. i) \ {i} = 1 .. i - 1
    BY <2>3
  <2>5. \A x \in 1 .. i : i >= x
    BY <1>1
  <2>6. Max(1 .. i) = i
    BY <2>1, <2>2, <2>5, MaxUnique
  <2>7. iter[1 .. i] = apply(iter[(1 .. i) \ {i}], s[i])
    BY <1>4, <2>1, <2>2, <2>6
  <2> QED BY <2>1, <2>4, <2>7
<1>7. FoldLeft(apply, base, s) = run[n]
  BY <1>1, <1>3
<1> HIDE DEF run
<1> QED BY <1>5, <1>6, <1>7

-----------------------------------------------------------------------------
(* What a replay does to the record of one hash.                           *)

\* An event of the hash among the blocks m to n of a sequence.
Holds(s, name, h, m, n) == \E i \in m .. n : s[i].name = name /\ s[i].hash = h

\* The records after n blocks: a known record stays known, nothing is known or revoked
\* without cause, and a revocation of a known record lasts unless it is issued again.
Replayed(base, s, n, records) ==
    /\ records \in Records
    /\ \A h \in Hashes :
        /\ base[h] # "NOT_FOUND" \/ Holds(s, "CertificateIssued", h, 1, n)
               <=> records[h] # "NOT_FOUND"
        /\ records[h] = "REVOKED" =>
               base[h] = "REVOKED" \/ Holds(s, "CertificateRevoked", h, 1, n)
        /\ base[h] = "REVOKED" /\ ~Holds(s, "CertificateIssued", h, 1, n) =>
               records[h] = "REVOKED"
        /\ \A i \in 1 .. n :
               /\ s[i].name = "CertificateRevoked" /\ s[i].hash = h
               /\ base[h] # "NOT_FOUND" \/ Holds(s, "CertificateIssued", h, 1, i - 1)
               /\ ~Holds(s, "CertificateIssued", h, i + 1, n)
               => records[h] = "REVOKED"

LEMMA HoldsNext ==
    ASSUME NEW s, NEW name, NEW h, NEW n \in Nat, n >= 1, NEW m \in 1 .. n
    PROVE  Holds(s, name, h, m, n) <=>
               \/ Holds(s, name, h, m, n - 1)
               \/ s[n].name = name /\ s[n].hash = h
<1>1. \A i : i \in m .. n <=> i \in m .. n - 1 \/ i = n
  OBVIOUS
<1> QED BY <1>1 DEF Holds

LEMMA ApplyCases ==
    ASSUME NEW records \in Records, NEW block,
           block.name \in Names => block.hash \in Hashes
    PROVE  /\ apply(records, block) \in Records
           /\ \A h \in Hashes :
               apply(records, block)[h] =
                   IF block.hash # h \/ block.name \notin Names THEN records[h]
                   ELSE IF block.name = "CertificateIssued" THEN "ACTIVE"
                   ELSE IF records[h] = "NOT_FOUND" THEN "NOT_FOUND" ELSE "REVOKED"
<1>1. CASE block.name = "CertificateIssued"
  BY <1>1 DEF apply, Records, Status, Names
<1>2. CASE block.name = "CertificateRevoked"
  BY <1>2 DEF apply, Records, Status, Names
<1>3. CASE block.name \notin Names
  BY <1>3 DEF apply, Records, Status, Names
<1> QED BY <1>1, <1>2, <1>3 DEF Names

LEMMA ReplayedStep ==
    ASSUME NEW base \in Records, NEW s, NEW n \in Nat, n >= 1,
           s[n].name \in Names => s[n].hash \in Hashes,
           NEW records, Replayed(base, s, n - 1, records)
    PROVE  Replayed(base, s, n, apply(records, s[n]))
<1> DEFINE after == apply(records, s[n])
           issued(h) == s[n].name = "CertificateIssued" /\ s[n].hash = h
           revoked(h) == s[n].name = "CertificateRevoked" /\ s[n].hash = h
<1>1. records \in Records
  BY DEF Replayed
<1>2. /\ after \in Records
      /\ \A h \in Hashes :
            after[h] = IF issued(h) THEN "ACTIVE"
                       ELSE IF revoked(h) /\ records[h] # "NOT_FOUND" THEN "REVOKED"
                       ELSE records[h]
  BY <1>1, ApplyCases DEF Names
<1> HIDE DEF after
<1>3. ASSUME NEW h \in Hashes
      PROVE  /\ base[h] # "NOT_FOUND" \/ Holds(s, "CertificateIssued", h, 1, n)
                    <=> after[h] # "NOT_FOUND"
             /\ after[h] = "REVOKED" =>
                    base[h] = "REVOKED" \/ Holds(s, "CertificateRevoked", h, 1, n)
             /\ base[h] = "REVOKED" /\ ~Holds(s, "CertificateIssued", h, 1, n) =>
                    after[h] = "REVOKED"
  <2>1. /\ Holds(s, "CertificateIssued", h, 1, n) <=>
              Holds(s, "CertificateIssued", h, 1, n - 1) \/ issued(h)
        /\ Holds(s, "CertificateRevoked", h, 1, n) <=>
              Holds(s, "CertificateRevoked", h, 1, n - 1) \/ revoked(h)
    <3>1. 1 \in 1 .. n
      OBVIOUS
    <3> QED BY <3>1, HoldsNext
  <2>2. /\ base[h] # "NOT_FOUND" \/ Holds(s, "CertificateIssued", h, 1, n - 1)
               <=> records[h] # "NOT_FOUND"
        /\ records[h] = "REVOKED" =>
               base[h] = "REVOKED" \/ Holds(s, "CertificateRevoked", h, 1, n - 1)
        /\ base[h] = "REVOKED" /\ ~Holds(s, "CertificateIssued", h, 1, n - 1) =>
               records[h] = "REVOKED"
    BY DEF Replayed
  <2> HIDE DEF issued, revoked
  <2>3. ~(issued(h) /\ revoked(h))
    BY DEF issued, revoked
  <2> QED BY <1>2, <2>1, <2>2, <2>3
<1>4. ASSUME NEW h \in Hashes, NEW i \in 1 .. n,
             s[i].name = "CertificateRevoked", s[i].hash = h,
             base[h] # "NOT_FOUND" \/ Holds(s, "CertificateIssued", h, 1, i - 1),
             ~Holds(s, "CertificateIssued", h, i + 1, n)
      PROVE  after[h] = "REVOKED"
  <2>1. CASE i = n
    <3>1. records[h] # "NOT_FOUND"
      BY <1>4, <2>1 DEF Replayed
    <3>2. revoked(h) /\ ~issued(h)
      BY <1>4, <2>1
    <3> QED BY <1>2, <3>1, <3>2
  <2>2. CASE i # n
    <3>1. i \in 1 .. n - 1 /\ i + 1 \in 1 .. n
      BY <2>2
    <3>2. ~Holds(s, "CertificateIssued", h, i + 1, n - 1) /\ ~issued(h)
      BY <1>4, <3>1, HoldsNext
    <3>3. records[h] = "REVOKED"
      BY <1>4, <3>1, <3>2 DEF Replayed
    <3> QED BY <1>2, <3>2, <3>3
  <2> QED BY <2>1, <2>2
<1> QED BY <1>2, <1>3, <1>4 DEF Replayed, after

\* The whole replay.
LEMMA FoldReplays ==
    ASSUME NEW base \in Records, NEW s \in Seq(Blocks),
           \A i \in 1 .. Len(s) : s[i].name \in Names => s[i].hash \in Hashes
    PROVE  Replayed(base, s, Len(s), FoldLeft(apply, base, s))
<1>1. PICK run : /\ run[0] = base
                 /\ \A i \in 1 .. Len(s) : run[i] = apply(run[i - 1], s[i])
                 /\ FoldLeft(apply, base, s) = run[Len(s)]
  BY FoldRuns
<1> DEFINE n == Len(s)
           T == {i \in 0 .. n : Replayed(base, s, i, run[i])}
<1>2. n \in Nat
  OBVIOUS
<1>3. 0 \in T
  <2>1. \A i : i \notin 1 .. 0
    OBVIOUS
  <2> QED BY <1>1, <1>2, <2>1 DEF Replayed, Holds
<1>4. ASSUME NEW i \in 1 .. n, i - 1 \in T PROVE i \in T
  <2>1. Replayed(base, s, i - 1, run[i - 1])
    BY <1>4
  <2>2. Replayed(base, s, i, apply(run[i - 1], s[i]))
    BY <1>2, <2>1, ReplayedStep
  <2> QED BY <1>1, <1>2, <2>2
<1> HIDE DEF T
<1>5. T \in SUBSET (0 .. n)
  BY DEF T
<1>6. \A i \in 1 .. n : i - 1 \in T => i \in T
  BY <1>4
<1> HIDE DEF n
<1>7. \A i \in 0 .. n : i \in T
  BY <1>2, <1>3, <1>5, <1>6, Climb
<1>8. n \in T
  BY <1>2, <1>7
<1> QED BY <1>1, <1>8 DEF T, n

-----------------------------------------------------------------------------
(* The inductive invariant.                                                *)

\* A block of the certificate that only a reorganization of Confirmations blocks
\* or more can take back.
Settled(name, h) ==
    \E i \in DOMAIN chain :
        i <= highest - Confirmations + 1 /\ chain[i].name = name /\ chain[i].hash = h

\* The contract: a certificate is issued once, and revoked once, after that.
ChainInv ==
    /\ Len(chain) <= highest
    /\ shallow => highest - Confirmations < Len(chain)
    /\ \A i \in DOMAIN chain : chain[i].name \in Names => chain[i].hash \in Hashes
    /\ \A i, j \in DOMAIN chain :
           chain[i].name \in Names /\ chain[i].name = chain[j].name
               /\ chain[i].hash = chain[j].hash => i = j
    /\ \A i \in DOMAIN chain :
           chain[i].name = "CertificateRevoked" =>
               \E j \in 1 .. i - 1 :
                   chain[j].name = "CertificateIssued" /\ chain[j].hash = chain[i].hash

\* A synchronization stays below the head it has read, which was confirmed.
SyncInv ==
    /\ sync.safeHead = 0 \/ sync.safeHead + Confirmations <= highest
    /\ sync.step = "fetching" => checkpoint.block < sync.next /\ sync.next <= sync.safeHead
    /\ sync.step = "closing" => 1 <= sync.safeHead /\ sync.next = sync.safeHead + 1
    /\ sync.step = "comparing" => checkpoint.block <= sync.safeHead

\* The gateway has ended the issuance of what it revokes, and records what has had
\* its confirmations.
OwnInv ==
    /\ \A h \in Hashes : OwnAt("CertificateRevoked", h, Len(chain)) =>
           <<"CertificateIssued", h>> \in recorded /\ writer # <<"CertificateIssued", h>>
    /\ shallow /\ writer # NoWrite =>
           \E i \in DOMAIN chain :
               /\ i <= highest - Confirmations + 1 /\ chain[i].own
               /\ chain[i].name = writer[1] /\ chain[i].hash = writer[2]

\* What is indexed is settled.
BelowInv ==
    shallow => \A h \in Hashes :
        /\ index[h] # "NOT_FOUND" => Settled("CertificateIssued", h)
        /\ index[h] = "REVOKED" => Settled("CertificateRevoked", h)

\* The blocks whose events have been applied.
Processed(i) ==
    i <= checkpoint.block \/ (sync.step \in {"fetching", "closing"} /\ i < sync.next)

\* What is in a processed block is indexed.
CoverInv ==
    shallow => \A i \in DOMAIN chain, h \in Hashes :
        Processed(i) /\ chain[i].name \in Names /\ chain[i].hash = h =>
            /\ index[h] # "NOT_FOUND"
            /\ chain[i].name = "CertificateRevoked" =>
                   index[h] = "REVOKED" \/ RevokedBehindOurBack(h)

\* The synchronization that a list waits for reaches what the list must hold.
FreshInv ==
    /\ listing.since <= getConfirmedHead(Len(chain))
    /\ listing.step = "waiting" /\ sync.step # "idle" => listing.since <= sync.safeHead

IndexInv ==
    IndexTypeOK /\ ChainInv /\ SyncInv /\ OwnInv /\ BelowInv /\ CoverInv /\ FreshInv

LEMMA Numbers ==
    /\ Confirmations \in Nat /\ Confirmations >= 1
    /\ EventChunkSize \in Nat /\ EventChunkSize >= 1
    /\ NoDocument \notin Hashes
BY IndexConfigAssumption

LEMMA ConfirmedHead ==
    ASSUME NEW n \in Nat
    PROVE  /\ getConfirmedHead(n) \in Nat
           /\ getConfirmedHead(n) = 0 \/ getConfirmedHead(n) = n - Confirmations
           /\ \A m \in Nat : m <= n => getConfirmedHead(m) <= getConfirmedHead(n)
BY Numbers DEF getConfirmedHead

LEMMA ChainTyped ==
    ASSUME IndexTypeOK
    PROVE  /\ chain \in Seq(Blocks) /\ Len(chain) \in Nat /\ DOMAIN chain = 1 .. Len(chain)
           /\ \A i \in DOMAIN chain : chain[i] \in Blocks
<1>1. chain \in Seq(Blocks)
  BY DEF IndexTypeOK, Blocks
<1> QED BY <1>1

LEMMA ListingTyped ==
    ASSUME IndexTypeOK
    PROVE  /\ listing.since \in Nat
           /\ \A n \in Nat : lowered(listing.since, n) \in Nat
                             /\ lowered(listing.since, n) <= listing.since
                             /\ lowered(listing.since, n) <= n
BY DEF IndexTypeOK, lowered

LEMMA InitIndexInv == IndexInit => IndexInv
<1> SUFFICES ASSUME IndexInit PROVE IndexInv
  OBVIOUS
<1>1. chain = <<>> /\ Len(chain) = 0 /\ DOMAIN chain = {} /\ chain \in Seq(Blocks)
  BY DEF IndexInit
<1>2. IndexTypeOK
  BY <1>1 DEF IndexTypeOK, IndexInit, NoCheckpoint, NoSync, NoWrite, NoListing, EmptyIndex,
              Status, NULL, Blocks
<1>3. ChainInv
  BY <1>1, Numbers DEF ChainInv, IndexInit
<1>4. SyncInv /\ FreshInv
  BY <1>1, Numbers, ConfirmedHead
     DEF SyncInv, FreshInv, IndexInit, NoSync, NoListing, NULL
<1>5. OwnInv
  BY <1>1 DEF OwnInv, OwnAt, IndexInit
<1>6. BelowInv /\ CoverInv
  BY <1>1 DEF BelowInv, CoverInv, IndexInit, EmptyIndex
<1> QED BY <1>2, <1>3, <1>4, <1>5, <1>6 DEF IndexInv

-----------------------------------------------------------------------------
(* The network's steps.                                                    *)

LEMMA BlockFacts ==
    ASSUME IndexInv, NEW name \in Names \cup {"none"}, NEW h \in Hashes \cup {NoDocument},
           NEW isOwn \in BOOLEAN, name = "none" <=> h = NoDocument, Block(name, h, isOwn)
    PROVE  LET n == Len(chain) + 1 IN
           /\ chain' \in Seq(Blocks) /\ Len(chain') = n /\ DOMAIN chain' = 1 .. n
           /\ \A i \in 1 .. Len(chain) : chain'[i] = chain[i]
           /\ chain'[n] = [hash |-> h, name |-> name, own |-> isOwn, fork |-> forks]
           /\ highest' \in Nat /\ highest' >= highest /\ highest' >= n
           /\ highest' = highest \/ highest' = n
<1>1. chain \in Seq(Blocks) /\ forks \in Nat /\ highest \in Nat
  BY ChainTyped DEF IndexInv, IndexTypeOK
<1>2. [hash |-> h, name |-> name, own |-> isOwn, fork |-> forks] \in Blocks
  BY <1>1 DEF Blocks
<1>3. chain' = Append(chain, [hash |-> h, name |-> name, own |-> isOwn, fork |-> forks])
  BY DEF Block
<1>4. highest' = IF Len(chain') > highest THEN Len(chain') ELSE highest
  BY DEF Block
<1> QED BY <1>1, <1>2, <1>3, <1>4

LEMMA ReorganizeFacts ==
    ASSUME IndexInv, NEW n \in 0 .. Len(chain) - 1, Reorganize(n)
    PROVE  /\ chain' \in Seq(Blocks) /\ Len(chain') = n /\ DOMAIN chain' = 1 .. n
           /\ \A i \in 1 .. n : i \in DOMAIN chain /\ chain'[i] = chain[i]
           /\ n \in Nat /\ n < Len(chain) /\ highest' = highest
           /\ shallow' => shallow /\ n > highest - Confirmations
<1>1. chain \in Seq(Blocks) /\ highest \in Nat /\ shallow \in BOOLEAN
  BY ChainTyped DEF IndexInv, IndexTypeOK
<1>2. chain' = SubSeq(chain, 1, n)
  BY DEF Reorganize
<1>3. chain' \in Seq(Blocks) /\ Len(chain') = n /\ \A i \in 1 .. n : chain'[i] = chain[i]
  BY <1>1, <1>2
<1>4. n \in Nat /\ n < Len(chain) /\ \A i \in 1 .. n : i \in DOMAIN chain
  BY <1>1
<1>5. highest' = highest /\ (shallow' => shallow /\ n > highest - Confirmations)
  BY <1>1 DEF Reorganize
<1> QED BY <1>3, <1>4, <1>5

\* What has been revoked behind the gateway's back stays so when blocks are added, and
\* when blocks are taken back that lie above the revocation.
LEMMA BehindStays ==
    ASSUME IndexInv, NEW name \in Names \cup {"none"}, NEW h \in Hashes \cup {NoDocument},
           NEW isOwn \in BOOLEAN, name = "none" <=> h = NoDocument, Block(name, h, isOwn),
           NEW g, RevokedBehindOurBack(g)
    PROVE  RevokedBehindOurBack(g)'
<1> DEFINE n == Len(chain) + 1
<1>0. /\ Len(chain) \in Nat /\ Len(chain') = n /\ \A i \in 1 .. Len(chain) : chain'[i] = chain[i]
      /\ chain'[n] = [hash |-> h, name |-> name, own |-> isOwn, fork |-> forks]
  BY BlockFacts, ChainTyped DEF IndexInv
<1>1. Logged("CertificateRevoked", g, Len(chain))
  BY DEF RevokedBehindOurBack
<1>2. OwnAt("CertificateIssued", g, Len(chain)) => OwnAt("CertificateIssued", g, Len(chain))'
  BY <1>0 DEF OwnAt
<1>3. Logged("CertificateRevoked", g, Len(chain))'
  BY <1>0, <1>1 DEF Logged
<1>4. ~(name = "CertificateRevoked" /\ h = g)
  BY <1>1 DEF Block, StatusAt
<1>5. OwnAt("CertificateRevoked", g, Len(chain))' => OwnAt("CertificateRevoked", g, Len(chain))
  <2> SUFFICES ASSUME NEW i \in 1 .. n, chain'[i].name = "CertificateRevoked",
                      chain'[i].hash = g, chain'[i].own
               PROVE  OwnAt("CertificateRevoked", g, Len(chain))
    BY <1>0 DEF OwnAt
  <2>1. i # n
    BY <1>0, <1>4
  <2>2. i \in 1 .. Len(chain) /\ chain'[i] = chain[i]
    BY <1>0, <2>1
  <2> QED BY <2>2 DEF OwnAt
<1> QED BY <1>2, <1>3, <1>5 DEF RevokedBehindOurBack

LEMMA BehindSurvives ==
    ASSUME IndexInv, NEW n \in 0 .. Len(chain) - 1, Reorganize(n),
           NEW i \in 1 .. n, NEW g, chain[i].name = "CertificateRevoked", chain[i].hash = g,
           RevokedBehindOurBack(g)
    PROVE  RevokedBehindOurBack(g)'
<1>1. i \in DOMAIN chain /\ g = chain'[i].hash /\ chain'[i] = chain[i]
  BY ReorganizeFacts
<1>2. PICK j \in 1 .. i - 1 : chain[j].name = "CertificateIssued" /\ chain[j].hash = g
  BY <1>1 DEF IndexInv, ChainInv
<1>3. PICK k \in 1 .. Len(chain) :
         chain[k].name = "CertificateIssued" /\ chain[k].hash = g /\ chain[k].own
  BY DEF RevokedBehindOurBack, OwnAt
<1>4. j = k
  BY <1>1, <1>2, <1>3, ChainTyped, ReorganizeFacts DEF IndexInv, ChainInv, Names
<1>5. OwnAt("CertificateIssued", g, Len(chain))'
  BY <1>2, <1>3, <1>4, <1>1, ReorganizeFacts DEF OwnAt
<1>6. Logged("CertificateRevoked", g, Len(chain))'
  BY <1>1, ReorganizeFacts DEF Logged
<1>7. OwnAt("CertificateRevoked", g, Len(chain))' => OwnAt("CertificateRevoked", g, Len(chain))
  BY <1>1, ReorganizeFacts, ChainTyped DEF OwnAt, IndexInv
<1> QED BY <1>1, <1>5, <1>6, <1>7 DEF RevokedBehindOurBack

LEMMA BlockInv ==
    ASSUME IndexInv, NEW name \in Names \cup {"none"}, NEW h \in Hashes \cup {NoDocument},
           NEW isOwn \in BOOLEAN, name = "none" <=> h = NoDocument, Block(name, h, isOwn)
    PROVE  IndexInv'
<1> DEFINE n == Len(chain) + 1
           new == [hash |-> h, name |-> name, own |-> isOwn, fork |-> forks]
<1>1. /\ chain' \in Seq(Blocks) /\ Len(chain') = n /\ DOMAIN chain' = 1 .. n
      /\ \A i \in 1 .. Len(chain) : chain'[i] = chain[i]
      /\ chain'[n] = new
      /\ highest' \in Nat /\ highest' >= highest /\ highest' >= n
      /\ highest' = highest \/ highest' = n
  BY BlockFacts
<1>2. UNCHANGED <<forks, shallow, tables, sync, own, listing>>
  BY DEF Block
<1>3. /\ UNCHANGED forks /\ UNCHANGED shallow /\ UNCHANGED <<index, checkpoint, ready>>
      /\ UNCHANGED sync /\ UNCHANGED <<writer, recorded>> /\ UNCHANGED listing
  BY <1>2 DEF tables, own
<1>4. Len(chain) \in Nat /\ DOMAIN chain = 1 .. Len(chain) /\ highest \in Nat
  BY ChainTyped DEF IndexInv, IndexTypeOK
<1>5. \A i \in 1 .. n : i # n => i \in 1 .. Len(chain)
  BY <1>4
<1> HIDE DEF n
<1>6. n = Len(chain) + 1
  BY DEF n
<1>7. IndexTypeOK'
  <2>1. checkpoint = NoCheckpoint \/ checkpoint.block + Confirmations <= highest'
    BY <1>1, <1>4, Numbers DEF IndexInv, IndexTypeOK
  <2> QED BY <1>1, <1>3, <2>1 DEF IndexInv, IndexTypeOK, Blocks
<1>8. ChainInv'
  <2>1. Len(chain') <= highest' /\ (shallow' => highest' - Confirmations < Len(chain'))
    BY <1>1, <1>3, <1>4, <1>6, Numbers DEF IndexInv, ChainInv
  <2>2. \A i \in DOMAIN chain' : chain'[i].name \in Names => chain'[i].hash \in Hashes
    BY <1>1, <1>4, <1>5 DEF IndexInv, ChainInv, Names
  <2>3. \A i \in 1 .. Len(chain) :
           ~(name \in Names /\ chain[i].name = name /\ chain[i].hash = h)
    BY DEF Block, StatusAt, Logged, Names
  <2>4. \A i, j \in DOMAIN chain' :
           chain'[i].name \in Names /\ chain'[i].name = chain'[j].name
               /\ chain'[i].hash = chain'[j].hash => i = j
    BY <1>1, <1>4, <1>5, <2>3 DEF IndexInv, ChainInv
  <2>5. ASSUME NEW i \in 1 .. n, chain'[i].name = "CertificateRevoked"
        PROVE  \E j \in 1 .. i - 1 : /\ chain'[j].name = "CertificateIssued"
                                     /\ chain'[j].hash = chain'[i].hash
    <3>1. CASE i # n
      <4>1. i \in 1 .. Len(chain) /\ chain[i].name = "CertificateRevoked"
        BY <1>1, <1>5, <2>5, <3>1
      <4>2. PICK j \in 1 .. i - 1 : /\ chain[j].name = "CertificateIssued"
                                    /\ chain[j].hash = chain[i].hash
        BY <1>4, <4>1 DEF IndexInv, ChainInv
      <4>3. j \in 1 .. Len(chain)
        BY <1>4, <4>1
      <4> QED BY <1>1, <4>1, <4>2, <4>3
    <3>2. CASE i = n
      <4>1. name = "CertificateRevoked"
        BY <1>1, <2>5, <3>2
      <4>2. PICK j \in 1 .. Len(chain) : chain[j].name = "CertificateIssued" /\ chain[j].hash = h
        BY <4>1 DEF Block, StatusAt, Logged
      <4>3. j \in 1 .. i - 1
        BY <1>4, <1>6, <3>2
      <4> QED BY <1>1, <3>2, <4>2, <4>3
    <3> QED BY <3>1, <3>2
  <2> QED BY <1>1, <2>1, <2>2, <2>4, <2>5 DEF ChainInv
<1>9. SyncInv'
  BY <1>1, <1>3, <1>4, Numbers DEF IndexInv, SyncInv, IndexTypeOK
<1>10. OwnInv'
  <2>1. ASSUME NEW g \in Hashes, OwnAt("CertificateRevoked", g, Len(chain))'
        PROVE  <<"CertificateIssued", g>> \in recorded /\ writer # <<"CertificateIssued", g>>
    <3>1. PICK i \in 1 .. n : chain'[i].name = "CertificateRevoked"
                              /\ chain'[i].hash = g /\ chain'[i].own
      BY <1>1, <2>1 DEF OwnAt
    <3>2. CASE i # n
      BY <1>1, <1>5, <3>1, <3>2 DEF OwnAt, IndexInv, OwnInv
    <3>3. CASE i = n
      <4>1. name = "CertificateRevoked" /\ isOwn /\ h = g
        BY <1>1, <3>1, <3>3
      <4>2. OwnAt("CertificateIssued", g, Len(chain)) /\ writer = NoWrite
        BY <4>1 DEF Block
      <4>3. <<"CertificateIssued", g>> \in recorded
        BY <4>1, <4>2 DEF Block, Names
      <4> QED BY <4>2, <4>3 DEF NoWrite
    <3> QED BY <3>2, <3>3
  <2>2. ASSUME shallow, writer # NoWrite
        PROVE  \E i \in DOMAIN chain' :
                   /\ i <= highest' - Confirmations + 1 /\ chain'[i].own
                   /\ chain'[i].name = writer[1] /\ chain'[i].hash = writer[2]
    <3>1. PICK i \in DOMAIN chain :
                   /\ i <= highest - Confirmations + 1 /\ chain[i].own
                   /\ chain[i].name = writer[1] /\ chain[i].hash = writer[2]
      BY <2>2 DEF IndexInv, OwnInv
    <3>2. i \in DOMAIN chain' /\ i <= highest' - Confirmations + 1 /\ chain'[i] = chain[i]
      BY <1>1, <1>4, <1>6, <3>1, Numbers
    <3> QED BY <3>1, <3>2
  <2> QED BY <1>3, <2>1, <2>2 DEF OwnInv
<1>11. BelowInv'
  <2>1. ASSUME NEW m, NEW g, Settled(m, g) PROVE Settled(m, g)'
    <3>1. PICK i \in DOMAIN chain :
              i <= highest - Confirmations + 1 /\ chain[i].name = m /\ chain[i].hash = g
      BY <2>1 DEF Settled
    <3>2. i \in DOMAIN chain' /\ i <= highest' - Confirmations + 1 /\ chain'[i] = chain[i]
      BY <1>1, <1>4, <1>6, <3>1, Numbers
    <3> QED BY <3>1, <3>2 DEF Settled
  <2> QED BY <1>3, <2>1 DEF IndexInv, BelowInv
<1>12. CoverInv'
  <2> SUFFICES ASSUME shallow, NEW i \in DOMAIN chain', NEW g \in Hashes, Processed(i)',
                      chain'[i].name \in Names, chain'[i].hash = g
               PROVE  /\ index[g] # "NOT_FOUND"
                      /\ chain'[i].name = "CertificateRevoked" =>
                             index[g] = "REVOKED" \/ RevokedBehindOurBack(g)'
    BY <1>3 DEF CoverInv
  <2>1. Processed(i)
    BY <1>3 DEF Processed
  <2>2. i <= highest - Confirmations
    <3>1. CASE i <= checkpoint.block
      BY <1>1, <1>4, <3>1, Numbers DEF IndexInv, IndexTypeOK, NoCheckpoint, NULL
    <3>2. CASE sync.step \in {"fetching", "closing"} /\ i < sync.next
      <4>1. i <= sync.safeHead
        BY <1>1, <1>4, <3>2 DEF IndexInv, SyncInv, IndexTypeOK
      <4> QED BY <1>1, <1>4, <4>1, Numbers DEF IndexInv, SyncInv, IndexTypeOK
    <3> QED BY <2>1, <3>1, <3>2 DEF Processed
  <2>3. i \in DOMAIN chain /\ chain'[i] = chain[i]
    BY <1>1, <1>4, <1>5, <1>6, <2>2, Numbers DEF IndexInv, ChainInv
  <2>4. /\ index[g] # "NOT_FOUND"
        /\ chain[i].name = "CertificateRevoked" =>
               index[g] = "REVOKED" \/ RevokedBehindOurBack(g)
    BY <2>1, <2>3 DEF IndexInv, CoverInv
  <2>5. RevokedBehindOurBack(g) => RevokedBehindOurBack(g)'
    BY BehindStays
  <2> QED BY <2>3, <2>4, <2>5
<1>13. FreshInv'
  <2>1. listing.since <= getConfirmedHead(Len(chain)) /\ listing.since \in Nat
    BY ListingTyped DEF IndexInv, FreshInv
  <2>2. getConfirmedHead(Len(chain)) <= getConfirmedHead(Len(chain'))
    <3>1. Len(chain) \in Nat /\ Len(chain') \in Nat /\ Len(chain) <= Len(chain')
      BY <1>1, <1>4, <1>6
    <3> QED BY <3>1, ConfirmedHead
  <2>3. getConfirmedHead(Len(chain)) \in Nat /\ getConfirmedHead(Len(chain')) \in Nat
    BY <1>1, <1>4, <1>6, ConfirmedHead
  <2> QED BY <1>3, <2>1, <2>2, <2>3 DEF IndexInv, FreshInv, getConfirmedHead
<1> QED BY <1>7, <1>8, <1>9, <1>10, <1>11, <1>12, <1>13 DEF IndexInv

LEMMA ReorganizeInv ==
    ASSUME IndexInv, NEW n \in 0 .. Len(chain) - 1, Reorganize(n)
    PROVE  IndexInv'
<1>1. /\ chain' \in Seq(Blocks) /\ Len(chain') = n /\ DOMAIN chain' = 1 .. n
      /\ \A i \in 1 .. n : i \in DOMAIN chain /\ chain'[i] = chain[i]
      /\ n \in Nat /\ n < Len(chain) /\ highest' = highest
      /\ shallow' => shallow /\ n > highest - Confirmations
  BY ReorganizeFacts
<1>2. /\ forks' = forks + 1 /\ shallow' = (shallow /\ n > highest - Confirmations)
      /\ listing' = [listing EXCEPT !.since = lowered(@, getConfirmedHead(n))]
      /\ UNCHANGED <<index, checkpoint, ready>>
      /\ UNCHANGED sync /\ UNCHANGED <<writer, recorded>>
  BY DEF Reorganize, tables, own
<1>3. highest \in Nat /\ Len(chain) \in Nat /\ DOMAIN chain = 1 .. Len(chain)
  BY ChainTyped DEF IndexInv, IndexTypeOK
<1>4. /\ listing.since \in Nat /\ listing'.step = listing.step /\ listing'.since \in Nat
      /\ listing'.since <= listing.since /\ listing'.since <= getConfirmedHead(n)
      /\ listing' \in [step : {"none", "waiting"}, since : Nat]
  <2>1. listing \in [step : {"none", "waiting"}, since : Nat]
    BY DEF IndexInv, IndexTypeOK
  <2>2. getConfirmedHead(n) \in Nat
    BY <1>1, ConfirmedHead
  <2>3. /\ lowered(listing.since, getConfirmedHead(n)) \in Nat
        /\ lowered(listing.since, getConfirmedHead(n)) <= listing.since
        /\ lowered(listing.since, getConfirmedHead(n)) <= getConfirmedHead(n)
    BY <2>2, ListingTyped DEF IndexInv
  <2> QED BY <1>2, <2>1, <2>3
<1>5. IndexTypeOK'
  <2>1. forks' \in Nat /\ shallow' \in BOOLEAN
    BY <1>2 DEF IndexInv, IndexTypeOK
  <2> QED BY <1>1, <1>2, <1>4, <2>1 DEF IndexInv, IndexTypeOK, Blocks
<1>6. ChainInv'
  <2>1. Len(chain') <= highest' /\ (shallow' => highest' - Confirmations < Len(chain'))
    BY <1>1, <1>3, Numbers DEF IndexInv, ChainInv
  <2>2. ASSUME NEW i \in 1 .. n, chain'[i].name = "CertificateRevoked"
        PROVE  \E j \in 1 .. i - 1 : /\ chain'[j].name = "CertificateIssued"
                                     /\ chain'[j].hash = chain'[i].hash
    <3>1. PICK j \in 1 .. i - 1 : /\ chain[j].name = "CertificateIssued"
                                  /\ chain[j].hash = chain[i].hash
      BY <1>1, <2>2 DEF IndexInv, ChainInv
    <3>2. j \in 1 .. n
      BY <1>1, <3>1
    <3> QED BY <1>1, <3>1, <3>2
  <2> QED BY <1>1, <2>1, <2>2 DEF IndexInv, ChainInv
<1>7. SyncInv'
  BY <1>1, <1>2 DEF IndexInv, SyncInv
<1>8. OwnInv'
  <2>1. ASSUME NEW g \in Hashes, OwnAt("CertificateRevoked", g, Len(chain))'
        PROVE  OwnAt("CertificateRevoked", g, Len(chain))
    BY <1>1, <1>3, <2>1 DEF OwnAt
  <2>2. ASSUME shallow', writer # NoWrite
        PROVE  \E i \in DOMAIN chain' :
                   /\ i <= highest' - Confirmations + 1 /\ chain'[i].own
                   /\ chain'[i].name = writer[1] /\ chain'[i].hash = writer[2]
    <3>1. PICK i \in DOMAIN chain :
                   /\ i <= highest - Confirmations + 1 /\ chain[i].own
                   /\ chain[i].name = writer[1] /\ chain[i].hash = writer[2]
      BY <1>1, <2>2 DEF IndexInv, OwnInv
    <3>2. i \in 1 .. n
      BY <1>1, <1>3, <2>2, <3>1, Numbers
    <3> QED BY <1>1, <3>1, <3>2
  <2> QED BY <1>2, <2>1, <2>2 DEF IndexInv, OwnInv
<1>9. BelowInv'
  <2>1. ASSUME shallow', NEW m, NEW g, Settled(m, g) PROVE Settled(m, g)'
    <3>1. PICK i \in DOMAIN chain :
              i <= highest - Confirmations + 1 /\ chain[i].name = m /\ chain[i].hash = g
      BY <2>1 DEF Settled
    <3>2. i \in 1 .. n
      BY <1>1, <1>3, <2>1, <3>1, Numbers
    <3> QED BY <1>1, <3>1, <3>2 DEF Settled
  <2> QED BY <1>1, <1>2, <2>1 DEF IndexInv, BelowInv
<1>10. CoverInv'
  <2> SUFFICES ASSUME shallow', NEW i \in DOMAIN chain', NEW g \in Hashes, Processed(i)',
                      chain'[i].name \in Names, chain'[i].hash = g
               PROVE  /\ index[g] # "NOT_FOUND"
                      /\ chain'[i].name = "CertificateRevoked" =>
                             index[g] = "REVOKED" \/ RevokedBehindOurBack(g)'
    BY <1>2 DEF CoverInv
  <2>1. Processed(i)
    BY <1>2 DEF Processed
  <2>2. i \in 1 .. n /\ i \in DOMAIN chain /\ chain'[i] = chain[i]
    BY <1>1
  <2>3. /\ index[g] # "NOT_FOUND"
        /\ chain[i].name = "CertificateRevoked" =>
               index[g] = "REVOKED" \/ RevokedBehindOurBack(g)
    BY <1>1, <2>1, <2>2 DEF IndexInv, CoverInv
  <2>4. chain[i].name = "CertificateRevoked" /\ RevokedBehindOurBack(g) =>
            RevokedBehindOurBack(g)'
    BY <2>2, BehindSurvives
  <2> QED BY <2>2, <2>3, <2>4
<1>11. FreshInv'
  <2>1. listing'.since <= getConfirmedHead(Len(chain'))
    BY <1>1, <1>4
  <2>2. listing'.step = "waiting" /\ sync.step # "idle" => listing'.since <= sync.safeHead
    BY <1>4 DEF IndexInv, FreshInv, IndexTypeOK
  <2> QED BY <1>2, <2>1, <2>2 DEF FreshInv, getConfirmedHead
<1> QED BY <1>5, <1>6, <1>7, <1>8, <1>9, <1>10, <1>11 DEF IndexInv

-----------------------------------------------------------------------------
(* The steps that leave the chain as it is.                                *)

LEMMA SameChain ==
    ASSUME IndexInv, UNCHANGED network
    PROVE  /\ ChainInv' /\ highest \in Nat
           /\ UNCHANGED chain /\ UNCHANGED highest /\ UNCHANGED forks /\ UNCHANGED shallow
           /\ \A h : RevokedBehindOurBack(h)' <=> RevokedBehindOurBack(h)
           /\ \A m, h : Settled(m, h)' <=> Settled(m, h)
           /\ UNCHANGED own => OwnInv'
<1>1. UNCHANGED chain /\ UNCHANGED highest /\ UNCHANGED forks /\ UNCHANGED shallow
  BY DEF network
<1>2. ChainInv' /\ highest \in Nat
  BY <1>1 DEF IndexInv, ChainInv, IndexTypeOK
<1>3. \A h : RevokedBehindOurBack(h)' <=> RevokedBehindOurBack(h)
  BY <1>1 DEF RevokedBehindOurBack, Logged, OwnAt
<1>4. \A m, h : Settled(m, h)' <=> Settled(m, h)
  BY <1>1 DEF Settled
<1>5. UNCHANGED own => OwnInv'
  BY <1>1 DEF own, IndexInv, OwnInv, OwnAt
<1> QED BY <1>1, <1>2, <1>3, <1>4, <1>5

\* An index that stays, or is cleared, lists nothing new.
LEMMA BelowKept ==
    ASSUME IndexInv, UNCHANGED network, index' \in {index, EmptyIndex}
    PROVE  BelowInv'
<1>1. \A h \in Hashes : index'[h] # "NOT_FOUND" => index'[h] = index[h]
  BY DEF EmptyIndex
<1> QED BY <1>1, SameChain DEF IndexInv, BelowInv

\* An index that stays covers what it has covered.
LEMMA CoverKept ==
    ASSUME IndexInv, UNCHANGED network, UNCHANGED index,
           \A i \in DOMAIN chain : Processed(i)' => Processed(i)
    PROVE  CoverInv'
BY SameChain DEF IndexInv, CoverInv

LEMMA CoverEmpty ==
    ASSUME IndexInv, UNCHANGED network, \A i \in DOMAIN chain : ~Processed(i)'
    PROVE  CoverInv'
BY SameChain DEF IndexInv, CoverInv

\* What is typed when the network stays.
LEMMA SameTyped ==
    ASSUME IndexInv, UNCHANGED network, ready' \in BOOLEAN,
           index' \in {index, EmptyIndex}, checkpoint' \in {checkpoint, NoCheckpoint},
           sync' \in [step : {"idle", "comparing", "fetching", "closing"},
                      safeHead : Nat, next : Nat],
           listing' \in {listing, NoListing}, UNCHANGED own
    PROVE  IndexTypeOK'
<1>1. index' \in [Hashes -> Status]
  BY DEF IndexInv, IndexTypeOK, EmptyIndex, Status
<1>2. /\ checkpoint' \in [block : Nat, hash : Nat]
      /\ checkpoint' = NoCheckpoint \/ checkpoint'.block + Confirmations <= highest
  BY DEF IndexInv, IndexTypeOK, NoCheckpoint, NULL
<1>3. listing' \in [step : {"none", "waiting"}, since : Nat]
  BY DEF IndexInv, IndexTypeOK, NoListing, NULL
<1> QED BY <1>1, <1>2, <1>3, SameChain DEF IndexInv, IndexTypeOK, own

LEMMA HeadRead ==
    ASSUME IndexInv, NEW head, head = getConfirmedHead(Len(chain))
    PROVE  /\ head \in Nat
           /\ head = 0 \/ head + Confirmations <= highest
           /\ listing.since <= head
BY ChainTyped, ConfirmedHead, Numbers DEF IndexInv, IndexTypeOK, ChainInv, FreshInv

LEMMA StartCases ==
    ASSUME IndexInv, Start, NEW head, head = getConfirmedHead(Len(chain))
    PROVE  \/ /\ checkpoint.block > head /\ index' = EmptyIndex /\ checkpoint' = NoCheckpoint
              /\ ready' \in BOOLEAN
              /\ sync' = IF 1 <= head THEN [step |-> "fetching", safeHead |-> head, next |-> 1]
                         ELSE NoSync
           \/ /\ checkpoint.block <= head
              /\ sync' = [step |-> "comparing", safeHead |-> head, next |-> 0]
              /\ UNCHANGED <<index, checkpoint, ready>>
           \/ /\ checkpoint.block <= head
              /\ ready' \in BOOLEAN /\ UNCHANGED <<index, checkpoint>>
              /\ sync' = IF checkpoint.block + 1 <= head
                         THEN [step |-> "fetching", safeHead |-> head,
                               next |-> checkpoint.block + 1]
                         ELSE NoSync
<1>1. CASE /\ checkpoint.block > head
           /\ index' = EmptyIndex /\ checkpoint' = NoCheckpoint
           /\ ready' = ~(nextBlock(NULL) <= head)
           /\ ProcessAfter(NULL, head)
  BY <1>1 DEF ProcessAfter, nextBlock, NULL
<1>2. CASE /\ checkpoint.block <= head
           /\ sync' = [step |-> "comparing", safeHead |-> head, next |-> 0]
           /\ UNCHANGED tables
  BY <1>2 DEF tables
<1>3. CASE /\ checkpoint.block <= head
           /\ ready' = (ready \/ ~(nextBlock(checkpoint.block) <= head))
           /\ ProcessAfter(checkpoint.block, head)
           /\ UNCHANGED <<index, checkpoint>>
  BY <1>3 DEF ProcessAfter, nextBlock
<1> QED BY <1>1, <1>2, <1>3 DEF Start

LEMMA StartInv == ASSUME IndexInv, Start PROVE IndexInv'
<1>1. PICK head : head = getConfirmedHead(Len(chain))
  OBVIOUS
<1>2. /\ head \in Nat
      /\ head = 0 \/ head + Confirmations <= highest
      /\ listing.since <= head /\ listing.since \in Nat
  BY <1>1, HeadRead, ListingTyped DEF IndexInv
<1>3. checkpoint.block \in Nat /\ ready \in BOOLEAN /\ highest \in Nat
  BY DEF IndexInv, IndexTypeOK
<1>4. UNCHANGED network /\ UNCHANGED own /\ sync.step = "idle"
  BY DEF Start
<1>5. listing' \in {listing, NoListing}
  BY DEF Start, queryIfDone
<1>6. \/ /\ checkpoint.block > head /\ index' = EmptyIndex /\ checkpoint' = NoCheckpoint
         /\ ready' \in BOOLEAN
         /\ sync' = IF 1 <= head THEN [step |-> "fetching", safeHead |-> head, next |-> 1]
                    ELSE NoSync
      \/ /\ checkpoint.block <= head
         /\ sync' = [step |-> "comparing", safeHead |-> head, next |-> 0]
         /\ UNCHANGED <<index, checkpoint, ready>>
      \/ /\ checkpoint.block <= head
         /\ ready' \in BOOLEAN /\ UNCHANGED <<index, checkpoint>>
         /\ sync' = IF checkpoint.block + 1 <= head
                    THEN [step |-> "fetching", safeHead |-> head,
                          next |-> checkpoint.block + 1]
                    ELSE NoSync
  BY <1>1, StartCases
<1>7. /\ sync' \in [step : {"idle", "comparing", "fetching", "closing"},
                    safeHead : Nat, next : Nat]
      /\ sync' = NoSync \/ sync'.safeHead = head
  <2> USE <1>2, <1>3 DEF NoSync
  <2>1. CASE sync' = NoSync
    BY <2>1
  <2>2. CASE sync' = [step |-> "comparing", safeHead |-> head, next |-> 0]
    BY <2>2
  <2>3. CASE sync' = [step |-> "fetching", safeHead |-> head, next |-> 1]
    BY <2>3
  <2>4. CASE sync' = [step |-> "fetching", safeHead |-> head, next |-> checkpoint.block + 1]
    BY <2>4
  <2> QED BY <1>6, <2>1, <2>2, <2>3, <2>4
<1>8. IndexTypeOK'
  BY <1>3, <1>4, <1>5, <1>6, <1>7, SameTyped DEF IndexInv, IndexTypeOK
<1>9. SyncInv'
  <2>1. CASE sync' = NoSync
    BY <2>1, Numbers DEF SyncInv, NoSync
  <2>2. CASE sync' = [step |-> "comparing", safeHead |-> head, next |-> 0]
             /\ UNCHANGED checkpoint /\ checkpoint.block <= head
    BY <1>2, <1>4, <2>2, SameChain DEF SyncInv
  <2>3. CASE /\ sync' = [step |-> "fetching", safeHead |-> head, next |-> checkpoint'.block + 1]
             /\ checkpoint'.block + 1 <= head /\ checkpoint'.block \in Nat
    BY <1>2, <1>4, <2>3, SameChain DEF SyncInv
  <2> QED BY <1>2, <1>3, <1>6, <2>1, <2>2, <2>3 DEF NoCheckpoint, NULL
<1>10. BelowInv'
  BY <1>4, <1>6, BelowKept
<1>11. CoverInv'
  <2>1. CASE checkpoint' = NoCheckpoint /\ sync'.next <= 1
    <3>1. \A i \in DOMAIN chain : ~Processed(i)'
      BY <2>1, <1>7, ChainTyped DEF Processed, NoCheckpoint, NULL, IndexInv
    <3> QED BY <1>4, <3>1, CoverEmpty
  <2>2. CASE UNCHANGED index /\ UNCHANGED checkpoint /\ sync'.next <= checkpoint.block + 1
    <3>1. \A i \in DOMAIN chain : Processed(i)' => Processed(i)
      BY <2>2, <1>3, <1>7, ChainTyped DEF Processed, IndexInv
    <3> QED BY <1>4, <2>2, <3>1, CoverKept
  <2> QED BY <1>3, <1>6, <2>1, <2>2 DEF NoSync
<1>12. FreshInv'
  BY <1>1, <1>2, <1>4, <1>5, <1>7, SameChain
     DEF FreshInv, getConfirmedHead, NoListing, NULL, NoSync
<1> QED BY <1>4, <1>8, <1>9, <1>10, <1>11, <1>12, SameChain DEF IndexInv

LEMMA CompareInv == ASSUME IndexInv, Compare PROVE IndexInv'
<1>1. /\ checkpoint.block \in Nat /\ ready \in BOOLEAN /\ sync.safeHead \in Nat
      /\ highest \in Nat /\ checkpoint.block <= sync.safeHead
  BY DEF Compare, IndexInv, IndexTypeOK, SyncInv
<1>2. UNCHANGED network /\ UNCHANGED own /\ sync.step = "comparing"
  BY DEF Compare
<1>3. listing' \in {listing, NoListing}
  BY DEF Compare, queryIfDone
<1>4. \/ /\ index' = EmptyIndex /\ checkpoint' = NoCheckpoint /\ ready' \in BOOLEAN
         /\ sync' = IF 1 <= sync.safeHead
                    THEN [step |-> "fetching", safeHead |-> sync.safeHead, next |-> 1]
                    ELSE NoSync
      \/ /\ ready' \in BOOLEAN /\ UNCHANGED <<index, checkpoint>>
         /\ sync' = IF checkpoint.block + 1 <= sync.safeHead
                    THEN [step |-> "fetching", safeHead |-> sync.safeHead,
                          next |-> checkpoint.block + 1]
                    ELSE NoSync
  <2>1. CASE Clear /\ ProcessAfter(NULL, sync.safeHead)
    <3>1. index' = EmptyIndex /\ checkpoint' = NoCheckpoint /\ ready' \in BOOLEAN
      BY <2>1 DEF Clear
    <3>2. sync' = IF 1 <= sync.safeHead
                  THEN [step |-> "fetching", safeHead |-> sync.safeHead, next |-> 1]
                  ELSE NoSync
      BY <2>1 DEF ProcessAfter, nextBlock, NULL
    <3> QED BY <3>1, <3>2
  <2>2. CASE /\ ready' = (ready \/ ~(nextBlock(checkpoint.block) <= sync.safeHead))
             /\ ProcessAfter(checkpoint.block, sync.safeHead)
             /\ UNCHANGED <<index, checkpoint>>
    BY <2>2 DEF ProcessAfter, nextBlock
  <2> QED BY <2>1, <2>2 DEF Compare
<1>5. /\ sync' \in [step : {"idle", "comparing", "fetching", "closing"},
                    safeHead : Nat, next : Nat]
      /\ sync' = NoSync \/ sync'.safeHead = sync.safeHead
  BY <1>1, <1>4 DEF NoSync
<1>6. IndexTypeOK'
  BY <1>2, <1>3, <1>4, <1>5, SameTyped
<1>7. SyncInv'
  <2>1. CASE sync' = NoSync
    BY <2>1, Numbers DEF SyncInv, NoSync
  <2>2. CASE /\ sync' = [step |-> "fetching", safeHead |-> sync.safeHead,
                         next |-> checkpoint'.block + 1]
             /\ checkpoint'.block + 1 <= sync.safeHead /\ checkpoint'.block \in Nat
    BY <1>1, <1>2, <2>2, SameChain DEF SyncInv, IndexInv
  <2> QED BY <1>1, <1>4, <2>1, <2>2 DEF NoCheckpoint, NULL
<1>8. BelowInv'
  BY <1>2, <1>4, BelowKept
<1>9. CoverInv'
  <2>1. CASE checkpoint' = NoCheckpoint /\ sync'.next <= 1
    <3>1. \A i \in DOMAIN chain : ~Processed(i)'
      BY <2>1, <1>5, ChainTyped DEF Processed, NoCheckpoint, NULL, IndexInv
    <3> QED BY <1>2, <3>1, CoverEmpty
  <2>2. CASE UNCHANGED index /\ UNCHANGED checkpoint /\ sync'.next <= checkpoint.block + 1
    <3>1. \A i \in DOMAIN chain : Processed(i)' => Processed(i)
      BY <2>2, <1>1, <1>5, ChainTyped DEF Processed, IndexInv
    <3> QED BY <1>2, <2>2, <3>1, CoverKept
  <2> QED BY <1>1, <1>4, <2>1, <2>2 DEF NoSync
<1>10. FreshInv'
  <2>1. listing.since <= getConfirmedHead(Len(chain)) /\ getConfirmedHead(Len(chain)) \in Nat
    BY ChainTyped, ConfirmedHead DEF IndexInv, FreshInv
  <2> QED BY <1>2, <1>3, <1>5, <2>1, SameChain
             DEF IndexInv, FreshInv, getConfirmedHead, NoListing, NULL, NoSync
<1> QED BY <1>2, <1>6, <1>7, <1>8, <1>9, <1>10, SameChain DEF IndexInv

LEMMA CloseInv == ASSUME IndexInv, Close PROVE IndexInv'
<1>1. /\ checkpoint.block \in Nat /\ sync.safeHead \in Nat /\ highest \in Nat
      /\ sync.safeHead >= 1 /\ sync.safeHead + Confirmations <= highest
      /\ sync.next = sync.safeHead + 1
  BY DEF Close, IndexInv, IndexTypeOK, SyncInv
<1>2. UNCHANGED network /\ UNCHANGED own /\ sync.step = "closing" /\ UNCHANGED index
  BY DEF Close
<1>3. listing' \in {listing, NoListing}
  BY DEF Close, queryIfDone
<1>4. /\ checkpoint' = [block |-> sync.safeHead, hash |-> hashOf(sync.safeHead)]
      /\ ready' = TRUE /\ sync' = NoSync
  BY DEF Close
<1>5. hashOf(sync.safeHead) \in Nat
  BY ChainTyped DEF hashOf, IndexInv, Blocks, NULL
<1>6. IndexTypeOK'
  <2>1. listing' \in [step : {"none", "waiting"}, since : Nat]
    BY <1>3 DEF IndexInv, IndexTypeOK, NoListing, NULL
  <2>2. /\ checkpoint' \in [block : Nat, hash : Nat]
        /\ checkpoint'.block + Confirmations <= highest
    BY <1>1, <1>4, <1>5
  <2>3. sync' \in [step : {"idle", "comparing", "fetching", "closing"},
                   safeHead : Nat, next : Nat]
    BY <1>4 DEF NoSync
  <2>4. ready' \in BOOLEAN
    BY <1>4
  <2> QED BY <1>2, <2>1, <2>2, <2>3, <2>4, SameChain DEF IndexInv, IndexTypeOK, own
<1>7. SyncInv'
  BY <1>4 DEF SyncInv, NoSync
<1>8. BelowInv'
  BY <1>2, BelowKept
<1>9. CoverInv'
  <2>1. \A i \in DOMAIN chain : Processed(i)' => Processed(i)
    BY <1>1, <1>2, <1>4, ChainTyped DEF Processed, IndexInv, NoSync
  <2> QED BY <1>2, <2>1, CoverKept
<1>10. FreshInv'
  <2>1. listing.since <= getConfirmedHead(Len(chain)) /\ getConfirmedHead(Len(chain)) \in Nat
    BY ChainTyped, ConfirmedHead DEF IndexInv, FreshInv
  <2> QED BY <1>2, <1>3, <1>4, <2>1, SameChain
             DEF FreshInv, getConfirmedHead, NoListing, NULL, NoSync
<1> QED BY <1>2, <1>6, <1>7, <1>8, <1>9, <1>10, SameChain DEF IndexInv

LEMMA FailInv == ASSUME IndexInv, Fail PROVE IndexInv'
<1>1. /\ UNCHANGED network /\ UNCHANGED own /\ UNCHANGED <<index, checkpoint, ready>>
      /\ sync' = NoSync /\ listing' = NoListing
  BY DEF Fail, tables, released
<1>2. IndexTypeOK'
  BY <1>1, SameTyped DEF IndexInv, IndexTypeOK, NoSync
<1>3. SyncInv'
  BY <1>1 DEF SyncInv, NoSync
<1>4. BelowInv'
  BY <1>1, BelowKept
<1>5. CoverInv'
  <2>1. \A i \in DOMAIN chain : Processed(i)' => Processed(i)
    BY <1>1 DEF Processed, NoSync
  <2> QED BY <1>1, <2>1, CoverKept
<1>6. FreshInv'
  BY <1>1, SameChain, ChainTyped, ConfirmedHead
     DEF IndexInv, FreshInv, getConfirmedHead, NoListing, NULL, NoSync
<1> QED BY <1>1, <1>2, <1>3, <1>4, <1>5, <1>6, SameChain DEF IndexInv

LEMMA RestartInv == ASSUME IndexInv, Restart PROVE IndexInv'
<1>1. /\ UNCHANGED network /\ index' = EmptyIndex /\ ready' = FALSE
      /\ checkpoint' = NoCheckpoint /\ sync' = NoSync /\ listing' = NoListing
      /\ writer' = NoWrite
      /\ recorded' = {w \in Names \X Hashes :
                          OwnAt(w[1], w[2], Len(chain)) \/ w \in recorded}
  BY DEF Restart, Clear
<1>2. IndexTypeOK'
  <2>1. /\ index' \in [Hashes -> Status] /\ ready' \in BOOLEAN
        /\ checkpoint' \in [block : Nat, hash : Nat]
    BY <1>1 DEF EmptyIndex, Status, NoCheckpoint, NULL
  <2>2. /\ sync' \in [step : {"idle", "comparing", "fetching", "closing"},
                      safeHead : Nat, next : Nat]
        /\ listing' \in [step : {"none", "waiting"}, since : Nat]
    BY <1>1 DEF NoSync, NoListing, NULL
  <2> QED BY <1>1, <2>1, <2>2, SameChain DEF IndexInv, IndexTypeOK
<1>3. SyncInv'
  BY <1>1 DEF SyncInv, NoSync
<1>4. OwnInv'
  <2>1. ASSUME NEW h \in Hashes, OwnAt("CertificateRevoked", h, Len(chain))
        PROVE  <<"CertificateIssued", h>> \in recorded' /\ writer' # <<"CertificateIssued", h>>
    <3>1. <<"CertificateIssued", h>> \in recorded
      BY <2>1 DEF IndexInv, OwnInv
    <3> QED BY <1>1, <3>1 DEF Names, NoWrite
  <2> QED BY <1>1, <2>1, SameChain DEF OwnInv, OwnAt
<1>5. BelowInv'
  BY <1>1, BelowKept
<1>6. CoverInv'
  <2>1. \A i \in DOMAIN chain : ~Processed(i)'
    BY <1>1, ChainTyped DEF Processed, NoSync, NoCheckpoint, NULL, IndexInv
  <2> QED BY <1>1, <2>1, CoverEmpty
<1>7. FreshInv'
  BY <1>1, SameChain, ChainTyped, ConfirmedHead
     DEF IndexInv, FreshInv, getConfirmedHead, NoListing, NULL, NoSync
<1> QED BY <1>1, <1>2, <1>3, <1>4, <1>5, <1>6, <1>7, SameChain DEF IndexInv

LEMMA RefreshInv == ASSUME IndexInv, refreshIndex PROVE IndexInv'
<1>1. PICK head : head = getConfirmedHead(Len(chain))
  OBVIOUS
<1>2. head \in Nat /\ sync.safeHead \in Nat
  BY <1>1, HeadRead DEF IndexInv, IndexTypeOK
<1>3. /\ UNCHANGED network /\ UNCHANGED own /\ UNCHANGED <<index, checkpoint, ready>>
      /\ UNCHANGED sync
      /\ listing' = [step |-> "waiting",
                     since |-> IF sync.step = "idle" THEN head ELSE lowered(head, sync.safeHead)]
  BY <1>1 DEF refreshIndex, tables
<1>4. listing'.since \in Nat /\ listing'.since <= head
      /\ (sync.step # "idle" => listing'.since <= sync.safeHead)
  BY <1>2, <1>3 DEF lowered
<1>5. IndexTypeOK'
  <2>1. listing' \in [step : {"none", "waiting"}, since : Nat]
    BY <1>3, <1>4
  <2> QED BY <1>3, <2>1, SameChain DEF IndexInv, IndexTypeOK, own
<1>6. SyncInv'
  BY <1>3, SameChain DEF IndexInv, SyncInv
<1>7. BelowInv'
  BY <1>3, BelowKept
<1>8. CoverInv'
  BY <1>3, CoverKept DEF Processed
<1>9. FreshInv'
  BY <1>1, <1>3, <1>4, SameChain DEF FreshInv, getConfirmedHead
<1> QED BY <1>3, <1>5, <1>6, <1>7, <1>8, <1>9, SameChain DEF IndexInv

-----------------------------------------------------------------------------
(* The steps that write the index.                                         *)

LEMMA ReadOwnInv ==
    ASSUME IndexInv, NEW name \in Names, NEW h \in Hashes, ReadOwn(name, h)
    PROVE  IndexInv'
<1>1. /\ UNCHANGED network /\ UNCHANGED <<index, checkpoint, ready>>
      /\ UNCHANGED sync /\ UNCHANGED listing
      /\ writer = NoWrite /\ <<name, h>> \notin recorded
      /\ recorded' = recorded \cup {<<name, h>>}
      /\ writer' = writer \/ writer' = <<name, h>>
  BY DEF ReadOwn, tables
<1>2. IndexTypeOK'
  BY <1>1, SameChain DEF IndexInv, IndexTypeOK
<1>3. SyncInv'
  BY <1>1, SameChain DEF IndexInv, SyncInv
<1>4. OwnInv'
  <2>1. ASSUME NEW g \in Hashes, OwnAt("CertificateRevoked", g, Len(chain))
        PROVE  /\ <<"CertificateIssued", g>> \in recorded'
               /\ writer' # <<"CertificateIssued", g>>
    <3>1. <<"CertificateIssued", g>> \in recorded /\ writer # <<"CertificateIssued", g>>
      BY <2>1 DEF IndexInv, OwnInv
    <3> QED BY <1>1, <3>1
  <2>2. ASSUME writer' # NoWrite
        PROVE  \E i \in DOMAIN chain :
                   /\ i <= highest - Confirmations + 1 /\ chain[i].own
                   /\ chain[i].name = writer'[1] /\ chain[i].hash = writer'[2]
    <3>1. OwnAt(name, h, Len(chain) - Confirmations + 1) /\ writer' = <<name, h>>
      BY <1>1, <2>2 DEF ReadOwn
    <3>2. PICK i \in 1 .. Len(chain) - Confirmations + 1 :
              chain[i].name = name /\ chain[i].hash = h /\ chain[i].own
      BY <3>1 DEF OwnAt
    <3>3. /\ Len(chain) \in Nat /\ DOMAIN chain = 1 .. Len(chain)
          /\ highest \in Nat /\ Len(chain) <= highest
      BY ChainTyped DEF IndexInv, ChainInv, IndexTypeOK
    <3>4. i \in DOMAIN chain /\ i <= highest - Confirmations + 1
      BY <3>3, Numbers
    <3> QED BY <3>1, <3>2, <3>4
  <2> QED BY <1>1, <2>1, <2>2, SameChain DEF OwnInv, OwnAt
<1>5. BelowInv'
  BY <1>1, BelowKept
<1>6. CoverInv'
  BY <1>1, CoverKept DEF Processed
<1>7. FreshInv'
  BY <1>1, SameChain DEF IndexInv, FreshInv, getConfirmedHead
<1> QED BY <1>1, <1>2, <1>3, <1>4, <1>5, <1>6, <1>7, SameChain DEF IndexInv

\* An own write is recorded over what a synchronization has indexed meanwhile.
LEMMA RecordOwnInv == ASSUME IndexInv, RecordOwn PROVE IndexInv'
<1>1. /\ UNCHANGED network /\ UNCHANGED <<checkpoint, ready, sync, recorded, listing>>
      /\ writer # NoWrite /\ writer' = NoWrite
      /\ index' = apply(index, [name |-> writer[1], hash |-> writer[2]])
  BY DEF RecordOwn
<1>2. PICK name \in Names, h \in Hashes : writer = <<name, h>>
  BY <1>1 DEF IndexInv, IndexTypeOK
<1>3. index \in Records
  BY DEF IndexInv, IndexTypeOK, Records
<1>4. /\ index' \in Records
      /\ \A g \in Hashes :
            index'[g] = IF g # h THEN index[g]
                        ELSE IF name = "CertificateIssued" THEN "ACTIVE"
                        ELSE IF index[h] = "NOT_FOUND" THEN "NOT_FOUND" ELSE "REVOKED"
  <2> DEFINE block == [name |-> name, hash |-> h]
  <2>1. block.name = name /\ block.hash = h /\ index' = apply(index, block)
    BY <1>1, <1>2
  <2> HIDE DEF block
  <2> QED BY <1>2, <1>3, <2>1, ApplyCases
<1>5. IndexTypeOK'
  BY <1>1, <1>4, SameChain DEF IndexInv, IndexTypeOK, Records
<1>6. SyncInv'
  BY <1>1, SameChain DEF IndexInv, SyncInv
<1>7. OwnInv'
  BY <1>1, SameChain DEF IndexInv, OwnInv, OwnAt, NoWrite
<1>8. ASSUME shallow
      PROVE  \E i \in DOMAIN chain : /\ i <= highest - Confirmations + 1 /\ chain[i].own
                                     /\ chain[i].name = name /\ chain[i].hash = h
  BY <1>1, <1>2, <1>8 DEF IndexInv, OwnInv
<1>9. BelowInv'
  <2> SUFFICES ASSUME shallow, NEW g \in Hashes
               PROVE  /\ index'[g] # "NOT_FOUND" => Settled("CertificateIssued", g)
                      /\ index'[g] = "REVOKED" => Settled("CertificateRevoked", g)
    BY <1>1, SameChain DEF BelowInv
  <2>1. Settled(name, h)
    BY <1>8 DEF Settled
  <2> QED BY <1>2, <1>4, <2>1 DEF IndexInv, BelowInv, Names
<1>10. CoverInv'
  <2> SUFFICES ASSUME shallow, NEW i \in DOMAIN chain, NEW g \in Hashes, Processed(i),
                      chain[i].name \in Names, chain[i].hash = g
               PROVE  /\ index'[g] # "NOT_FOUND"
                      /\ chain[i].name = "CertificateRevoked" =>
                             index'[g] = "REVOKED" \/ RevokedBehindOurBack(g)
    BY <1>1, SameChain DEF CoverInv, Processed
  <2>1. /\ index[g] # "NOT_FOUND"
        /\ chain[i].name = "CertificateRevoked" =>
               index[g] = "REVOKED" \/ RevokedBehindOurBack(g)
    BY DEF IndexInv, CoverInv
  <2>2. ASSUME name = "CertificateIssued", g = h, chain[i].name = "CertificateRevoked"
        PROVE  RevokedBehindOurBack(g)
    <3>1. OwnAt("CertificateIssued", g, Len(chain))
      BY <1>8, <2>2, ChainTyped DEF OwnAt, IndexInv
    <3>2. Logged("CertificateRevoked", g, Len(chain))
      BY <2>2, ChainTyped DEF Logged, IndexInv
    <3>3. ~OwnAt("CertificateRevoked", g, Len(chain))
      BY <1>2, <2>2 DEF IndexInv, OwnInv
    <3> QED BY <3>1, <3>2, <3>3 DEF RevokedBehindOurBack
  <2> QED BY <1>2, <1>4, <2>1, <2>2 DEF Names
<1>11. FreshInv'
  BY <1>1, SameChain DEF IndexInv, FreshInv, getConfirmedHead
<1> QED BY <1>1, <1>5, <1>6, <1>7, <1>9, <1>10, <1>11, SameChain DEF IndexInv

\* The blocks of one getLogs, numbered from 1.
LEMMA ChunkFacts ==
    ASSUME IndexInv, NEW from \in Nat, from >= 1, NEW to \in Nat, to <= Len(chain)
    PROVE  LET s == SubSeq(chain, from, to) IN
           /\ s \in Seq(Blocks) /\ Len(s) \in Nat
           /\ \A i \in 1 .. Len(s) :
                  s[i] = chain[from - 1 + i] /\ from - 1 + i \in DOMAIN chain
                  /\ from - 1 + i \in from .. to
           /\ \A j \in from .. to :
                  j - from + 1 \in 1 .. Len(s) /\ s[j - from + 1] = chain[j]
<1> DEFINE s == SubSeq(chain, from, to)
<1>1. chain \in Seq(Blocks) /\ Len(chain) \in Nat
  BY ChainTyped DEF IndexInv
<1>2. Len(s) = IF from <= to THEN to - from + 1 ELSE 0
  BY <1>1
<1>3. s \in Seq(Blocks)
  BY <1>1
<1>4. \A i \in 1 .. Len(s) : s[i] = chain[from - 1 + i]
  BY <1>1, <1>2
<1> HIDE DEF s
<1>5. \A i \in 1 .. Len(s) : from - 1 + i \in DOMAIN chain /\ from - 1 + i \in from .. to
  BY <1>1, <1>2
<1>6. \A j \in from .. to : j - from + 1 \in 1 .. Len(s) /\ from - 1 + (j - from + 1) = j
  BY <1>1, <1>2
<1>7. \A j \in from .. to : s[j - from + 1] = chain[j]
  BY <1>4, <1>6
<1> QED BY <1>2, <1>3, <1>4, <1>5, <1>6, <1>7 DEF s

LEMMA FetchInv == ASSUME IndexInv, Fetch PROVE IndexInv'
<1> DEFINE last == sync.next + EventChunkSize - 1
           chunkTo == IF last < sync.safeHead THEN last ELSE sync.safeHead
           to == IF chunkTo < Len(chain) THEN chunkTo ELSE Len(chain)
           s == SubSeq(chain, sync.next, to)
<1>1. /\ UNCHANGED network /\ UNCHANGED own
      /\ UNCHANGED <<checkpoint, ready, listing>> /\ sync.step = "fetching"
      /\ index' = FoldLeft(apply, index, s)
      /\ sync' = [sync EXCEPT !.next = chunkTo + 1,
                      !.step = IF chunkTo = sync.safeHead THEN "closing" ELSE "fetching"]
  BY DEF Fetch
<1>2. /\ sync.next \in Nat /\ sync.next >= 1 /\ sync.safeHead \in Nat /\ highest \in Nat
      /\ checkpoint.block \in Nat /\ checkpoint.block < sync.next
      /\ sync.next <= sync.safeHead /\ sync.safeHead + Confirmations <= highest
  BY <1>1 DEF IndexInv, IndexTypeOK, SyncInv
<1>3. Len(chain) \in Nat /\ DOMAIN chain = 1 .. Len(chain)
  BY ChainTyped DEF IndexInv
<1>4. /\ chunkTo \in Nat /\ sync.next <= chunkTo /\ chunkTo <= sync.safeHead
      /\ to \in Nat /\ to <= Len(chain) /\ to <= chunkTo
  BY <1>2, <1>3, Numbers
<1>5. ASSUME shallow PROVE to = chunkTo
  BY <1>2, <1>3, <1>4, <1>5, Numbers DEF IndexInv, ChainInv
<1> HIDE DEF last, chunkTo, to, s
<1>6. /\ s \in Seq(Blocks) /\ Len(s) \in Nat
      /\ \A i \in 1 .. Len(s) :
             s[i] = chain[sync.next - 1 + i] /\ sync.next - 1 + i \in DOMAIN chain
             /\ sync.next - 1 + i \in sync.next .. to
      /\ \A j \in sync.next .. to :
             j - sync.next + 1 \in 1 .. Len(s) /\ s[j - sync.next + 1] = chain[j]
  BY <1>2, <1>4, ChunkFacts DEF s
<1>7. Replayed(index, s, Len(s), index')
  <2>1. \A i \in 1 .. Len(s) : s[i].name \in Names => s[i].hash \in Hashes
    BY <1>6 DEF IndexInv, ChainInv
  <2>2. index \in Records
    BY DEF IndexInv, IndexTypeOK, Records
  <2> QED BY <1>1, <1>6, <2>1, <2>2, FoldReplays
<1>8. \A name : \A h \in Hashes : Holds(s, name, h, 1, Len(s)) <=>
          \E j \in sync.next .. to : chain[j].name = name /\ chain[j].hash = h
  BY <1>6 DEF Holds
<1>9. IndexTypeOK'
  <2>1. sync' \in [step : {"idle", "comparing", "fetching", "closing"},
                   safeHead : Nat, next : Nat]
    <3>1. chunkTo + 1 \in Nat
      BY <1>4
    <3> QED BY <1>1, <3>1 DEF IndexInv, IndexTypeOK
  <2>2. index' \in [Hashes -> Status]
    BY <1>7 DEF Replayed, Records
  <2> QED BY <1>1, <2>1, <2>2, SameChain DEF IndexInv, IndexTypeOK, own
<1>10. sync'.next = chunkTo + 1 /\ sync'.safeHead = sync.safeHead
       /\ sync'.step = IF chunkTo = sync.safeHead THEN "closing" ELSE "fetching"
  BY <1>1 DEF IndexInv, IndexTypeOK
<1>11. SyncInv'
  BY <1>1, <1>2, <1>4, <1>10, SameChain DEF SyncInv
<1>12. BelowInv'
  <2> SUFFICES ASSUME shallow, NEW h \in Hashes
               PROVE  /\ index'[h] # "NOT_FOUND" => Settled("CertificateIssued", h)
                      /\ index'[h] = "REVOKED" => Settled("CertificateRevoked", h)
    BY <1>1, SameChain DEF BelowInv
  <2>1. /\ index[h] # "NOT_FOUND" => Settled("CertificateIssued", h)
        /\ index[h] = "REVOKED" => Settled("CertificateRevoked", h)
    BY DEF IndexInv, BelowInv
  <2>2. \A name : Holds(s, name, h, 1, Len(s)) => Settled(name, h)
    <3> SUFFICES ASSUME NEW name, NEW j \in sync.next .. to,
                        chain[j].name = name, chain[j].hash = h
                 PROVE  Settled(name, h)
      BY <1>8
    <3>1. j \in DOMAIN chain /\ j <= highest - Confirmations + 1
      BY <1>2, <1>3, <1>4, Numbers
    <3> QED BY <3>1 DEF Settled
  <2> QED BY <1>7, <2>1, <2>2 DEF Replayed
<1>13. CoverInv'
  <2> SUFFICES ASSUME shallow, NEW i \in DOMAIN chain, NEW g \in Hashes, Processed(i)',
                      chain[i].name \in Names, chain[i].hash = g
               PROVE  /\ index'[g] # "NOT_FOUND"
                      /\ chain[i].name = "CertificateRevoked" =>
                             index'[g] = "REVOKED" \/ RevokedBehindOurBack(g)
    BY <1>1, SameChain DEF CoverInv
  <2>1. i < sync.next \/ i \in sync.next .. to
    BY <1>1, <1>2, <1>3, <1>4, <1>5, <1>10 DEF Processed
  <2>2. ASSUME NEW k \in DOMAIN chain, k < sync.next, chain[k].name \in Names,
               chain[k].hash = g
        PROVE  /\ index[g] # "NOT_FOUND"
               /\ chain[k].name = "CertificateRevoked" =>
                      index[g] = "REVOKED" \/ RevokedBehindOurBack(g)
    <3>1. Processed(k)
      BY <1>1, <2>2 DEF Processed
    <3> QED BY <2>2, <3>1 DEF IndexInv, CoverInv
  <2>3. CASE chain[i].name = "CertificateIssued"
    <3>1. index[g] # "NOT_FOUND" \/ Holds(s, "CertificateIssued", g, 1, Len(s))
      BY <1>8, <2>1, <2>2, <2>3
    <3> QED BY <1>7, <2>3, <3>1 DEF Replayed
  <2>4. CASE chain[i].name = "CertificateRevoked"
    <3>1. PICK j \in 1 .. i - 1 : chain[j].name = "CertificateIssued" /\ chain[j].hash = g
      BY <2>4 DEF IndexInv, ChainInv
    <3>2. j \in DOMAIN chain /\ j < i
      BY <1>3, <3>1
    <3>3. \A k \in DOMAIN chain :
              chain[k].name = "CertificateIssued" /\ chain[k].hash = g => k = j
      BY <3>1, <3>2 DEF IndexInv, ChainInv, Names
    <3>4. index[g] # "NOT_FOUND" \/ Holds(s, "CertificateIssued", g, 1, Len(s))
      <4>1. j < sync.next \/ j \in sync.next .. to
        BY <1>2, <1>3, <1>4, <2>1, <3>1
      <4> QED BY <1>8, <2>2, <3>1, <3>2, <4>1 DEF Names
    <3>5. CASE i < sync.next
      <4>1. index[g] = "REVOKED" \/ RevokedBehindOurBack(g)
        BY <2>2, <2>4, <3>5
      <4>2. ~Holds(s, "CertificateIssued", g, 1, Len(s))
        <5> SUFFICES ASSUME NEW k \in sync.next .. to,
                            chain[k].name = "CertificateIssued", chain[k].hash = g
                     PROVE  FALSE
          BY <1>8
        <5>1. k \in DOMAIN chain /\ k > i
          BY <1>2, <1>3, <1>4, <3>5
        <5> QED BY <1>3, <3>2, <3>3, <5>1
      <4> QED BY <1>7, <3>4, <4>1, <4>2 DEF Replayed
    <3>6. CASE i \in sync.next .. to
      <4> DEFINE p == i - sync.next + 1
      <4>1. p \in 1 .. Len(s) /\ s[p] = chain[i]
        BY <1>6, <3>6
      <4>2. index[g] # "NOT_FOUND" \/ Holds(s, "CertificateIssued", g, 1, p - 1)
        <5>1. CASE j < sync.next
          BY <2>2, <3>1, <3>2, <5>1 DEF Names
        <5>2. CASE j >= sync.next
          <6>1. j \in sync.next .. to
            BY <1>2, <1>4, <3>1, <3>6, <5>2
          <6>2. j - sync.next + 1 \in 1 .. p - 1 /\ s[j - sync.next + 1] = chain[j]
            BY <1>2, <1>6, <3>1, <3>6, <6>1
          <6> QED BY <3>1, <6>2 DEF Holds
        <5> QED BY <1>2, <3>1, <5>1, <5>2
      <4>3. ~Holds(s, "CertificateIssued", g, p + 1, Len(s))
        <5> SUFFICES ASSUME NEW q \in p + 1 .. Len(s),
                            s[q].name = "CertificateIssued", s[q].hash = g
                     PROVE  FALSE
          BY DEF Holds
        <5>1. q \in 1 .. Len(s) /\ q > p
          BY <1>6, <4>1
        <5>2. s[q] = chain[sync.next - 1 + q] /\ sync.next - 1 + q \in DOMAIN chain
          BY <1>6, <5>1
        <5>3. sync.next - 1 + q = j
          BY <3>3, <5>2
        <5> QED BY <1>2, <1>3, <3>2, <5>1, <5>3
      <4> HIDE DEF p
      <4>4. index'[g] = "REVOKED"
        BY <1>7, <2>4, <4>1, <4>2, <4>3 DEF Replayed
      <4> QED BY <4>4
    <3> QED BY <2>1, <3>5, <3>6
  <2> QED BY <2>3, <2>4 DEF Names
<1>14. FreshInv'
  BY <1>1, <1>10, SameChain DEF IndexInv, FreshInv, getConfirmedHead
<1> QED BY <1>1, <1>9, <1>11, <1>12, <1>13, <1>14, SameChain DEF IndexInv

-----------------------------------------------------------------------------
(* The theorems.                                                           *)

LEMMA NextIndexInv == IndexInv /\ [IndexNext]_vars => IndexInv'
<1> SUFFICES ASSUME IndexInv, [IndexNext]_vars PROVE IndexInv'
  OBVIOUS
<1>1. ASSUME NEW name \in Names \cup {"none"}, NEW h \in Hashes \cup {NoDocument},
             NEW isOwn \in BOOLEAN, name = "none" <=> h = NoDocument, Block(name, h, isOwn)
      PROVE  IndexInv'
  BY <1>1, BlockInv
<1>2. ASSUME NEW n \in 0 .. Len(chain) - 1, Reorganize(n) PROVE IndexInv'
  BY <1>2, ReorganizeInv
<1>3. CASE Start
  BY <1>3, StartInv
<1>4. CASE Compare
  BY <1>4, CompareInv
<1>5. CASE Fetch
  BY <1>5, FetchInv
<1>6. CASE Close
  BY <1>6, CloseInv
<1>7. CASE Fail
  BY <1>7, FailInv
<1>8. CASE refreshIndex
  BY <1>8, RefreshInv
<1>9. ASSUME NEW name \in Names, NEW h \in Hashes, ReadOwn(name, h) PROVE IndexInv'
  BY <1>9, ReadOwnInv
<1>10. CASE RecordOwn
  BY <1>10, RecordOwnInv
<1>11. CASE Restart
  BY <1>11, RestartInv
<1>12. CASE UNCHANGED vars
  <2>1. UNCHANGED network /\ UNCHANGED tables /\ UNCHANGED own
        /\ UNCHANGED sync /\ UNCHANGED listing
    BY <1>12 DEF vars
  <2>2. IndexTypeOK' /\ SyncInv' /\ FreshInv'
    BY <2>1, SameChain
       DEF IndexInv, IndexTypeOK, SyncInv, FreshInv, tables, own, getConfirmedHead
  <2>3. BelowInv' /\ CoverInv'
    BY <2>1, BelowKept, CoverKept DEF tables, Processed
  <2> QED BY <2>1, <2>2, <2>3, SameChain DEF IndexInv
<1> QED BY <1>1, <1>2, <1>3, <1>4, <1>5, <1>6, <1>7, <1>8, <1>9, <1>10, <1>11, <1>12
        DEF IndexNext, Synchronize

LEMMA IndexInvHolds == IndexSpec => []IndexInv
<1>1. IndexInit => IndexInv
  BY InitIndexInv
<1>2. IndexInv /\ [IndexNext]_vars => IndexInv'
  BY NextIndexInv
<1> QED BY <1>1, <1>2, PTL DEF IndexSpec

\* The chain, the index and the synchronization are typed, and nothing is processed
\* before it is confirmed: the checkpoint stays Confirmations blocks below the highest
\* block there has been (lastProcessedBlock of certificateIndex.js).
THEOREM IndexTypeCorrect == IndexSpec => []IndexTypeOK
<1>1. IndexInv => IndexTypeOK
  BY DEF IndexInv
<1> QED BY <1>1, IndexInvHolds, PTL

\* No certificate is listed that the chain does not hold, nor as revoked that it does
\* not hold revoked, unless a reorganization took back Confirmations blocks or more:
\* neither a chunk replayed after a failure nor an own write recorded late adds one.
THEOREM ListedOnChain == IndexSpec => []ListedUnlessDeep
<1>1. ASSUME IndexInv PROVE ListedUnlessDeep
  <2> SUFFICES ASSUME shallow, NEW h \in Hashes
               PROVE  Rank(index[h]) <= Rank(StatusAt(h, Len(chain)))
    BY DEF ListedUnlessDeep, ListedIsOnChain
  <2>1. index[h] \in Status
    BY <1>1 DEF IndexInv, IndexTypeOK
  <2>2. \A name : Settled(name, h) => Logged(name, h, Len(chain))
    BY <1>1, ChainTyped DEF Settled, Logged, IndexInv
  <2>3. /\ index[h] # "NOT_FOUND" => Logged("CertificateIssued", h, Len(chain))
        /\ index[h] = "REVOKED" => Logged("CertificateRevoked", h, Len(chain))
    BY <1>1, <2>2 DEF IndexInv, BelowInv
  <2> QED BY <2>1, <2>3 DEF Rank, StatusAt, Status
<1> QED BY <1>1, IndexInvHolds, PTL

\* What the index covers, as StatusAt tells it: up to a block whose events have all
\* been applied, no record is missing or has fallen back.
Covered ==
    IndexInv /\ shallow => \A n \in Nat, h \in Hashes :
        (\A i \in 1 .. n : Processed(i)) =>
            LET status == StatusAt(h, n) IN
            \/ RevokedBehindOurBack(h)
            \/ status = "NOT_FOUND" \/ index[h] = "REVOKED"
            \/ status = "ACTIVE" /\ index[h] = "ACTIVE"

LEMMA CoveredStatus == Covered
<1> SUFFICES ASSUME IndexInv, shallow, NEW n \in Nat, NEW h \in Hashes,
                    \A i \in 1 .. n : Processed(i)
             PROVE  LET status == StatusAt(h, n) IN
                    \/ RevokedBehindOurBack(h)
                    \/ status = "NOT_FOUND" \/ index[h] = "REVOKED"
                    \/ status = "ACTIVE" /\ index[h] = "ACTIVE"
  BY DEF Covered
<1>1. /\ checkpoint.block \in Nat /\ sync.next \in Nat /\ sync.safeHead \in Nat
      /\ highest \in Nat /\ index[h] \in Status
  BY DEF IndexInv, IndexTypeOK
<1>2. ASSUME NEW i \in 1 .. n PROVE i \in DOMAIN chain
  <2>1. Processed(i)
    OBVIOUS
  <2>2. i <= highest - Confirmations
    <3>1. CASE i <= checkpoint.block
      BY <1>1, <3>1, Numbers DEF IndexInv, IndexTypeOK, NoCheckpoint, NULL
    <3>2. CASE sync.step \in {"fetching", "closing"} /\ i < sync.next
      <4>1. i <= sync.safeHead
        BY <1>1, <3>2 DEF IndexInv, SyncInv
      <4> QED BY <1>1, <4>1, Numbers DEF IndexInv, SyncInv
    <3> QED BY <2>1, <3>1, <3>2 DEF Processed
  <2> QED BY <1>1, <2>2, ChainTyped, Numbers DEF IndexInv, ChainInv
<1>3. \A i \in 1 .. n :
          chain[i].name \in Names /\ chain[i].hash = h =>
              /\ index[h] # "NOT_FOUND"
              /\ chain[i].name = "CertificateRevoked" =>
                     index[h] = "REVOKED" \/ RevokedBehindOurBack(h)
  BY <1>2 DEF IndexInv, CoverInv
<1>4. Logged("CertificateRevoked", h, n) =>
          index[h] = "REVOKED" \/ RevokedBehindOurBack(h)
  BY <1>3 DEF Logged, Names
<1>5. Logged("CertificateIssued", h, n) => index[h] # "NOT_FOUND"
  BY <1>3 DEF Logged, Names
<1> QED BY <1>1, <1>4, <1>5 DEF StatusAt, Status

\* An index that is served has everything up to its checkpoint: no chunk, retry or
\* rebuild leaves a hole, and no late own record hides a revocation that the gateway
\* could have known of, unless a reorganization was Confirmations blocks deep.
THEOREM ReadyIsComplete == IndexSpec => []ReadyCoversCheckpoint
<1>1. ASSUME IndexInv PROVE ReadyCoversCheckpoint
  <2> SUFFICES ASSUME shallow, ready, NEW h \in Hashes
               PROVE  \/ RevokedBehindOurBack(h)
                      \/ Rank(index[h]) >= Rank(StatusAt(h, checkpoint.block))
    BY DEF ReadyCoversCheckpoint
  <2>1. PICK n \in Nat : n = checkpoint.block
    BY <1>1 DEF IndexInv, IndexTypeOK
  <2>2. \A i \in 1 .. n : Processed(i)
    BY <2>1 DEF Processed
  <2>3. \/ RevokedBehindOurBack(h)
        \/ StatusAt(h, n) = "NOT_FOUND" \/ index[h] = "REVOKED"
        \/ StatusAt(h, n) = "ACTIVE" /\ index[h] = "ACTIVE"
    BY <1>1, <2>2, CoveredStatus DEF Covered
  <2>4. index[h] \in Status /\ StatusAt(h, n) \in Status
    BY <1>1 DEF IndexInv, IndexTypeOK, StatusAt, Status
  <2> QED BY <2>1, <2>3, <2>4 DEF Rank, Status
<1> QED BY <1>1, IndexInvHolds, PTL

\* A list that waited for a synchronization, its own or one it found under way, misses
\* nothing that was confirmed when it was asked for (refreshIndex, syncPromise), unless
\* a reorganization was Confirmations blocks deep.
THEOREM ListingServedFresh == IndexSpec => ListingIsFresh
<1> DEFINE Served == Synchronize /\ shallow /\ listing # NoListing /\ listing' = NoListing
           Fresh == \A h \in Hashes :
                        LET then == StatusAt(h, listing.since) IN
                        \/ then = "NOT_FOUND" \/ RevokedBehindOurBack(h)
                        \/ h \in queryCertificates(index', {then, "REVOKED"})
<1>0. Covered'
  BY CoveredStatus, PTL
<1>1. ASSUME IndexInv, IndexInv', Served PROVE Fresh
  <2>1. PICK since \in Nat : since = listing.since
    BY <1>1, ListingTyped DEF IndexInv
  <2>2. UNCHANGED network
    BY <1>1 DEF Synchronize, Start, Compare, Fetch, Close
  <2>3. since = 0 \/ since <= checkpoint'.block
    <3>1. CASE Start
      <4>1. PICK head : head = getConfirmedHead(Len(chain))
        OBVIOUS
      <4>2. head \in Nat /\ since <= head
        BY <1>1, <2>1, <4>1, HeadRead
      <4>3. sync'.step = "idle"
        BY <1>1, <3>1 DEF Start, queryIfDone
      <4>4. checkpoint.block \in Nat
        BY <1>1 DEF IndexInv, IndexTypeOK
      <4>5. \/ sync'.step # "idle" \/ ~(1 <= head)
            \/ checkpoint.block <= head /\ ~(checkpoint.block + 1 <= head)
               /\ UNCHANGED checkpoint
        BY <1>1, <3>1, <4>1, StartCases
      <4> QED BY <2>1, <4>2, <4>3, <4>4, <4>5
    <3>2. CASE Compare
      <4>1. sync'.step = "idle" /\ listing.step = "waiting"
        BY <1>1, <3>2 DEF Compare, queryIfDone
      <4>2. since <= sync.safeHead /\ sync.safeHead \in Nat /\ checkpoint.block \in Nat
        BY <1>1, <2>1, <3>2, <4>1 DEF Compare, IndexInv, FreshInv, IndexTypeOK
      <4> QED BY <3>2, <4>1, <4>2 DEF Compare, ProcessAfter, nextBlock, NULL, Clear
    <3>3. CASE Fetch
      BY <1>1, <3>3 DEF Fetch
    <3>4. CASE Close
      <4>1. listing.step = "waiting"
        BY <1>1, <3>4 DEF Close, queryIfDone
      <4> QED BY <1>1, <2>1, <3>4, <4>1 DEF Close, IndexInv, FreshInv
    <3> QED BY <1>1, <3>1, <3>2, <3>3, <3>4 DEF Synchronize
  <2>4. shallow'
    BY <1>1, <2>2 DEF network
  <2>5. \A i \in 1 .. since : Processed(i)'
    BY <1>1, <2>3 DEF Processed, IndexInv, IndexTypeOK
  <2>6. ASSUME NEW h \in Hashes
        PROVE  LET status == StatusAt(h, since)' IN
               \/ RevokedBehindOurBack(h)'
               \/ status = "NOT_FOUND" \/ index'[h] = "REVOKED"
               \/ status = "ACTIVE" /\ index'[h] = "ACTIVE"
    BY <1>1, <1>0, <2>4, <2>5 DEF Covered
  <2>7. \A h \in Hashes : /\ StatusAt(h, since)' = StatusAt(h, listing.since)
                          /\ RevokedBehindOurBack(h)' <=> RevokedBehindOurBack(h)
    BY <1>1, <2>1, <2>2, SameChain DEF StatusAt, Logged
  <2> QED BY <2>6, <2>7 DEF queryCertificates
<1>2. IndexInv /\ IndexInv' /\ [IndexNext]_vars => [Served => Fresh]_vars
  BY <1>1
<1>3. IndexSpec => [][Served => Fresh]_vars
  BY <1>2, IndexInvHolds, PTL DEF IndexSpec
<1> QED BY <1>3 DEF ListingIsFresh
=============================================================================
