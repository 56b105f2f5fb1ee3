-------------------------- MODULE Deployment_proofs --------------------------
(***************************************************************************)
(* Theorems about Deployment, for any number of contracts deployed from    *)
(* elsewhere and any nonces.  What a script under way holds in memory has  *)
(* to be as true as what it has written (Truthful, for both), since a      *)
(* later step or its catch block writes it; and a script that is about to  *)
(* broadcast has to know that nothing was broadcast before it              *)
(* (OnceInv), which the evidence shows from the moment it starts.          *)
(***************************************************************************)
EXTENDS Deployment, FiniteSetTheorems, WellFoundedInduction, TLAPS

TransactionRow == [nonce : Nat, outcome : {"pending", "created", "reverted", "replaced"}]

\* Finitely many transactions leave one of their number, plus one, of nonces free.
LEMMA SomeNonceIsFree ==
    ASSUME transactions \in Seq(TransactionRow), latestNonce \in Nat
    PROVE  \E n \in latestNonce .. latestNonce + Len(transactions) : ~isPending(n)
<1> DEFINE nonces == latestNonce .. latestNonce + Len(transactions)
           f == [n \in nonces |-> CHOOSE t \in DOMAIN transactions :
                     transactions[t].nonce = n /\ transactions[t].outcome = "pending"]
<1>1. Len(transactions) \in Nat /\ DOMAIN transactions = 1 .. Len(transactions)
  OBVIOUS
<1>2. /\ IsFiniteSet(nonces) /\ Cardinality(nonces) = Len(transactions) + 1
      /\ IsFiniteSet(1 .. Len(transactions))
      /\ Cardinality(1 .. Len(transactions)) = Len(transactions)
  <2>1. 1 \in Int /\ latestNonce \in Int /\ Len(transactions) \in Int
        /\ latestNonce + Len(transactions) \in Int
    BY <1>1
  <2>2. IsFiniteSet(nonces) /\ Cardinality(nonces) =
            IF latestNonce > latestNonce + Len(transactions) THEN 0
            ELSE (latestNonce + Len(transactions)) - latestNonce + 1
    BY <2>1, FS_Interval
  <2>3. IsFiniteSet(1 .. Len(transactions)) /\ Cardinality(1 .. Len(transactions)) =
            IF 1 > Len(transactions) THEN 0 ELSE Len(transactions) - 1 + 1
    BY <2>1, FS_Interval
  <2> QED BY <1>1, <2>2, <2>3
<1> SUFFICES ASSUME \A n \in nonces : isPending(n) PROVE FALSE
  OBVIOUS
<1>3. \A n \in nonces : f[n] \in DOMAIN transactions /\ transactions[f[n]].nonce = n
  BY DEF isPending
<1>4. f \in [nonces -> 1 .. Len(transactions)]
  BY <1>1, <1>3
<1>5. PICK m, n \in nonces : m # n /\ f[m] = f[n]
  <2>1. Cardinality(1 .. Len(transactions)) < Cardinality(nonces)
    BY <1>1, <1>2
  <2> HIDE DEF nonces, f
  <2> QED BY <1>2, <1>4, <2>1, FS_PigeonHole
<1> QED BY <1>3, <1>5

\* getNonce("pending") is therefore a nonce.
LEMMA PendingNonceType ==
    ASSUME transactions \in Seq(TransactionRow), latestNonce \in Nat
    PROVE  pendingNonce \in Nat
<1> DEFINE nonces == latestNonce .. latestNonce + Len(transactions)
           free == {n \in nonces : ~isPending(n)}
<1>1. nonces \subseteq Nat
  OBVIOUS
<1>2. free # {} /\ free \subseteq Nat
  BY <1>1, SomeNonceIsFree
<1>3. PICK n \in free : \A m \in free : <<m, n>> \notin OpToRel(<, Nat)
  BY <1>2, NatLessThanWellFounded, WFMin
<1>4. \A m \in latestNonce .. n - 1 : isPending(m)
  <2>1. SUFFICES ASSUME NEW m \in latestNonce .. n - 1, ~isPending(m) PROVE FALSE
    OBVIOUS
  <2>2. m \in free /\ m < n /\ m \in Nat /\ n \in Nat
    BY <1>2, <2>1
  <2>3. <<m, n>> \in OpToRel(<, Nat)
    BY <2>2 DEF OpToRel
  <2> QED BY <1>3, <2>2, <2>3
<1>5. pendingNonce \in nonces
  BY <1>3, <1>4 DEF pendingNonce
<1> QED BY <1>1, <1>5

-----------------------------------------------------------------------------
(* Types. *)

\* What a step does to the transactions and leaves of them.
Settled ==
    \A t \in DOMAIN transactions :
        /\ t \in DOMAIN transactions'
        /\ transactions[t].outcome # "pending" => transactions'[t].outcome = transactions[t].outcome

\* A script under way is well formed, beyond its type: what it has in memory and what
\* it has written agree on the transaction.
ProcessInv ==
    /\ process.override => overridden
    /\ process.step # "none" =>
           /\ process.script # "none"
           /\ process.state.operation # "none" /\ evidence.operation # "none"
           /\ evidence.transaction \in {NULL, process.state.transaction}
    /\ process.step = "prepared" => process.script = "deploy" /\ process.state.nonce \in Nat
    /\ process.script = "deploy" /\ process.step \in {"started", "prepared"} =>
           process.state.transaction = NULL
    /\ process.step \in {"submitted", "waiting"} => process.state.transaction # NULL
    /\ process.step = "ready" => process.state.status = "READY"

\* The network: transactions are added, or their outcome decided.
LEMMA NetworkStep ==
    ASSUME DeploymentTypeOK, ProcessInv, [DeploymentNext]_vars
    PROVE  /\ transactions' \in Seq(TransactionRow) /\ latestNonce' \in Nat
           /\ Settled
           /\ Len(transactions') # Len(transactions)
                  => /\ Broadcast /\ Len(transactions') = Len(transactions) + 1
<1>1. transactions \in Seq(TransactionRow) /\ latestNonce \in Nat
  BY DEF DeploymentTypeOK, TransactionRow
<1>2. CASE Broadcast
  <2>1. process.state.nonce \in Nat
    BY <1>2 DEF Broadcast, At, ProcessInv
  <2>2. [nonce |-> process.state.nonce, outcome |-> "pending"] \in TransactionRow
    BY <2>1 DEF TransactionRow
  <2> QED BY <1>1, <1>2, <2>2 DEF Broadcast, Settled
<1>3. CASE Mine
  <2>1. latestNonce' = latestNonce + 1
    BY <1>3 DEF Mine
  <2>2. /\ transactions' \in Seq(TransactionRow)
        /\ Len(transactions') = Len(transactions) /\ Settled
    <3>1. DOMAIN transactions = 1 .. Len(transactions) /\ Len(transactions) \in Nat
          /\ \A t \in DOMAIN transactions : transactions[t] \in TransactionRow
      BY <1>1
    <3>2. /\ DOMAIN transactions' = DOMAIN transactions
          /\ \A t \in DOMAIN transactions :
                 \E outcome \in {"pending", "created", "reverted", "replaced"} :
                     /\ transactions'[t] = [transactions[t] EXCEPT !.outcome = outcome]
                     /\ transactions[t].outcome # "pending" => outcome = transactions[t].outcome
      <4> DEFINE taken(t) == transactions[t].nonce = latestNonce /\ transactions[t].outcome = "pending"
                 after(s) == [t \in DOMAIN transactions |->
                                 IF t = s THEN transactions[t].outcome
                                 ELSE IF taken(t) THEN "replaced" ELSE transactions[t].outcome]
      <4>1. \A t \in DOMAIN transactions :
                transactions[t].outcome \in {"pending", "created", "reverted", "replaced"}
        BY <3>1 DEF TransactionRow
      <4>2. \A s : \A t \in DOMAIN transactions :
                /\ after(s)[t] \in {"pending", "created", "reverted", "replaced"}
                /\ transactions[t].outcome # "pending" => after(s)[t] = transactions[t].outcome
        BY <4>1
      <4>3. CASE \E s \in DOMAIN transactions, outcome \in {"created", "reverted"} :
                     /\ taken(s)
                     /\ transactions' = [t \in DOMAIN transactions |->
                            [transactions[t] EXCEPT !.outcome = IF t = s THEN outcome
                                                                ELSE after(s)[t]]]
        <5>1. PICK s \in DOMAIN transactions, outcome \in {"created", "reverted"} :
                  /\ taken(s)
                  /\ transactions' = [t \in DOMAIN transactions |->
                         [transactions[t] EXCEPT !.outcome = IF t = s THEN outcome
                                                             ELSE after(s)[t]]]
          BY <4>3
        <5> HIDE DEF after
        <5>2. ASSUME NEW t \in DOMAIN transactions
              PROVE  LET o == IF t = s THEN outcome ELSE after(s)[t] IN
                     /\ transactions'[t] = [transactions[t] EXCEPT !.outcome = o]
                     /\ o \in {"pending", "created", "reverted", "replaced"}
                     /\ transactions[t].outcome # "pending" => o = transactions[t].outcome
          BY <4>2, <5>1, <5>2
        <5> QED BY <5>1, <5>2
      <4>4. CASE transactions' = [t \in DOMAIN transactions |->
                     [transactions[t] EXCEPT !.outcome = after(NULL)[t]]]
        <5> HIDE DEF after
        <5> QED BY <4>2, <4>4
      <4>5. \/ \E s \in DOMAIN transactions, outcome \in {"created", "reverted"} :
                   /\ taken(s)
                   /\ transactions' = [t \in DOMAIN transactions |->
                          [transactions[t] EXCEPT !.outcome = IF t = s THEN outcome
                                                              ELSE after(s)[t]]]
            \/ transactions' = [t \in DOMAIN transactions |->
                   [transactions[t] EXCEPT !.outcome = after(NULL)[t]]]
        BY <1>3, Zenon DEF Mine
      <4> QED BY <4>3, <4>4, <4>5
    <3>3. \A t \in DOMAIN transactions :
              /\ transactions'[t] \in TransactionRow
              /\ transactions[t].outcome # "pending"
                     => transactions'[t].outcome = transactions[t].outcome
      BY <3>1, <3>2 DEF TransactionRow
    <3>4. transactions' = [t \in 1 .. Len(transactions) |-> transactions'[t]]
      BY <1>3, <3>1, <3>2 DEF Mine
    <3> QED BY <3>1, <3>2, <3>3, <3>4 DEF Settled
  <2> QED BY <1>1, <1>3, <2>1, <2>2
<1>4. CASE UNCHANGED network
  BY <1>1, <1>4 DEF network, Settled
<1>5. Broadcast \/ Mine \/ UNCHANGED network
  BY DEF DeploymentNext, Proceed, vars, Deploy, Import, Begin, Resume, Prepare, Record, Confirm,
         Verify, WriteRuntime, Finalize, Block, Fail, Validate, Crash, StartGateway,
         StartAppBackend, Stop, network
<1> QED BY <1>2, <1>3, <1>4, <1>5

Steps == {"none", "started", "prepared", "submitted", "waiting", "ready", "verifying"}
Scripts == {"none", "deploy", "resume", "import"}

\* The type of a state in memory or in the file, over so many transactions.
StateType(state) ==
    state \in Evidence /\ state.transaction \in Transactions /\ state.contract \in Transactions

LEMMA EvidenceFields ==
    ASSUME NEW state \in Evidence
    PROVE  /\ state.operation \in {"none", "DEPLOY_CONTRACT", "IMPORT_EXISTING"}
           /\ state.status \in Statuses /\ state.nonce \in Nat \cup {NoNonce}
           /\ \A status \in Statuses : [state EXCEPT !.status = status] \in Evidence
           /\ \A n \in Nat : [state EXCEPT !.nonce = n] \in Evidence
           /\ \A t \in Nat : [state EXCEPT !.transaction = t] \in Evidence
           /\ \A t \in Nat : [state EXCEPT !.contract = t] \in Evidence
           /\ \A v \in {"none", "PENDING", "SKIPPED", "VERIFIED", "FAILED", "UNKNOWN"} :
                  [state EXCEPT !.verification = v] \in Evidence
BY DEF Evidence

\* The catch blocks change nothing but the status, and never to READY or to
\* DEPLOYMENT_FAILED.
LEMMA FailedState ==
    ASSUME NEW state \in Evidence
    PROVE  \E status \in Statuses :
               /\ failed(state) = [state EXCEPT !.status = status]
               /\ status \in {"READY", "DEPLOYMENT_FAILED"} => status = state.status
BY EvidenceFields DEF failed, Statuses

\* The files and the script, as a step of a script changes them.
LEMMA ScriptTypes ==
    ASSUME DeploymentTypeOK, ProcessInv, [DeploymentNext]_vars
    PROVE  /\ StateType(evidence)' /\ StateType(process.state)'
           /\ process'.script \in Scripts /\ process'.step \in Steps
           /\ process'.override \in BOOLEAN
           /\ process' = [script |-> process'.script, step |-> process'.step,
                          state |-> process'.state, override |-> process'.override]
<1> DEFINE Goal == /\ StateType(evidence)' /\ StateType(process.state)'
                   /\ process'.script \in Scripts /\ process'.step \in Steps
                   /\ process'.override \in BOOLEAN
                   /\ process' = [script |-> process'.script, step |-> process'.step,
                                  state |-> process'.state, override |-> process'.override]
<1>1. /\ StateType(evidence) /\ StateType(process.state)
      /\ process.script \in Scripts /\ process.step \in Steps /\ process.override \in BOOLEAN
      /\ process = [script |-> process.script, step |-> process.step,
                    state |-> process.state, override |-> process.override]
  BY DEF DeploymentTypeOK, StateType, Scripts, Steps
<1>2. Transactions \subseteq Transactions' /\ NULL \in Transactions /\ Transactions \subseteq Nat
  <2>1. DOMAIN transactions \subseteq Nat
    BY DEF DeploymentTypeOK
  <2> QED BY <2>1, NetworkStep DEF Transactions, Settled, NULL
<1>3. NoEvidence \in Evidence /\ StateType(NoEvidence) /\ StateType(NoProcess.state)
  BY <1>2 DEF NoEvidence, NoProcess, Evidence, Statuses, StateType, NULL
<1>4. ASSUME NEW override \in BOOLEAN, Deploy(override) PROVE Goal
  BY <1>1, <1>2, <1>3, <1>4 DEF Deploy, Begin, StateType, NoEvidence, Evidence, Statuses, Scripts, Steps
<1>5. ASSUME NEW override \in BOOLEAN, Import(override) PROVE Goal
  BY <1>1, <1>2, <1>3, <1>5 DEF Import, Begin, StateType, NoEvidence, Evidence, Statuses, Scripts, Steps
<1>6. CASE Resume
  BY <1>1, <1>2, <1>6 DEF Resume, files, StateType, Scripts, Steps
<1>7. CASE Prepare
  <2>1. pendingNonce \in Nat
    BY PendingNonceType DEF DeploymentTypeOK, TransactionRow
  <2> QED BY <1>1, <1>2, <1>7, <2>1 DEF Prepare, Save, StateType, Evidence, Statuses, Steps
<1>8. CASE Broadcast
  <2>1. Len(transactions) + 1 \in Transactions' \cap Nat
    BY <1>8 DEF Broadcast, Transactions, DeploymentTypeOK
  <2>2. CASE process' = [process EXCEPT !.step = "submitted",
                             !.state.transaction = Len(transactions) + 1,
                             !.state.status = "DEPLOYMENT_SUBMITTED"] /\ UNCHANGED evidence
    BY <1>1, <1>2, <2>1, <2>2 DEF StateType, Evidence, Statuses, Steps
  <2>3. CASE SaveAndExit(failed(process.state))
    BY <1>1, <1>2, <1>3, <2>3, FailedState DEF SaveAndExit, StateType, Evidence, NoProcess, Scripts, Steps
  <2> QED BY <1>8, <2>2, <2>3 DEF Broadcast
<1>9. CASE Record
  BY <1>1, <1>2, <1>9 DEF Record, Save, StateType, Steps
<1>10. CASE Confirm
  <2>1. CASE isCreated(process.state.transaction) /\ Save(ready(process.state.transaction), "ready")
    BY <1>1, <1>2, <2>1 DEF Save, ready, StateType, Evidence, Statuses, Steps
  <2>2. CASE SaveAndExit([process.state EXCEPT !.status = "DEPLOYMENT_FAILED"])
    BY <1>1, <1>2, <1>3, <2>2 DEF SaveAndExit, StateType, Evidence, Statuses, NoProcess, Scripts, Steps
  <2> QED BY <1>10, <2>1, <2>2 DEF Confirm
<1>11. CASE Verify
  BY <1>1, <1>2, <1>3, <1>11 DEF Verify, StateType, Evidence, NoProcess, Scripts, Steps
<1>12. CASE WriteRuntime
  BY <1>1, <1>2, <1>3, <1>12 DEF WriteRuntime, StateType, NoProcess, Scripts, Steps
<1>13. CASE Finalize
  BY <1>1, <1>2, <1>13 DEF Finalize, Save, ready, StateType, Evidence, Statuses, Steps
<1>14. CASE Block
  <2>1. PICK outcome : SaveAndExit([process.state EXCEPT
                           !.status = assessment(process.state.transaction, outcome)])
    BY <1>14 DEF Block
  <2>2. assessment(process.state.transaction, outcome) \in Statuses
    BY DEF assessment, Statuses
  <2> QED BY <1>1, <1>2, <1>3, <2>1, <2>2 DEF SaveAndExit, StateType, Evidence, NoProcess, Scripts, Steps
<1>15. CASE Fail
  BY <1>1, <1>2, <1>3, <1>15, FailedState DEF Fail, SaveAndExit, StateType, Evidence, NoProcess, Scripts, Steps
<1>16. ASSUME NEW t \in DOMAIN transactions, Validate(t) PROVE Goal
  <2>1. t \in Transactions /\ t \in Nat
    BY <1>2 DEF Transactions
  <2> QED BY <1>1, <1>2, <1>16, <2>1 DEF Validate, Save, ready, StateType, Evidence, Statuses, Steps
<1>17. CASE Crash
  BY <1>1, <1>2, <1>3, <1>17 DEF Crash, files, StateType, NoProcess, Scripts, Steps
<1>18. CASE UNCHANGED <<files, process>>
  BY <1>1, <1>2, <1>18 DEF files, StateType
<1>19. CASE Mine \/ StartGateway \/ StartAppBackend \/ \E s \in Services : Stop(s)
  BY <1>18, <1>19 DEF Mine, StartGateway, StartAppBackend, Stop
<1> QED BY <1>4, <1>5, <1>6, <1>7, <1>8, <1>9, <1>10, <1>11, <1>12, <1>13, <1>14, <1>15, <1>16,
           <1>17, <1>18, <1>19 DEF DeploymentNext, Proceed, vars

LEMMA TypeInductive ==
    ASSUME DeploymentTypeOK, ProcessInv, [DeploymentNext]_vars
    PROVE  DeploymentTypeOK'
<1>1. Transactions \subseteq Transactions'
  BY NetworkStep DEF Transactions, Settled
<1>2. overridden' \in BOOLEAN
  BY DEF DeploymentTypeOK, DeploymentNext, Proceed, vars, Deploy, Import, Begin, Resume, Prepare,
         Broadcast, Record, Confirm, Verify, WriteRuntime, Finalize, Block, Fail, Validate, Crash,
         Mine, StartGateway, StartAppBackend, Stop
<1>3. runtime' \in Transactions'
  <2>1. CASE WriteRuntime
    BY <1>1, <2>1 DEF WriteRuntime, DeploymentTypeOK
  <2>2. CASE UNCHANGED runtime
    BY <1>1, <2>2 DEF DeploymentTypeOK
  <2> QED BY <2>1, <2>2 DEF DeploymentNext, Proceed, vars, files, Deploy, Import, Begin, Resume,
             Prepare, Broadcast, Record, Confirm, Verify, Finalize, Block, Fail, Validate, Crash,
             Mine, StartGateway, StartAppBackend, Stop
<1>4. running' \in [Services -> Transactions']
  <2>1. running \in [Services -> Transactions'] /\ runtime \in Transactions' /\ NULL \in Transactions'
    BY <1>1 DEF DeploymentTypeOK, Transactions
  <2>2. CASE StartGateway \/ StartAppBackend \/ \E s \in Services : Stop(s)
    BY <2>1, <2>2 DEF StartGateway, StartAppBackend, Stop, loadDeploymentRuntime, Services
  <2>3. CASE UNCHANGED running
    BY <2>1, <2>3
  <2> QED BY <2>2, <2>3 DEF DeploymentNext, Proceed, vars, Deploy, Import, Begin, Resume, Prepare,
             Broadcast, Record, Confirm, Verify, WriteRuntime, Finalize, Block, Fail, Validate,
             Crash, Mine
<1> QED BY <1>2, <1>3, <1>4, NetworkStep, ScriptTypes
        DEF DeploymentTypeOK, StateType, TransactionRow, Scripts, Steps

\* The states that deploy-contract.js and configure-existing.js begin with.
LEMMA FirstStates ==
    \A state : \/ state = [NoEvidence EXCEPT !.operation = "DEPLOY_CONTRACT",
                                             !.status = "STARTING", !.verification = "PENDING"]
               \/ state = [NoEvidence EXCEPT !.operation = "IMPORT_EXISTING",
                                             !.status = "VALIDATING"]
        => /\ state \in Evidence
           /\ state.operation # "none" /\ state.transaction = NULL
           /\ state.status \notin {"READY", "DEPLOYMENT_FAILED"}
<1> TAKE state
<1>1. CASE state = [NoEvidence EXCEPT !.operation = "DEPLOY_CONTRACT",
                                      !.status = "STARTING", !.verification = "PENDING"]
  <2>1. state = [operation |-> "DEPLOY_CONTRACT", status |-> "STARTING", nonce |-> NoNonce,
                 transaction |-> NULL, contract |-> NULL, verification |-> "PENDING"]
    BY <1>1 DEF NoEvidence
  <2> QED BY <2>1 DEF Evidence, Statuses, NULL
<1>2. CASE state = [NoEvidence EXCEPT !.operation = "IMPORT_EXISTING",
                                      !.status = "VALIDATING"]
  <2>1. state = [operation |-> "IMPORT_EXISTING", status |-> "VALIDATING", nonce |-> NoNonce,
                 transaction |-> NULL, contract |-> NULL, verification |-> "none"]
    BY <1>2 DEF NoEvidence
  <2> QED BY <2>1 DEF Evidence, Statuses, NULL
<1> QED BY <1>1, <1>2

LEMMA ProcessInductive ==
    ASSUME DeploymentTypeOK, ProcessInv, [DeploymentNext]_vars
    PROVE  ProcessInv'
<1>1. process.state \in Evidence /\ evidence \in Evidence /\ process.state.transaction \in Nat
      /\ process = [script |-> process.script, step |-> process.step,
                    state |-> process.state, override |-> process.override]
  BY DEF DeploymentTypeOK, Evidence
<1>2. CASE process' = NoProcess
  BY <1>2 DEF ProcessInv, NoProcess
<1>3. ASSUME NEW override \in BOOLEAN, Deploy(override) \/ Import(override) PROVE ProcessInv'
  <2>1. PICK script \in {"deploy", "import"}, state \in Evidence :
            /\ Begin(script, state, override)
            /\ state.operation # "none" /\ state.transaction = NULL
    BY <1>3, FirstStates DEF Deploy, Import
  <2>2. process'.override => overridden'
    BY <2>1 DEF Begin
  <2>3. /\ process'.script = script /\ process'.step = "started" /\ process'.state = state
        /\ evidence' = state
    BY <2>1 DEF Begin
  <2> QED BY <2>1, <2>2, <2>3 DEF ProcessInv
<1>4. CASE Resume
  BY <1>4 DEF Resume, files, ProcessInv, NoProcess
<1>5. CASE Prepare
  <2>1. pendingNonce \in Nat
    BY PendingNonceType DEF DeploymentTypeOK, TransactionRow
  <2> QED BY <1>1, <1>5, <2>1 DEF Prepare, At, Save, ProcessInv, Evidence
<1>6. CASE Broadcast
  <2>1. CASE process' = [process EXCEPT !.step = "submitted",
                             !.state.transaction = Len(transactions) + 1,
                             !.state.status = "DEPLOYMENT_SUBMITTED"] /\ UNCHANGED evidence
    <3>1. Len(transactions) + 1 # NULL
      BY DEF DeploymentTypeOK, NULL
    <3>2. evidence.transaction = NULL
      BY <1>6 DEF Broadcast, At, ProcessInv
    <3> QED BY <1>1, <1>6, <2>1, <3>1, <3>2 DEF Broadcast, At, ProcessInv, Evidence
  <2> QED BY <1>2, <1>6, <2>1 DEF Broadcast, SaveAndExit
<1>7. CASE Record
  BY <1>1, <1>7 DEF Record, At, Save, ProcessInv
<1>8. ASSUME NEW t \in Transactions, Save(ready(t), "ready"),
             process.script # "none", process.step # "none", UNCHANGED overridden
      PROVE  ProcessInv'
  BY <1>1, <1>8 DEF Save, ready, ProcessInv, Evidence
<1>9. CASE Confirm
  <2>1. process.state.transaction \in Transactions
    BY DEF DeploymentTypeOK
  <2> QED BY <1>2, <1>8, <1>9, <2>1 DEF Confirm, At, SaveAndExit
<1>10. CASE Finalize
  <2>1. process.state.transaction \in Transactions
    BY DEF DeploymentTypeOK
  <2> QED BY <1>8, <1>10, <2>1 DEF Finalize, At
<1>11. ASSUME NEW t \in DOMAIN transactions, Validate(t) PROVE ProcessInv'
  <2>1. t \in Nat
    BY <1>11 DEF DeploymentTypeOK
  <2> QED BY <1>1, <1>11, <2>1 DEF Validate, At, Save, ready, ProcessInv, Evidence
<1>12. CASE Verify \/ Block \/ Fail \/ Crash
  BY <1>2, <1>12 DEF Verify, Block, Fail, Crash, SaveAndExit
<1>13. CASE WriteRuntime
  BY <1>1, <1>2, <1>13 DEF WriteRuntime, ProcessInv
<1>14. CASE UNCHANGED <<evidence, process, overridden>>
  BY <1>14 DEF ProcessInv
<1>15. CASE Mine \/ StartGateway \/ StartAppBackend \/ \E s \in Services : Stop(s)
  BY <1>14, <1>15 DEF Mine, StartGateway, StartAppBackend, Stop, files
<1> QED BY <1>3, <1>4, <1>5, <1>6, <1>7, <1>9, <1>10, <1>11, <1>12, <1>13, <1>14, <1>15
        DEF DeploymentNext, Proceed, vars, files

LEMMA InitialTypes == DeploymentInit => DeploymentTypeOK /\ ProcessInv
<1> SUFFICES ASSUME DeploymentInit PROVE DeploymentTypeOK /\ ProcessInv
  OBVIOUS
<1>1. /\ transactions \in Seq([nonce : Nat,
                               outcome : {"pending", "created", "reverted", "replaced"}])
      /\ latestNonce \in Nat
  BY DeploymentAssumption DEF DeploymentInit
<1>2. NoEvidence \in Evidence /\ NULL \in Transactions /\ NoProcess.state = NoEvidence
      /\ NoEvidence.transaction = NULL /\ NoEvidence.contract = NULL
  BY DEF NoEvidence, NoProcess, Evidence, Statuses, Transactions, NULL
<1>3. DeploymentTypeOK
  BY <1>1, <1>2 DEF DeploymentInit, DeploymentTypeOK, NoProcess
<1> QED BY <1>3 DEF DeploymentInit, ProcessInv, NoProcess

\* The evidence, the runtime file, the script under way and the services have their
\* types for any number of contracts and nonces: DeploymentTypeOK.
THEOREM DeploymentTypeCorrect == DeploymentSpec => []DeploymentTypeOK
<1>1. DeploymentInit => DeploymentTypeOK /\ ProcessInv
  BY InitialTypes
<1>2. DeploymentTypeOK /\ ProcessInv /\ [DeploymentNext]_vars => (DeploymentTypeOK /\ ProcessInv)'
  BY TypeInductive, ProcessInductive
<1> QED BY <1>1, <1>2, PTL DEF DeploymentSpec

-----------------------------------------------------------------------------
(* One deployment. *)

\* Without an override, a script that may still broadcast is the first one, which shows
\* in the evidence from its start.
OnceInv ==
    ~overridden =>
        /\ Len(transactions) <= Existing + 1
        /\ evidence = NoEvidence => Len(transactions) <= Existing
        /\ process.script = "deploy" /\ process.step \in {"started", "prepared"} =>
               Len(transactions) <= Existing

LEMMA OnceInductive ==
    ASSUME DeploymentTypeOK, ProcessInv, OnceInv, [DeploymentNext]_vars
    PROVE  OnceInv'
<1>1. Len(transactions) \in Nat /\ Existing \in Nat
  BY DeploymentAssumption DEF DeploymentTypeOK
<1>2. NoEvidence.operation = "none"
  BY DEF NoEvidence
<1>3. process = [script |-> process.script, step |-> process.step,
                 state |-> process.state, override |-> process.override]
      /\ process.state \in Evidence /\ evidence \in Evidence
  BY DEF DeploymentTypeOK
<1>4. CASE Broadcast
  <2>1. Len(transactions') = Len(transactions) + 1
    BY <1>4 DEF Broadcast, DeploymentTypeOK
  <2>2. evidence' # NoEvidence /\ process'.step \notin {"started", "prepared"}
    <3>1. CASE process' = [process EXCEPT !.step = "submitted",
                               !.state.transaction = Len(transactions) + 1,
                               !.state.status = "DEPLOYMENT_SUBMITTED"] /\ UNCHANGED evidence
      BY <1>2, <1>3, <1>4, <3>1 DEF Broadcast, At, ProcessInv
    <3>2. CASE SaveAndExit(failed(process.state))
      <4>1. failed(process.state).operation = process.state.operation
        BY <1>3, FailedState DEF Evidence
      <4> QED BY <1>2, <1>3, <1>4, <3>2, <4>1 DEF Broadcast, At, SaveAndExit, NoProcess, ProcessInv
    <3> QED BY <1>4, <3>1, <3>2 DEF Broadcast
  <2> QED BY <1>1, <1>4, <2>1, <2>2 DEF OnceInv, Broadcast, At
<1>5. CASE ~Broadcast
  <2>1. Len(transactions') = Len(transactions)
    BY <1>5, NetworkStep
  <2>2. ASSUME NEW override \in BOOLEAN, Deploy(override) PROVE OnceInv'
    BY <2>1, <2>2 DEF Deploy, mayDeploy, Begin, OnceInv, NoEvidence
  <2>3. ASSUME evidence' = NoEvidence => evidence = NoEvidence,
               process'.script = "deploy" /\ process'.step \in {"started", "prepared"} =>
                   process.script = "deploy" /\ process.step \in {"started", "prepared"},
               overridden => overridden'
        PROVE  OnceInv'
    BY <2>1, <2>3 DEF OnceInv
  <2>4. overridden => overridden'
    BY DEF DeploymentTypeOK, DeploymentNext, Proceed, vars, Deploy, Import, Begin, Resume, Prepare,
           Broadcast, Record, Confirm, Verify, WriteRuntime, Finalize, Block, Fail, Validate,
           Crash, Mine, StartGateway, StartAppBackend, Stop
  <2>5. CASE process' = NoProcess
    <3>1. evidence' = NoEvidence => evidence = NoEvidence
      <4>1. CASE Fail
        <5>1. failed(process.state).operation = process.state.operation
          BY <1>3, FailedState DEF Evidence
        <5> QED BY <1>2, <4>1, <5>1 DEF Fail, SaveAndExit, ProcessInv
      <4>2. CASE Block
        BY <1>2, <1>3, <4>2 DEF Block, At, SaveAndExit, ProcessInv, Evidence
      <4>3. CASE Confirm
        <5>1. evidence'.operation = process.state.operation
          BY <1>3, <4>3 DEF Confirm, Save, ready, SaveAndExit, Evidence
        <5> QED BY <1>2, <4>3, <5>1 DEF Confirm, At, ProcessInv
      <4>4. CASE Verify
        BY <1>2, <1>3, <4>4 DEF Verify, At, ProcessInv, Evidence
      <4>5. CASE UNCHANGED evidence
        BY <4>5
      <4> QED BY <1>5, <2>5, <4>1, <4>2, <4>3, <4>4, <4>5
              DEF DeploymentNext, Proceed, vars, files, Deploy, Import, Begin, Resume, Prepare,
                  Record, WriteRuntime, Finalize, Validate, Crash, Mine, StartGateway,
                  StartAppBackend, Stop, Save, NoProcess
    <3> QED BY <2>3, <2>4, <2>5, <3>1 DEF NoProcess
  <2>6. CASE Import(TRUE) \/ Import(FALSE)
    <3>1. evidence'.operation # "none" /\ process'.script = "import"
      <4>1. PICK override : Begin("import", [NoEvidence EXCEPT !.operation = "IMPORT_EXISTING",
                                                 !.status = "VALIDATING"], override)
        BY <2>6, Zenon DEF Import
      <4> QED BY <4>1, FirstStates DEF Begin
    <3> QED BY <1>2, <2>3, <2>4, <3>1
  <2>7. CASE Resume
    BY <2>3, <2>4, <2>7 DEF Resume, files
  <2>8. CASE Prepare \/ Record \/ Finalize \/ Confirm \/ \E t \in DOMAIN transactions : Validate(t)
    <3>1. process.step # "none"
      BY <2>8 DEF Prepare, Record, Finalize, Confirm, Validate, At
    <3>2. CASE Prepare
      BY <1>2, <1>3, <2>3, <2>4, <3>1, <3>2 DEF Prepare, At, Save, ProcessInv, Evidence
    <3>3. CASE Record
      BY <1>2, <1>3, <2>3, <2>4, <3>1, <3>3 DEF Record, At, Save, ProcessInv, Evidence
    <3>4. ASSUME NEW t, \/ Save(ready(t), "ready")
                        \/ Save([ready(t) EXCEPT !.transaction = t, !.verification = "UNKNOWN"],
                                "ready")
          PROVE  OnceInv'
      <4>1. evidence'.operation = process.state.operation /\ process'.step = "ready"
        BY <1>3, <3>4 DEF Save, ready, Evidence
      <4> QED BY <1>2, <2>3, <2>4, <3>1, <4>1 DEF ProcessInv
    <3> QED BY <2>5, <2>8, <3>2, <3>3, <3>4 DEF Finalize, Confirm, Validate, SaveAndExit
  <2>9. CASE WriteRuntime
    BY <1>3, <2>3, <2>4, <2>5, <2>9 DEF WriteRuntime
  <2>10. CASE UNCHANGED <<evidence, process>>
    BY <2>3, <2>4, <2>10
  <2> QED BY <1>5, <2>2, <2>5, <2>6, <2>7, <2>8, <2>9, <2>10
          DEF DeploymentNext, Proceed, vars, files, Verify, Block, Fail, Crash, Mine,
              StartGateway, StartAppBackend, Stop, SaveAndExit
<1> QED BY <1>4, <1>5

\* However often the scripts stop and are run again, a second contract creation is
\* broadcast only with an override: DeployedOnce.
THEOREM OneContractIsDeployed == DeploymentSpec => []DeployedOnce
<1> DEFINE Inv == DeploymentTypeOK /\ ProcessInv /\ OnceInv
<1>1. DeploymentInit => Inv
  <2> SUFFICES ASSUME DeploymentInit PROVE OnceInv
    BY InitialTypes
  <2>1. Len(transactions) = Existing /\ Existing \in Nat
    BY DeploymentAssumption DEF DeploymentInit
  <2> QED BY <2>1 DEF DeploymentInit, OnceInv, NoProcess
<1>2. Inv /\ [DeploymentNext]_vars => Inv'
  BY TypeInductive, ProcessInductive, OnceInductive
<1>3. Inv => DeployedOnce
  BY DEF OnceInv, DeployedOnce
<1> QED BY <1>1, <1>2, <1>3, PTL DEF DeploymentSpec

-----------------------------------------------------------------------------
(* True evidence. *)

Created(ts, t) == t # NULL /\ ts[t].outcome = "created"
Reverted(ts, t) == t # NULL /\ ts[t].outcome = "reverted"

\* A state with a verdict has the right one.
Truthful(state, ts) ==
    /\ state.status = "READY" =>
           Created(ts, state.contract) /\ state.transaction = state.contract
    /\ state.status = "DEPLOYMENT_FAILED" => Reverted(ts, state.transaction)

TruthInv == Truthful(evidence, transactions) /\ Truthful(process.state, transactions)

\* Verdicts are final: what the network does to other transactions cannot make them
\* wrong.
LEMMA TruthStays ==
    ASSUME DeploymentTypeOK, ProcessInv, [DeploymentNext]_vars,
           NEW state, StateType(state), Truthful(state, transactions)
    PROVE  Truthful(state, transactions')
<1>1. Settled
  BY NetworkStep
<1>2. state.transaction \in {NULL} \cup DOMAIN transactions
      /\ state.contract \in {NULL} \cup DOMAIN transactions
  BY DEF StateType, Transactions
<1> QED BY <1>1, <1>2 DEF Settled, Truthful, Created, Reverted

LEMMA FailedIsTruthful ==
    ASSUME NEW state \in Evidence, NEW ts, Truthful(state, ts)
    PROVE  Truthful(failed(state), ts)
<1>1. PICK status \in Statuses :
          /\ failed(state) = [state EXCEPT !.status = status]
          /\ status \in {"READY", "DEPLOYMENT_FAILED"} => status = state.status
  BY FailedState
<1> QED BY <1>1 DEF Truthful, Evidence

LEMMA TruthInductive ==
    ASSUME DeploymentTypeOK, ProcessInv, TruthInv, [DeploymentNext]_vars
    PROVE  TruthInv'
<1>1. /\ process.state \in Evidence /\ evidence \in Evidence
      /\ StateType(process.state) /\ StateType(evidence)
      /\ process = [script |-> process.script, step |-> process.step,
                    state |-> process.state, override |-> process.override]
  BY DEF DeploymentTypeOK, StateType
<1>2. Truthful(evidence, transactions') /\ Truthful(process.state, transactions')
  BY <1>1, TruthStays DEF TruthInv
<1>3. Truthful(NoEvidence, transactions') /\ NoProcess.state = NoEvidence
  BY DEF Truthful, NoEvidence, NoProcess
<1>4. ASSUME NEW state, NEW step, Save(state, step), Truthful(state, transactions') PROVE TruthInv'
  BY <1>1, <1>4 DEF Save, TruthInv
<1>5. ASSUME NEW state, SaveAndExit(state), Truthful(state, transactions') PROVE TruthInv'
  BY <1>3, <1>5 DEF SaveAndExit, TruthInv
<1>6. Truthful(failed(process.state), transactions')
  BY <1>1, <1>2, FailedIsTruthful
<1>7. ASSUME NEW override \in BOOLEAN, Deploy(override) \/ Import(override) PROVE TruthInv'
  <2>1. PICK script \in {"deploy", "import"}, state \in Evidence :
            /\ Begin(script, state, override)
            /\ state.status \notin {"READY", "DEPLOYMENT_FAILED"}
    BY <1>7, FirstStates DEF Deploy, Import
  <2>2. process'.state = state /\ evidence' = state
    BY <2>1 DEF Begin
  <2> QED BY <2>1, <2>2 DEF TruthInv, Truthful
<1>8. CASE Resume
  BY <1>2, <1>8 DEF Resume, files, TruthInv
<1>9. CASE Prepare
  <2>1. PICK n : Save([process.state EXCEPT !.nonce = n, !.status = "DEPLOYMENT_PREPARED"],
                      "prepared")
    BY <1>9 DEF Prepare
  <2>2. [process.state EXCEPT !.nonce = n, !.status = "DEPLOYMENT_PREPARED"].status
            = "DEPLOYMENT_PREPARED"
    BY <1>1 DEF Evidence
  <2> QED BY <1>4, <2>1, <2>2 DEF Truthful
<1>10. CASE Broadcast
  <2>1. CASE process' = [process EXCEPT !.step = "submitted",
                             !.state.transaction = Len(transactions) + 1,
                             !.state.status = "DEPLOYMENT_SUBMITTED"] /\ UNCHANGED evidence
    <3>1. process'.state.status = "DEPLOYMENT_SUBMITTED"
      BY <1>1, <2>1 DEF Evidence
    <3> QED BY <1>2, <2>1, <3>1 DEF TruthInv, Truthful
  <2> QED BY <1>5, <1>6, <1>10, <2>1 DEF Broadcast
<1>11. CASE Record
  BY <1>2, <1>4, <1>11 DEF Record
<1>12. ASSUME NEW t \in Transactions, isCreated(t), process.state.transaction = t,
              UNCHANGED transactions
       PROVE  Truthful(ready(t), transactions')
  <2>1. ready(t).status = "READY" /\ ready(t).contract = t /\ ready(t).transaction = t
    BY <1>1, <1>12 DEF ready, Evidence
  <2> QED BY <1>12, <2>1 DEF isCreated, Truthful, Created
<1>13. process.state.transaction \in Transactions
  BY <1>1 DEF StateType
<1>14. CASE Confirm
  <2>1. CASE isCreated(process.state.transaction) /\ Save(ready(process.state.transaction), "ready")
    BY <1>4, <1>12, <1>13, <1>14, <2>1 DEF Confirm, network
  <2>2. CASE /\ transactions[process.state.transaction].outcome = "reverted"
             /\ SaveAndExit([process.state EXCEPT !.status = "DEPLOYMENT_FAILED"])
    <3>1. process.state.transaction # NULL /\ UNCHANGED transactions
      BY <1>14 DEF Confirm, At, ProcessInv, network
    <3>2. Truthful([process.state EXCEPT !.status = "DEPLOYMENT_FAILED"], transactions')
      BY <1>1, <2>2, <3>1 DEF Truthful, Reverted, Evidence
    <3> QED BY <1>5, <2>2, <3>2
  <2> QED BY <1>14, <2>1, <2>2 DEF Confirm
<1>15. CASE Finalize
  BY <1>4, <1>12, <1>13, <1>15 DEF Finalize, network
<1>16. CASE Verify
  <2>1. evidence'.status = evidence.status /\ evidence'.contract = evidence.contract
        /\ evidence'.transaction = evidence.transaction
    BY <1>1, <1>16 DEF Verify, Evidence
  <2> QED BY <1>2, <1>3, <1>16, <2>1 DEF Verify, TruthInv, Truthful
<1>17. CASE WriteRuntime
  <2>1. process'.state = process.state \/ process' = NoProcess
    BY <1>1, <1>17 DEF WriteRuntime
  <2> QED BY <1>2, <1>3, <1>17, <2>1 DEF WriteRuntime, TruthInv
<1>18. CASE Block
  <2> DEFINE t == process.state.transaction
  <2>1. PICK outcome \in Shown(t) :
            /\ assessment(t, outcome) # "READY"
            /\ SaveAndExit([process.state EXCEPT !.status = assessment(t, outcome)])
    BY <1>18 DEF Block
  <2>2. assessment(t, outcome) = "DEPLOYMENT_FAILED" => Reverted(transactions, t)
    BY DEF assessment, Shown, Reverted
  <2>3. Truthful([process.state EXCEPT !.status = assessment(t, outcome)], transactions')
    BY <1>1, <1>18, <2>1, <2>2 DEF Block, network, Truthful, Evidence, Reverted
  <2> QED BY <1>5, <2>1, <2>3
<1>19. CASE Fail
  BY <1>5, <1>6, <1>19 DEF Fail
<1>20. ASSUME NEW t \in DOMAIN transactions, Validate(t) PROVE TruthInv'
  <2>1. [ready(t) EXCEPT !.transaction = t, !.verification = "UNKNOWN"].contract = t
        /\ [ready(t) EXCEPT !.transaction = t, !.verification = "UNKNOWN"].transaction = t
        /\ [ready(t) EXCEPT !.transaction = t, !.verification = "UNKNOWN"].status = "READY"
    BY <1>1 DEF ready, Evidence
  <2>2. isCreated(t) /\ UNCHANGED transactions
    BY <1>20 DEF Validate, network
  <2>3. Truthful([ready(t) EXCEPT !.transaction = t, !.verification = "UNKNOWN"], transactions')
    BY <2>1, <2>2 DEF isCreated, Truthful, Created
  <2> QED BY <1>4, <1>20, <2>3 DEF Validate
<1>21. CASE Crash
  BY <1>2, <1>3, <1>21 DEF Crash, files, TruthInv
<1>22. CASE UNCHANGED <<evidence, process>>
  BY <1>2, <1>22 DEF TruthInv
<1> QED BY <1>7, <1>8, <1>9, <1>10, <1>11, <1>14, <1>15, <1>16, <1>17, <1>18, <1>19, <1>20,
           <1>21, <1>22 DEF DeploymentNext, Proceed, vars, files, Mine, StartGateway,
                            StartAppBackend, Stop

LEMMA TruthInitial == DeploymentInit => TruthInv
BY DEF DeploymentInit, TruthInv, Truthful, NoEvidence, NoProcess

DeploymentInv == DeploymentTypeOK /\ ProcessInv /\ TruthInv

LEMMA DeploymentInvariant == DeploymentSpec => []DeploymentInv
<1>1. DeploymentInit => DeploymentInv
  BY InitialTypes, TruthInitial DEF DeploymentInv
<1>2. DeploymentInv /\ [DeploymentNext]_vars => DeploymentInv'
  BY TypeInductive, ProcessInductive, TruthInductive DEF DeploymentInv
<1> QED BY <1>1, <1>2, PTL DEF DeploymentSpec

\* Evidence that says READY names a contract that exists, and evidence that says
\* DEPLOYMENT_FAILED a transaction that created none, whatever crashed or was resumed
\* since: EvidenceIsTrue.
THEOREM EvidenceStaysTrue == DeploymentSpec => []EvidenceIsTrue
<1>1. DeploymentInv => EvidenceIsTrue
  BY DEF DeploymentInv, TruthInv, Truthful, Created, Reverted, EvidenceIsTrue, isCreated
<1> QED BY <1>1, DeploymentInvariant, PTL

\* Deploying and resuming never lose a recorded transaction: RecordKept.
THEOREM RecordsAreKept == DeploymentSpec => RecordKept
<1> DEFINE Kept == /\ evidence.transaction # NULL
                   /\ evidence'.transaction # evidence.transaction
                   => process'.script = "import" \/ process'.override
<1>1. ASSUME DeploymentTypeOK, ProcessInv, [DeploymentNext]_vars PROVE Kept
  <2>1. /\ process.state \in Evidence /\ evidence \in Evidence
        /\ process = [script |-> process.script, step |-> process.step,
                      state |-> process.state, override |-> process.override]
    BY <1>1 DEF DeploymentTypeOK
  <2>2. ASSUME process.step # "none",
               evidence'.transaction \in {evidence.transaction, process.state.transaction}
        PROVE  Kept
    BY <1>1, <2>2 DEF ProcessInv
  <2>3. ASSUME NEW override \in BOOLEAN, Deploy(override) PROVE Kept
    <3>1. process'.override = override
      BY <2>3 DEF Deploy, Begin
    <3>2. ~override => evidence.transaction = NULL
      BY <2>3 DEF Deploy, mayDeploy, NoEvidence
    <3> QED BY <3>1, <3>2
  <2>4. ASSUME NEW override \in BOOLEAN, Import(override) PROVE Kept
    BY <2>4 DEF Import, Begin
  <2>5. ASSUME NEW state, NEW step, Save(state, step) \/ SaveAndExit(state),
               process.step # "none", state.transaction = process.state.transaction
        PROVE  Kept
    BY <2>2, <2>5 DEF Save, SaveAndExit
  <2>6. failed(process.state).transaction = process.state.transaction
    BY <2>1, FailedState DEF Evidence
  <2>7. CASE Prepare
    <3>1. PICK n : Save([process.state EXCEPT !.nonce = n, !.status = "DEPLOYMENT_PREPARED"],
                        "prepared")
      BY <2>7 DEF Prepare
    <3>2. [process.state EXCEPT !.nonce = n, !.status = "DEPLOYMENT_PREPARED"].transaction
              = process.state.transaction
      BY <2>1 DEF Evidence
    <3> QED BY <2>5, <2>7, <3>1, <3>2 DEF Prepare, At
  <2>8. CASE Broadcast
    BY <2>5, <2>6, <2>8 DEF Broadcast, At
  <2>9. CASE Record
    BY <2>5, <2>9 DEF Record, At
  <2>10. \A t : ready(t).transaction = process.state.transaction
    BY <2>1 DEF ready, Evidence
  <2>11. CASE Confirm
    <3>1. [process.state EXCEPT !.status = "DEPLOYMENT_FAILED"].transaction
              = process.state.transaction
      BY <2>1 DEF Evidence
    <3> QED BY <2>5, <2>10, <2>11, <3>1 DEF Confirm, At
  <2>12. CASE Finalize
    BY <2>5, <2>10, <2>12 DEF Finalize, At
  <2>13. CASE Verify
    BY <2>1, <2>13 DEF Verify, Evidence
  <2>14. CASE Block
    <3>1. PICK status : SaveAndExit([process.state EXCEPT !.status = status])
      BY <2>14 DEF Block
    <3>2. [process.state EXCEPT !.status = status].transaction = process.state.transaction
      BY <2>1 DEF Evidence
    <3> QED BY <2>5, <2>14, <3>1, <3>2 DEF Block, At
  <2>15. CASE Fail
    BY <2>5, <2>6, <2>15 DEF Fail
  <2>16. ASSUME NEW t, Validate(t) PROVE Kept
    BY <2>1, <2>16 DEF Validate, At, Save
  <2>17. CASE UNCHANGED evidence
    BY <2>17
  <2> QED BY <1>1, <2>3, <2>4, <2>7, <2>8, <2>9, <2>11, <2>12, <2>13, <2>14, <2>15, <2>16, <2>17
          DEF DeploymentNext, Proceed, vars, files, Resume, WriteRuntime, Crash, Mine,
              StartGateway, StartAppBackend, Stop
<1>2. DeploymentInv /\ [DeploymentNext]_vars => [Kept]_vars
  BY <1>1 DEF DeploymentInv
<1> QED BY <1>2, DeploymentInvariant, PTL DEF DeploymentSpec, RecordKept

-----------------------------------------------------------------------------
(* The services. *)

ServicesInv ==
    /\ runtime # NULL => isCreated(runtime)
    /\ \A s \in Services : running[s] # NULL =>
           isCreated(running[s]) /\ (overridden \/ running[s] = runtime)

\* Without an override the runtime file is written once, so nobody runs on another
\* contract than the one it names.
LEMMA ServicesInductive ==
    ASSUME DeploymentInv, ServicesInv, [DeploymentNext]_vars
    PROVE  ServicesInv'
<1>1. \A t \in Transactions : isCreated(t) => isCreated(t)'
  BY NetworkStep DEF DeploymentInv, Settled, isCreated, Transactions
<1>2. runtime \in Transactions /\ running \in [Services -> Transactions]
  BY DEF DeploymentInv, DeploymentTypeOK
<1>3. CASE WriteRuntime
  <2>1. isCreated(process.state.contract) /\ process.state.contract \in Transactions
    BY <1>3 DEF WriteRuntime, DeploymentInv, DeploymentTypeOK, ProcessInv, TruthInv, Truthful,
                Created, isCreated
  <2>2. overridden \/ runtime = NULL
    BY <1>3 DEF WriteRuntime, runtimeWritable, DeploymentInv, ProcessInv
  <2>3. runtime' = process.state.contract /\ UNCHANGED <<running, overridden>>
    BY <1>3 DEF WriteRuntime
  <2> QED BY <1>1, <1>2, <2>1, <2>2, <2>3 DEF ServicesInv
<1>4. CASE StartGateway \/ StartAppBackend
  <2>1. /\ isCreated(runtime) /\ UNCHANGED <<runtime, overridden>>
        /\ \E s \in Services : running' = [running EXCEPT ![s] = runtime]
    BY <1>4 DEF StartGateway, StartAppBackend, loadDeploymentRuntime, initBlockchain, checkReady,
                files, Services
  <2> QED BY <1>1, <1>2, <2>1 DEF ServicesInv
<1>5. CASE \E s \in Services : Stop(s)
  BY <1>1, <1>2, <1>5 DEF Stop, files, ServicesInv
<1>6. ASSUME UNCHANGED <<runtime, running>>, overridden => overridden' PROVE ServicesInv'
  BY <1>1, <1>2, <1>6 DEF ServicesInv
<1>7. overridden => overridden'
  BY DEF DeploymentInv, DeploymentTypeOK, DeploymentNext, Proceed, vars, Deploy, Import, Begin,
         Resume, Prepare, Broadcast, Record, Confirm, Verify, WriteRuntime, Finalize, Block, Fail,
         Validate, Crash, Mine, StartGateway, StartAppBackend, Stop
<1>8. \/ WriteRuntime \/ StartGateway \/ StartAppBackend \/ \E s \in Services : Stop(s)
      \/ UNCHANGED <<runtime, running>>
  BY DEF DeploymentNext, Proceed, vars, files, Deploy, Import, Begin, Resume, Prepare, Broadcast,
         Record, Confirm, Verify, Finalize, Block, Fail, Validate, Crash, Mine
<1> QED BY <1>3, <1>4, <1>5, <1>6, <1>7, <1>8

\* The gateway and the application backend, whenever they were started, run on the same
\* contract, which exists: ServicesAgree.
THEOREM ServicesRunOnOneContract == DeploymentSpec => []ServicesAgree
<1>1. DeploymentInit => ServicesInv
  BY DEF DeploymentInit, ServicesInv
<1>2. DeploymentInv /\ ServicesInv /\ [DeploymentNext]_vars => ServicesInv'
  BY ServicesInductive
<1>3. ServicesInv => ServicesAgree
  BY DEF ServicesInv, ServicesAgree
<1> QED BY <1>1, <1>2, <1>3, DeploymentInvariant, PTL DEF DeploymentSpec
=============================================================================
