----------------------------- MODULE Deployment -----------------------------
(***************************************************************************)
(* How a contract becomes the one the services run on: the one-shot        *)
(* scripts that deploy it, resume an interrupted deployment or import an   *)
(* existing contract (scripts/), the evidence and runtime files they       *)
(* leave in the shared volume, and the services that read the runtime file *)
(* when they start.  A script may stop at any point; the operator runs one *)
(* at a time.                                                              *)
(***************************************************************************)
EXTENDS Naturals, Sequences

CONSTANTS
    NoNonce,   \* the nonce of evidence that has none
    Existing,  \* how many contracts the administrator has deployed from elsewhere
    MaxNonce   \* bound on the administrator's transactions

ASSUME DeploymentAssumption == Existing \in Nat /\ MaxNonce \in Nat /\ NoNonce \notin Nat

VARIABLES
    transactions,  \* the contract creations broadcast: [nonce, outcome]
    latestNonce,   \* getTransactionCount(administrator, "latest")
    evidence,      \* deployment.json
    runtime,       \* runtime.env: the creation whose contract it names, or NULL
    process,       \* the script under way and its `state'
    running,       \* the contract each service has started with, or NULL
    overridden     \* a script has run with ALLOW_NEW_DEPLOYMENT or ALLOW_RUNTIME_OVERWRITE

network == <<transactions, latestNonce>>
files == <<evidence, runtime>>
vars == <<network, files, process, running, overridden>>

Services == {"gateway", "appBackend"}

\* Transactions, and the contracts they create, are named by their position.
NULL == 0

NoEvidence == [operation |-> "none", status |-> "none", nonce |-> NoNonce,
               transaction |-> NULL, contract |-> NULL, verification |-> "none"]
NoProcess == [script |-> "none", step |-> "none", state |-> NoEvidence, override |-> FALSE]

DeploymentInit ==
    /\ transactions = [t \in 1 .. Existing |-> [nonce |-> t - 1, outcome |-> "created"]]
    /\ latestNonce = Existing
    /\ evidence = NoEvidence /\ runtime = NULL
    /\ process = NoProcess
    /\ running = [s \in Services |-> NULL]
    /\ overridden = FALSE

-----------------------------------------------------------------------------
(* What the scripts share. *)

\* Defective variants: a deployment that looks at the runtime file alone, a runtime
\* file that any script replaces, a failure that forgets its transaction, the
\* address computed from the wrong nonce, a transaction the RPC does not know taken for
\* one that failed, a nonce that is consumed taken for a consumption by somebody else.
RuntimeOnly(override) == override \/ runtime = NULL
AlwaysWritable(override) == TRUE
StartsOver(state) == [state EXCEPT !.status = "FAILED", !.transaction = NULL]
AddressOfNext(t) == [process.state EXCEPT !.status = "READY", !.contract = t + 1]
UnknownFailed(t, outcome) == IF outcome = "created" THEN "READY" ELSE "DEPLOYMENT_FAILED"
ConsumedElsewhere(t, outcome) ==
    IF t # NULL /\ transactions[t].nonce < latestNonce THEN "DEPLOYMENT_AMBIGUOUS"
    ELSE "DEPLOYMENT_PENDING"

isCreated(t) == t # NULL /\ transactions[t].outcome = "created"

\* assertRuntimeWritable.
runtimeWritable(override) == override \/ runtime = NULL

\* The guards of deploy-contract.js.
mayDeploy(override) == runtimeWritable(override) /\ (override \/ evidence = NoEvidence)

\* writeEvidence, with the script at a new step.  The file is replaced by a rename.
Save(state, step) ==
    /\ evidence' = state
    /\ process' = [process EXCEPT !.state = state, !.step = step]

SaveAndExit(state) == evidence' = state /\ process' = NoProcess

Begin(script, state, override) ==
    /\ process = NoProcess
    /\ evidence' = state
    /\ process' = [script |-> script, step |-> "started", state |-> state,
                   override |-> override]
    /\ overridden' = (overridden \/ override)
    /\ UNCHANGED <<network, runtime, running>>

At(script, step) == process.script = script /\ process.step = step

ready(t) == [process.state EXCEPT !.status = "READY", !.contract = t]

\* The catch blocks.
failed(state) ==
    CASE process.script = "deploy" ->
             [state EXCEPT !.status =
                 IF @ \in {"DEPLOYMENT_FAILED", "READY"} THEN @
                 ELSE IF state.transaction # NULL THEN "DEPLOYMENT_UNRESOLVED" ELSE "FAILED"]
      [] process.script = "resume" ->
             [state EXCEPT !.status = IF @ \in {"READY", "FAILED"} THEN "FAILED" ELSE @]
      [] OTHER -> [state EXCEPT !.status = "FAILED"]

Fail ==
    /\ process.step \in {"started", "prepared", "submitted", "waiting", "ready"}
    /\ SaveAndExit(failed(process.state))
    /\ UNCHANGED <<network, runtime, running, overridden>>

\* writeRuntimeEnv; docker-deploy.js goes on after a deployment.
WriteRuntime ==
    /\ process.step = "ready"
    /\ runtimeWritable(process.override)
    /\ runtime' = process.state.contract
    /\ process' = IF process.script = "deploy" THEN [process EXCEPT !.step = "verifying"]
                  ELSE NoProcess
    /\ UNCHANGED <<network, evidence, running, overridden>>

-----------------------------------------------------------------------------
(* deploy-contract.js, run by docker-deploy.js. *)

Deploy(override) ==
    /\ mayDeploy(override)
    /\ Begin("deploy", [NoEvidence EXCEPT !.operation = "DEPLOY_CONTRACT",
                            !.status = "STARTING", !.verification = "PENDING"], override)

isPending(n) ==
    \E t \in DOMAIN transactions : transactions[t].nonce = n /\ transactions[t].outcome = "pending"

\* getNonce("pending"): the first nonce that no transaction has taken.
pendingNonce ==
    CHOOSE n \in latestNonce .. latestNonce + Len(transactions) :
        ~isPending(n) /\ \A m \in latestNonce .. n - 1 : isPending(m)

Prepare ==
    /\ At("deploy", "started")
    /\ Save([process.state EXCEPT !.nonce = pendingNonce, !.status = "DEPLOYMENT_PREPARED"],
            "prepared")
    /\ UNCHANGED <<network, runtime, running, overridden>>

\* deployContract returns the transaction, or fails although it was broadcast.
Broadcast ==
    LET state == process.state IN
    /\ At("deploy", "prepared")
    /\ latestNonce <= state.nonce /\ state.nonce < MaxNonce
    /\ transactions' = Append(transactions, [nonce |-> state.nonce, outcome |-> "pending"])
    /\ \/ /\ process' = [process EXCEPT !.step = "submitted",
                             !.state.transaction = Len(transactions) + 1,
                             !.state.status = "DEPLOYMENT_SUBMITTED"]
          /\ UNCHANGED evidence
       \/ SaveAndExit(failed(state))
    /\ UNCHANGED <<latestNonce, runtime, running, overridden>>

Record ==
    /\ At("deploy", "submitted")
    /\ Save(process.state, "waiting")
    /\ UNCHANGED <<network, runtime, running, overridden>>

\* The receipt: the contract's code, block and administrator are validated, or the
\* transaction has failed.  A wait that rejects is a Fail.
Confirm ==
    LET t == process.state.transaction IN
    /\ At("deploy", "waiting")
    /\ \/ isCreated(t) /\ Save(ready(t), "ready")
       \/ /\ transactions[t].outcome = "reverted"
          /\ SaveAndExit([process.state EXCEPT !.status = "DEPLOYMENT_FAILED"])
    /\ UNCHANGED <<network, runtime, running, overridden>>

\* Source verification: the evidence is read again and written back.
Verify ==
    /\ At("deploy", "verifying")
    /\ \E result \in {"SKIPPED", "VERIFIED", "FAILED"} :
           evidence' = [evidence EXCEPT !.verification = result]
    /\ process' = NoProcess
    /\ UNCHANGED <<network, runtime, running, overridden>>

-----------------------------------------------------------------------------
(* resume-deployment.js. *)

\* The administrator's address is recorded with the nonce.
Resume ==
    /\ process = NoProcess
    /\ runtimeWritable(FALSE)
    /\ evidence.operation = "DEPLOY_CONTRACT" /\ evidence.nonce # NoNonce
    /\ process' = [script |-> "resume", step |-> "started", state |-> evidence,
                   override |-> FALSE]
    /\ UNCHANGED <<network, files, running, overridden>>

\* assessDeploymentRecovery, as the status it leads to, for what the RPC shows of the
\* recorded transaction.  (DEPLOYMENT_INCONSISTENT, a success without a contract address,
\* cannot be shown of a recorded transaction: the script sent it to create a contract.)
assessment(t, outcome) ==
    IF t = NULL THEN "DEPLOYMENT_AMBIGUOUS" ELSE
    CASE outcome = "reverted" -> "DEPLOYMENT_FAILED"
      [] outcome = "created" -> "READY"
      [] outcome = "pending" -> "DEPLOYMENT_PENDING"
      [] OTHER -> "DEPLOYMENT_AMBIGUOUS"

\* The RPC may not know the transaction.
Shown(t) == IF t = NULL THEN {"unknown"} ELSE {transactions[t].outcome, "unknown"}

Finalize ==
    LET t == process.state.transaction IN
    /\ At("resume", "started")
    /\ isCreated(t) /\ assessment(t, "created") = "READY"
    /\ Save(ready(t), "ready")
    /\ UNCHANGED <<network, runtime, running, overridden>>

Block ==
    LET t == process.state.transaction IN
    /\ At("resume", "started")
    /\ \E outcome \in Shown(t) :
           /\ assessment(t, outcome) # "READY"
           /\ SaveAndExit([process.state EXCEPT !.status = assessment(t, outcome)])
    /\ UNCHANGED <<network, runtime, running, overridden>>

-----------------------------------------------------------------------------
(* configure-existing.js. *)

Import(override) ==
    /\ runtimeWritable(override)
    /\ Begin("import", [NoEvidence EXCEPT !.operation = "IMPORT_EXISTING",
                            !.status = "VALIDATING"], override)

\* validateExactDeployment of the contract the operator names.
Validate(t) ==
    /\ At("import", "started")
    /\ isCreated(t)
    /\ Save([ready(t) EXCEPT !.transaction = t, !.verification = "UNKNOWN"], "ready")
    /\ UNCHANGED <<network, runtime, running, overridden>>

-----------------------------------------------------------------------------
(* The network, the services, and scripts that stop. *)

\* The administrator's next nonce is taken: by a creation, which succeeds or reverts,
\* or by another transaction of that wallet.
Mine ==
    LET taken(t) == transactions[t].nonce = latestNonce /\ transactions[t].outcome = "pending"
        after(s) == [t \in DOMAIN transactions |->
                        IF t = s THEN transactions[t].outcome
                        ELSE IF taken(t) THEN "replaced" ELSE transactions[t].outcome]
    IN
    /\ latestNonce < MaxNonce
    /\ latestNonce' = latestNonce + 1
    /\ \/ \E s \in DOMAIN transactions, outcome \in {"created", "reverted"} :
              /\ taken(s)
              /\ transactions' = [t \in DOMAIN transactions |->
                     [transactions[t] EXCEPT !.outcome = IF t = s THEN outcome ELSE after(s)[t]]]
       \/ transactions' = [t \in DOMAIN transactions |->
              [transactions[t] EXCEPT !.outcome = after(NULL)[t]]]
    /\ UNCHANGED <<files, process, running, overridden>>

Crash ==
    /\ process # NoProcess
    /\ process' = NoProcess
    /\ UNCHANGED <<network, files, running, overridden>>

\* loadDeploymentRuntime, which needs the runtime file.
loadDeploymentRuntime(s) ==
    /\ runtime # NULL
    /\ running' = [running EXCEPT ![s] = runtime]

\* The gateway's initBlockchain and the application backend's checkReady: no start
\* without code at the address.
initBlockchain(contract) == isCreated(contract)
checkReady(contract) == isCreated(contract)

StartGateway ==
    /\ running["gateway"] = NULL
    /\ loadDeploymentRuntime("gateway") /\ initBlockchain(runtime)
    /\ UNCHANGED <<network, files, process, overridden>>

StartAppBackend ==
    /\ running["appBackend"] = NULL
    /\ loadDeploymentRuntime("appBackend") /\ checkReady(runtime)
    /\ UNCHANGED <<network, files, process, overridden>>

Stop(s) ==
    /\ running[s] # NULL
    /\ running' = [running EXCEPT ![s] = NULL]
    /\ UNCHANGED <<network, files, process, overridden>>

Proceed == Prepare \/ Broadcast \/ Record \/ Confirm \/ Verify \/ WriteRuntime
           \/ Finalize \/ Block \/ Fail \/ \E t \in DOMAIN transactions : Validate(t)

DeploymentNext ==
    \/ \E override \in BOOLEAN : Deploy(override) \/ Import(override)
    \/ Resume \/ Proceed \/ Crash \/ Mine
    \/ StartGateway \/ StartAppBackend \/ \E s \in Services : Stop(s)

DeploymentSpec == DeploymentInit /\ [][DeploymentNext]_vars

\* Scripts end; an operator whose deployment has no runtime file resumes it again and
\* again, and neither the RPC nor the volume fails every time.
DeploymentFairSpec ==
    /\ DeploymentSpec /\ WF_vars(Proceed)
    /\ SF_vars(Resume) /\ SF_vars(Finalize) /\ SF_vars(WriteRuntime)

-----------------------------------------------------------------------------

Statuses == {"none", "STARTING", "DEPLOYMENT_PREPARED", "DEPLOYMENT_SUBMITTED", "READY",
             "DEPLOYMENT_UNRESOLVED", "DEPLOYMENT_PENDING", "DEPLOYMENT_AMBIGUOUS",
             "DEPLOYMENT_FAILED", "FAILED", "VALIDATING"}

Transactions == {NULL} \cup DOMAIN transactions

Evidence == [operation : {"none", "DEPLOY_CONTRACT", "IMPORT_EXISTING"}, status : Statuses,
             nonce : Nat \cup {NoNonce}, transaction : Nat, contract : Nat,
             verification : {"none", "PENDING", "SKIPPED", "VERIFIED", "FAILED", "UNKNOWN"}]

\* The types of the network, the files and the script under way; what a file names has
\* been broadcast.
DeploymentTypeOK ==
    /\ transactions \in Seq([nonce : Nat,
                             outcome : {"pending", "created", "reverted", "replaced"}])
    /\ latestNonce \in Nat /\ overridden \in BOOLEAN
    /\ evidence \in Evidence /\ {evidence.transaction, evidence.contract} \subseteq Transactions
    /\ runtime \in Transactions
    /\ process \in [script : {"none", "deploy", "resume", "import"}, state : Evidence,
                    override : BOOLEAN,
                    step : {"none", "started", "prepared", "submitted", "waiting", "ready",
                            "verifying"}]
    /\ {process.state.transaction, process.state.contract} \subseteq Transactions
    /\ running \in [Services -> Transactions]

\* "This path sends exactly one Sepolia transaction": through crashes, failures, retries,
\* resumptions and imports, the scripts send a second one only with an override.
DeployedOnce == overridden \/ Len(transactions) <= Existing + 1

\* Services started at different times run on the same contract, and on one that was
\* created, however the runtime file came about.
ServicesAgree ==
    /\ \A s \in Services : running[s] # NULL => isCreated(running[s])
    /\ \A s, t \in Services :
           running[s] # NULL /\ running[t] # NULL => running[s] = running[t] \/ overridden

\* What the evidence claims is so: a contract that is READY was created by the recorded
\* transaction, and a deployment that is DEPLOYMENT_FAILED has not created one.
EvidenceIsTrue ==
    /\ evidence.status = "READY" =>
           isCreated(evidence.contract) /\ evidence.transaction = evidence.contract
    /\ evidence.status = "DEPLOYMENT_FAILED" => ~isCreated(evidence.transaction)

\* A recorded transaction is not forgotten: deploying and resuming keep its hash in the
\* evidence; only an import or an override replaces it.
RecordKept ==
    [][ /\ evidence.transaction # NULL
        /\ evidence'.transaction # evidence.transaction
        => process'.script = "import" \/ process'.override ]_vars

\* A deployment whose transaction was recorded and succeeds is configured in the end,
\* wherever the script stopped, unless an import or an override takes its place.
RecordedIsConfigured ==
    /\ evidence.operation = "DEPLOY_CONTRACT"
    /\ isCreated(evidence.transaction)
    ~> runtime # NULL \/ evidence.operation # "DEPLOY_CONTRACT" \/ overridden
=============================================================================
