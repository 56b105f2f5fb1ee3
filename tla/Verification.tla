---------------------------- MODULE Verification ----------------------------
(***************************************************************************)
(* Public verification in one browser tab: the verifier of the landing     *)
(* page (HeroVerifier.jsx), the verification page (VerifyDocument.jsx) and *)
(* the device's history (verificationHistory.js), over the gateway's reads.*)
(* Hashing a file and asking the gateway both take time, and whatever they *)
(* return is put into the page as it is by then.  A file is identified     *)
(* with its digest, which also stands for the name that it goes by; a      *)
(* document verified by a hash or a link goes by no file's name: NULL.     *)
(***************************************************************************)
EXTENDS GatewayReads

CONSTANT MaxEntries  \* of the history

ASSUME VerificationAssumption == MaxEntries \in Nat \ {0}

VARIABLES
    route,      \* the tab's path, with the hash in it
    hero,       \* the state of HeroVerifier, while the path is "/"
    form,       \* the state of VerifyDocument, while the path is "/verify"
    history,    \* pramaanchain.verificationHistory in localStorage, newest first
    overtaken   \* a file has been chosen on the landing page while another was hashed

pages == <<route, hero, form>>
reads == <<chain, requests>>
vars == <<reads, pages, history, overtaken>>

Documents == Hashes \cup {NULL}

NewHero == [mode |-> "hash", selectedFile |-> NULL, fileDigest |-> NULL, ready |-> FALSE,
            hashing |-> FALSE]
NewForm(h) == [selectedFile |-> NULL, result |-> NULL, loading |-> h # NULL]

Path(path, h) == [path |-> path, hash |-> h]

VerificationInit ==
    /\ ReadsInit
    /\ route = Path("home", NULL) /\ hero = NewHero /\ form = NewForm(NULL)
    /\ history = <<>> /\ overtaken = FALSE

-----------------------------------------------------------------------------
(* What the pages share. *)

\* Defective variants: an answer labelled with the page it arrives on; a file's name
\* read when its verification has ended; a history that nothing bounds.
LabelledByRoute(request) == [hash |-> route.hash, name |-> request.name,
                             status |-> request.status]
NameOnArrival(request) == [hash |-> request.hash, status |-> request.status,
                           name |-> IF request.name \in Hashes /\ form.selectedFile # NULL
                                    THEN form.selectedFile ELSE request.name]

KeepsAll(entry) == history' = <<entry>> \o history

Hashing(f, caller) == [kind |-> "digest", step |-> "hashing", hash |-> f, caller |-> caller]

IsFree(s) == requests[s] = NoRequest

\* A page that is left: what it has asked for still comes, to nobody.
Orphaned(request) ==
    IF request.kind \in {"verify", "digest"} THEN [request EXCEPT !.caller = "gone"] ELSE request

Leaving == [s \in Slots |->
    IF requests[s].kind = "events" \/ (requests[s].kind = "digest" /\ requests[s].caller = "hero")
    THEN NoRequest ELSE Orphaned(requests[s])]

-----------------------------------------------------------------------------
(* The landing page. *)

OnHero(mode) == route.path = "home" /\ hero.mode = mode

\* An unsupported file is NULL.
processFile(s, f) ==
    /\ OnHero("file") /\ IsFree(s)
    /\ hero' = [hero EXCEPT !.selectedFile = f, !.fileDigest = NULL, !.ready = FALSE,
                            !.hashing = (@ \/ f # NULL)]
    /\ Goes(s, IF f = NULL THEN NoRequest ELSE Hashing(f, "hero"))
    /\ overtaken' = (overtaken \/ (f # NULL /\ hero.hashing))
    /\ UNCHANGED <<chain, route, form, history>>

\* The digest arrives, or the file could not be hashed.
HeroHashed(s) ==
    LET f == requests[s].hash IN
    /\ At(s, "digest", "hashing") /\ requests[s].caller = "hero"
    /\ \/ hero' = [hero EXCEPT !.fileDigest = f, !.ready = TRUE, !.hashing = FALSE]
       \/ hero' = [hero EXCEPT !.selectedFile = NULL, !.hashing = FALSE]
    /\ Goes(s, NoRequest)
    /\ UNCHANGED <<chain, route, form, history, overtaken>>

\* In the mode of the hash, it is ready if a hash has been typed.
changeMode(mode) ==
    /\ route.path = "home" /\ mode # hero.mode
    /\ \E typed \in BOOLEAN :
           hero' = [hero EXCEPT !.mode = mode,
                       !.ready = IF mode = "hash" THEN typed
                                 ELSE hero.selectedFile # NULL /\ hero.fileDigest # NULL]
    /\ UNCHANGED <<reads, route, form, history, overtaken>>

handleHashChange(typed) ==
    /\ OnHero("hash")
    /\ hero' = [hero EXCEPT !.ready = typed]
    /\ UNCHANGED <<reads, route, form, history, overtaken>>

-----------------------------------------------------------------------------
(* Moving between the pages. *)

\* The effect of VerifyDocument on a path with a hash.
Shows(s, h, name, asking) ==
    /\ route' = Path("verify", h)
    /\ requests' = IF h = NULL THEN asking
                   ELSE [asking EXCEPT ![s] = Verification(h, name, "form")]

\* The hash typed, or the one of the file.
handleContinue(s, h) ==
    LET name == IF hero.mode = "file" THEN hero.selectedFile ELSE NULL IN
    /\ route.path = "home" /\ hero.ready /\ ~hero.hashing
    /\ h # NULL /\ (hero.mode = "file" => h = hero.fileDigest)
    /\ Leaving[s] = NoRequest /\ Shows(s, h, name, Leaving)
    /\ form' = NewForm(h) /\ hero' = NewHero
    /\ UNCHANGED <<chain, history, overtaken>>

\* A link or a QR code is opened, or the tab reloaded: the requests in flight are gone.
OpenLink(s, h) ==
    /\ Shows(s, h, NULL, [r \in Slots |-> NoRequest])
    /\ form' = NewForm(h) /\ hero' = NewHero
    /\ UNCHANGED <<chain, history, overtaken>>

\* To the landing page, or to a portal.
Visit(path) ==
    /\ path \in {"home", "portal"} /\ route.path # path
    /\ route' = Path(path, NULL) /\ requests' = Leaving
    /\ hero' = NewHero /\ form' = NewForm(NULL)
    /\ UNCHANGED <<chain, history, overtaken>>

-----------------------------------------------------------------------------
(* The verification page. *)

\* The tab of the file and the tab of the hash: either may be chosen at any time.
OnForm == route.path = "verify"

setHashInput ==
    /\ OnForm /\ form' = [form EXCEPT !.result = NULL]
    /\ UNCHANGED <<reads, route, hero, history, overtaken>>

setSelectedFile(f) ==
    /\ OnForm /\ form' = [form EXCEPT !.selectedFile = f, !.result = NULL]
    /\ UNCHANGED <<reads, route, hero, history, overtaken>>

\* The button does not load while the file is hashed.
handleVerifyFile(s) ==
    /\ OnForm /\ ~form.loading /\ form.selectedFile # NULL
    /\ IsFree(s) /\ Goes(s, Hashing(form.selectedFile, "form"))
    /\ UNCHANGED <<chain, pages, history, overtaken>>

\* verifyHash with the digest; a file that cannot be hashed ends in silence.
FormHashed(s) ==
    LET f == requests[s].hash  caller == requests[s].caller IN
    /\ At(s, "digest", "hashing") /\ caller # "hero"
    /\ \/ /\ Goes(s, Verification(f, f, caller))
          /\ form' = IF caller = "form" THEN [form EXCEPT !.loading = TRUE] ELSE form
       \/ Goes(s, NoRequest) /\ UNCHANGED form
    /\ UNCHANGED <<chain, route, hero, history, overtaken>>

\* The hash of the page is verified again, another one has a page of its own.
handleVerifyHash(s, h) ==
    /\ OnForm /\ ~form.loading /\ h # NULL /\ IsFree(s)
    /\ \/ /\ h = route.hash
          /\ form' = [form EXCEPT !.result = NULL, !.loading = TRUE]
          /\ Goes(s, Verification(h, NULL, "form"))
          /\ UNCHANGED route
       \/ /\ h # route.hash
          /\ form' = [form EXCEPT !.result = NULL]
          /\ Shows(s, h, NULL, requests)
    /\ UNCHANGED <<chain, hero, history, overtaken>>

\* The answer, in the words of the request.
proof(request) == [hash |-> request.hash, name |-> request.name, status |-> request.status]

addVerificationEntry(entry) ==
    history' = SubSeq(<<entry>> \o history, 1,
                      IF Len(history) < MaxEntries THEN Len(history) + 1 ELSE MaxEntries)

finished == [form EXCEPT !.loading = FALSE]

ReceiveAnswer(s) ==
    LET request == requests[s]  entry == proof(request) IN
    /\ At(s, "verify", "answered")
    /\ addVerificationEntry(entry)
    /\ form' = IF request.caller = "gone" THEN form ELSE [finished EXCEPT !.result = entry]
    /\ Goes(s, NoRequest)
    /\ UNCHANGED <<chain, route, hero, overtaken>>

ReceiveError(s) ==
    /\ At(s, "verify", "failed")
    /\ form' = IF requests[s].caller = "gone" THEN form ELSE finished
    /\ Goes(s, NoRequest)
    /\ UNCHANGED <<chain, route, hero, history, overtaken>>

clearVerificationHistory ==
    /\ route.path = "portal" /\ history # <<>>
    /\ history' = <<>>
    /\ UNCHANGED <<reads, pages, overtaken>>

-----------------------------------------------------------------------------

Gateway(A) == A /\ UNCHANGED <<pages, history, overtaken>>

Progress(s) ==
    \/ Gateway(Serve(s))
    \/ HeroHashed(s) \/ FormHashed(s) \/ ReceiveAnswer(s) \/ ReceiveError(s)

VerificationNext ==
    \/ Gateway(\E name \in Names \cup {"none"}, h \in Documents : Block(name, h))
    \/ route.path = "portal" /\ Gateway(Queries)
    \/ \E s \in Slots :
           \/ Progress(s) \/ handleVerifyFile(s)
           \/ \E h \in Documents : 
               processFile(s, h) \/ OpenLink(s, h) \/ handleContinue(s, h) \/ handleVerifyHash(s, h)
    \/ \E mode \in {"hash", "file"} : changeMode(mode)
    \/ \E typed \in BOOLEAN : handleHashChange(typed)
    \/ setHashInput \/ \E f \in Documents : setSelectedFile(f)
    \/ \E path \in {"home", "portal"} : Visit(path)
    \/ clearVerificationHistory

VerificationSpec == VerificationInit /\ [][VerificationNext]_vars

-----------------------------------------------------------------------------

Status == {"NOT_FOUND", "ACTIVE", "REVOKED"}
Proof == [hash : Hashes, name : Documents, status : Status]

\* The types of the pages and of the history.
VerificationTypeOK ==
    /\ route \in [path : {"home", "verify", "portal"}, hash : Documents]
    /\ hero \in [mode : {"hash", "file"}, selectedFile : Documents, fileDigest : Documents,
                 ready : BOOLEAN, hashing : BOOLEAN]
    /\ form \in [selectedFile : Documents,
                 result : Proof \cup {NULL}, loading : BOOLEAN]
    /\ history \in Seq(Proof) /\ Len(history) <= MaxEntries
    /\ overtaken \in BOOLEAN

Proofs == {history[i] : i \in DOMAIN history} \cup ({form.result} \ {NULL})

\* What the page shows and the device keeps as the status of a hash is a status that this
\* hash has had, whichever page the answer found.
ProofsAreTrue == \A p \in Proofs : Rank(p.status) <= Rank(StatusNow(p.hash))

\* A status shown or kept under a file's name is the status of that file, unless on the
\* landing page a file was chosen while another was hashed.
ProofsAreNamed == ~overtaken => \A p \in Proofs : p.name \in Hashes => p.name = p.hash
=============================================================================
