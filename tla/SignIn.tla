------------------------------- MODULE SignIn -------------------------------
(***************************************************************************)
(* Signing in: the application backend's nonces, sessions and CSRF tokens  *)
(* (app-backend/src/auth.js, app.js, database.js), and the tabs of one     *)
(* browser, which share its cookie and its wallet and keep everything else *)
(* to themselves: the CSRF token and the session they show (AuthContext.jsx,*)
(* api.js).  A call to the backend is cut at its awaits; its answer        *)
(* arrives whenever it arrives.  Roles and rate limits are left out.       *)
(***************************************************************************)
EXTENDS Naturals, Sequences, FiniteSets

CONSTANTS
    Tabs,
    Accounts,     \* of the wallet
    NULL,
    MaxSignIns,   \* bound on the sign-ins begun
    MaxRotations, \* bound on the CSRF tokens rotated
    MaxCalls      \* bound on the requests in flight

ASSUME SignInAssumption == {MaxSignIns, MaxRotations, MaxCalls} \subseteq Nat /\ NULL \notin Nat \cup Accounts

VARIABLES
    challenges,  \* auth_nonces: [account, used]
    sessions,    \* sessions: [account, challenge, csrf, live]
    tokens,      \* the CSRF tokens handed out
    cookie,      \* pc_session
    account,     \* the account selected in the wallet
    tab,         \* what each tab keeps in memory
    calls        \* the requests each tab has in flight

server == <<challenges, sessions, tokens>>
browser == <<cookie, account>>
vars == <<server, browser, tab, calls>>

Kinds == {"signin", "session", "logout", "reset"}

NewTab == [csrf |-> NULL, session |-> NULL]
NoCall == [step |-> "none", session |-> NULL, csrf |-> NULL, account |-> NULL, challenge |-> NULL]

Failed == [NoCall EXCEPT !.step = "failed"]

SignInInit ==
    /\ challenges = <<>> /\ sessions = <<>> /\ tokens = 0
    /\ cookie = NULL /\ account \in Accounts
    /\ tab = [t \in Tabs |-> NewTab]
    /\ calls = [t \in Tabs |-> [k \in Kinds |-> NoCall]]

-----------------------------------------------------------------------------
(* The backend's tables. *)

\* Defective variants: any token will do, a nonce that only expires, a token handed out
\* twice.
AnyToken(s, csrf) == csrf # NULL
NeverConsumed(id) == TRUE
LastToken == tokens

randomToken == tokens + 1

\* getSession.
isLive(s) == s # NULL /\ sessions[s].live

validateCsrf(s, csrf) == csrf # NULL /\ csrf = sessions[s].csrf

\* consumeNonce: known, unused, of this message and not expired.
isConsumable(id) == ~challenges[id].used

\* POST /auth/logout passes requireSession and requireCsrf, as every write does.
accepts(s, csrf) == isLive(s) /\ validateCsrf(s, csrf)

-----------------------------------------------------------------------------
(* The tab. *)

At(t, kind, step) == calls[t][kind].step = step

Goes(t, kind, call) == calls' = [calls EXCEPT ![t][kind] = call]

InFlight == {c \in Tabs \X Kinds : ~At(c[1], c[2], "none")}

HasRoom(new) ==
    /\ Cardinality(InFlight) + new <= MaxCalls
    /\ tokens - Len(sessions) + Cardinality({c \in InFlight : c[2] = "session"}) < MaxRotations

-----------------------------------------------------------------------------
(* GET /auth/session. *)

sent == [NoCall EXCEPT !.step = "sent", !.session = cookie]

\* A tab that opens or reloads forgets everything, its requests included.
Reload(t) ==
    /\ HasRoom(1)
    /\ tab' = [tab EXCEPT ![t] = NewTab]
    /\ calls' = [calls EXCEPT ![t] = [k \in Kinds |-> IF k = "session" THEN sent ELSE NoCall]]
    /\ UNCHANGED <<server, browser>>

\* An institution has been connected, and the session is asked for anew.
refresh(t) ==
    /\ HasRoom(1)
    /\ accepts(cookie, tab[t].csrf)
    /\ At(t, "session", "none") /\ Goes(t, "session", sent)
    /\ UNCHANGED <<server, browser, tab>>

ReadSession(t) ==
    LET c == calls[t]["session"] IN
    /\ c.step = "sent"
    /\ Goes(t, "session",
            IF isLive(c.session)
            THEN [c EXCEPT !.step = "authorizing", !.account = sessions[c.session].account]
            ELSE Failed)
    /\ UNCHANGED <<server, browser, tab>>

\* The answer carries a new token even if the session was revoked meanwhile.
AnswerSession(t) ==
    LET c == calls[t]["session"] IN
    /\ c.step = "authorizing"
    /\ tokens' = tokens + 1
    /\ sessions' = [sessions EXCEPT ![c.session].csrf = IF isLive(c.session) THEN randomToken ELSE @]
    /\ Goes(t, "session", [c EXCEPT !.step = "answered", !.csrf = randomToken])
    /\ UNCHANGED <<challenges, browser, tab>>

ReceiveSession(t) ==
    LET c == calls[t]["session"] IN
    /\ \/ c.step = "answered" /\ tab' = [tab EXCEPT ![t] = [csrf |-> c.csrf, session |-> c.account]]
       \/ c.step = "failed" /\ tab' = [tab EXCEPT ![t] = NewTab]
    /\ Goes(t, "session", NoCall)
    /\ UNCHANGED <<server, browser>>

-----------------------------------------------------------------------------
(* connectWalletAndSignIn. *)

signIn(t) ==
    /\ HasRoom(1)
    /\ At(t, "signin", "none")
    /\ Cardinality({u \in Tabs : At(u, "signin", "challenging")}) + Len(challenges) < MaxSignIns
    /\ Goes(t, "signin", [NoCall EXCEPT !.step = "challenging", !.account = account])
    /\ UNCHANGED <<server, browser, tab>>

\* The message is made and kept, and signed by the wallet.
createSiweChallenge(t) ==
    LET c == calls[t]["signin"] IN
    /\ c.step = "challenging"
    /\ challenges' = Append(challenges, [account |-> c.account, used |-> FALSE])
    /\ Goes(t, "signin", [c EXCEPT !.step = "verifying", !.challenge = Len(challenges) + 1])
    /\ UNCHANGED <<sessions, tokens, browser, tab>>

\* The nonce is consumed and the session created.  A client that repeats the request,
\* because it got no answer, is refused.
Verify(t) ==
    LET c == calls[t]["signin"] IN
    /\ c.step \in {"verifying", "authorizing"}
    /\ \/ /\ isConsumable(c.challenge)
          /\ challenges' = [challenges EXCEPT ![c.challenge].used = TRUE]
          /\ tokens' = tokens + 1
          /\ sessions' = Append(sessions, [account |-> c.account, challenge |-> c.challenge,
                                           csrf |-> randomToken, live |-> TRUE])
          /\ Goes(t, "signin", [c EXCEPT !.step = "authorizing", !.csrf = randomToken,
                                         !.session = Len(sessions) + 1])
       \/ /\ ~isConsumable(c.challenge)
          /\ Goes(t, "signin", Failed)
          /\ UNCHANGED server
    /\ UNCHANGED <<browser, tab>>

\* The authorization is derived, and the answer sent with the cookie.
AnswerSignIn(t) ==
    /\ At(t, "signin", "authorizing")
    /\ Goes(t, "signin", [calls[t]["signin"] EXCEPT !.step = "answered"])
    /\ UNCHANGED <<server, browser, tab>>

ReceiveSignIn(t) ==
    LET c == calls[t]["signin"] IN
    /\ \/ /\ c.step = "answered"
          /\ cookie' = c.session
          /\ tab' = [tab EXCEPT ![t] = [csrf |-> c.csrf, session |-> c.account]]
       \/ /\ c.step = "failed"
          /\ UNCHANGED <<cookie, tab>>
    /\ Goes(t, "signin", NoCall)
    /\ UNCHANGED <<server, account>>

-----------------------------------------------------------------------------
(* POST /auth/logout. *)

goodbye(t) == [sent EXCEPT !.csrf = tab[t].csrf]

logout(t) ==
    /\ tab[t].session # NULL /\ At(t, "logout", "none") /\ HasRoom(1)
    /\ Goes(t, "logout", goodbye(t))
    /\ UNCHANGED <<server, browser, tab>>

\* accountsChanged or chainChanged: the tabs that listen sign out at once and tell the
\* backend.  A tab listens if it has a provider: chosen at its last sign-in, or injected.
\* One change at a time.
ChangeAccount(a, listeners) ==
    /\ \A t \in Tabs : At(t, "reset", "none")
    /\ Cardinality(InFlight) + Cardinality(listeners) <= MaxCalls
    /\ account' = a
    /\ tab' = [t \in Tabs |-> IF t \in listeners THEN [tab[t] EXCEPT !.session = NULL] ELSE tab[t]]
    /\ calls' = [t \in Tabs |->
           IF t \in listeners THEN [calls[t] EXCEPT !["reset"] = goodbye(t)] ELSE calls[t]]
    /\ UNCHANGED <<server, cookie>>

revokeSession(t, kind) ==
    LET c == calls[t][kind] IN
    /\ kind \in {"logout", "reset"} /\ c.step = "sent"
    /\ \/ /\ accepts(c.session, c.csrf)
          /\ sessions' = [sessions EXCEPT ![c.session].live = FALSE]
          /\ Goes(t, kind, [NoCall EXCEPT !.step = "answered"])
       \/ /\ ~accepts(c.session, c.csrf)
          /\ Goes(t, kind, Failed)
          /\ UNCHANGED sessions
    /\ UNCHANGED <<challenges, tokens, browser, tab>>

\* An accepted logout clears the cookie, whosever it is by now; the token goes in any case.
ReceiveLogout(t, kind) ==
    LET c == calls[t][kind] IN
    /\ kind \in {"logout", "reset"} /\ c.step \in {"answered", "failed"}
    /\ cookie' = IF c.step = "answered" THEN NULL ELSE cookie
    /\ tab' = [tab EXCEPT ![t].csrf = NULL, ![t].session = IF kind = "logout" THEN NULL ELSE @]
    /\ Goes(t, kind, NoCall)
    /\ UNCHANGED <<server, account>>

-----------------------------------------------------------------------------

\* A network or RPC failure, a timeout, a rejected wallet prompt, an expired nonce.
CallFails(t, kind) ==
    /\ calls[t][kind].step \notin {"none", "failed"}
    /\ Goes(t, kind, Failed)
    /\ UNCHANGED <<server, browser, tab>>

Expire(s) ==
    /\ sessions[s].live
    /\ sessions' = [sessions EXCEPT ![s].live = FALSE]
    /\ UNCHANGED <<challenges, tokens, browser, tab, calls>>

Progress(t) ==
    \/ ReadSession(t) \/ AnswerSession(t) \/ ReceiveSession(t)
    \/ createSiweChallenge(t) \/ Verify(t) \/ AnswerSignIn(t) \/ ReceiveSignIn(t)
    \/ \E kind \in Kinds : revokeSession(t, kind) \/ ReceiveLogout(t, kind) \/ CallFails(t, kind)

SignInNext ==
    \/ \E t \in Tabs :
           \/ Progress(t) \/ Reload(t) \/ refresh(t) \/ signIn(t) \/ logout(t)
    \/ \E a \in Accounts, listeners \in SUBSET Tabs : ChangeAccount(a, listeners)
    \/ \E s \in DOMAIN sessions : Expire(s)

SignInSpec == SignInInit /\ [][SignInNext]_vars

-----------------------------------------------------------------------------

Call == [step : {"none", "sent", "challenging", "verifying", "authorizing",
                 "answered", "failed"},
         session : Nat \cup {NULL}, csrf : (1 .. tokens) \cup {NULL}, account : Accounts \cup {NULL},
         challenge : Nat \cup {NULL}]

\* The types of the tables, the tabs and the requests in flight.
SignInTypeOK ==
    /\ challenges \in Seq([account : Accounts, used : BOOLEAN])
    /\ sessions \in Seq([account : Accounts, challenge : Nat, csrf : 1 .. tokens, live : BOOLEAN])
    /\ tokens \in Nat
    /\ cookie \in {NULL} \cup DOMAIN sessions /\ account \in Accounts
    /\ tab \in [Tabs -> [csrf : (1 .. tokens) \cup {NULL}, session : Accounts \cup {NULL}]]
    /\ calls \in [Tabs -> [Kinds -> Call]]

\* Whatever the tabs, the cookie and late answers do to each other, a write the backend
\* accepts is made for the account the tab shows: the cookie that another tab has
\* replaced never turns a page of one account into actions of another.
ActsAsShown ==
    \A t \in Tabs :
        accepts(cookie, tab[t].csrf) /\ tab[t].session # NULL =>
            tab[t].session = sessions[cookie].account

\* A signature opens one session at most, for the account that was challenged, also
\* when its message is sent again before the first answer.
OneSessionPerSignature ==
    \A s \in DOMAIN sessions :
        /\ sessions[s].account = challenges[sessions[s].challenge].account
        /\ \A r \in DOMAIN sessions : sessions[r].challenge = sessions[s].challenge => r = s
=============================================================================
