---------------------------- MODULE SignIn_proofs ----------------------------
(***************************************************************************)
(* Theorems about SignIn, for any tabs, accounts and bounds.  The          *)
(* invariant says three things that the properties only imply: a request   *)
(* in flight names sessions and challenges that exist and the account they *)
(* are of (CallFacts); a session's challenge is spent (SessionsSigned);    *)
(* and a CSRF token is of one account wherever it is kept, in the table,   *)
(* in a tab or in an answer under way (TokensOwned), because each is new   *)
(* when it is handed out.                                                  *)
(***************************************************************************)
EXTENDS SignIn, TLAPS

CallFacts(ss, cs, kind, c) ==
    /\ c.session \in DOMAIN ss \cup {NULL}
    /\ c.challenge # NULL => /\ c.challenge \in DOMAIN cs
                             /\ c.account = cs[c.challenge].account
    /\ kind # "signin" => c.challenge = NULL
    /\ kind = "signin" /\ c.step = "challenging" => c.account \in Accounts
    /\ kind = "signin" /\ c.step \in {"verifying", "authorizing"} => c.challenge # NULL
    /\ kind = "session" /\ c.step = "authorizing" =>
           /\ c.session # NULL
           /\ c.account = ss[c.session].account

Facts(kind, c) == CallFacts(sessions, challenges, kind, c)

CallsCoherent == \A t \in Tabs, kind \in Kinds : Facts(kind, calls[t][kind])

SessionsSigned ==
    \A s \in DOMAIN sessions :
        /\ sessions[s].challenge \in DOMAIN challenges
        /\ challenges[sessions[s].challenge].used

ShownBySession(k, a) ==
    \E s \in DOMAIN sessions : sessions[s].csrf = k /\ sessions[s].account = a
ShownByTab(k, a) == \E t \in Tabs : tab[t].csrf = k /\ tab[t].session = a
ShownByCall(k, a) ==
    \E t \in Tabs, kind \in Kinds : calls[t][kind].csrf = k /\ calls[t][kind].account = a

\* Token k is kept together with account a.
Shown(k, a) == ShownBySession(k, a) \/ ShownByTab(k, a) \/ ShownByCall(k, a)

TokensOwned == \A k \in 1 .. tokens : \A a, b \in Accounts : Shown(k, a) /\ Shown(k, b) => a = b

TableInv == SignInTypeOK /\ CallsCoherent /\ SessionsSigned /\ OneSessionPerSignature

-----------------------------------------------------------------------------
(* Types. *)

LEMMA CallRecords == NoCall \in Call /\ Failed \in Call
  BY DEF NoCall, Failed, Call

LEMMA CallFieldTypes ==
  ASSUME NEW c \in Call
  PROVE  /\ c.session \in Nat \cup {NULL} /\ c.csrf \in (1 .. tokens) \cup {NULL}
         /\ c.account \in Accounts \cup {NULL} /\ c.challenge \in Nat \cup {NULL}
  BY DEF Call

LEMMA TableFromRows ==
  ASSUME NEW Row, NEW n \in Nat, NEW table \in [1 .. n -> Row]
  PROVE  table \in Seq(Row)
  OBVIOUS

LEMMA SessionFieldTypes ==
  ASSUME SignInTypeOK, NEW s \in DOMAIN sessions
  PROVE  /\ sessions[s] \in [account : Accounts, challenge : Nat, csrf : 1 .. tokens, live : BOOLEAN]
         /\ sessions[s].account \in Accounts /\ sessions[s].csrf \in 1 .. tokens
         /\ s \in Nat
  <1> DEFINE Session == [account : Accounts, challenge : Nat, csrf : 1 .. tokens, live : BOOLEAN]
  <1>1. sessions \in Seq(Session)
    BY DEF SignInTypeOK
  <1>2. sessions[s] \in Session /\ s \in Nat
    <2> HIDE DEF Session
    <2> QED BY <1>1
  <1> QED BY <1>2

LEMMA ChallengeFieldTypes ==
  ASSUME SignInTypeOK, NEW n \in DOMAIN challenges
  PROVE  challenges[n] \in [account : Accounts, used : BOOLEAN] /\ challenges[n].account \in Accounts
  <1> DEFINE Challenge == [account : Accounts, used : BOOLEAN]
  <1>1. challenges \in Seq(Challenge)
    BY DEF SignInTypeOK
  <1>2. challenges[n] \in Challenge
    <2> HIDE DEF Challenge
    <2> QED BY <1>1
  <1> QED BY <1>2

\* More tokens make the types of the calls and of the tabs larger.
LEMMA CallGrows ==
  ASSUME tokens \in Nat, tokens' \in Nat, tokens <= tokens'
  PROVE  Call \subseteq Call'
  <1>1. 1 .. tokens \subseteq 1 .. tokens'
    OBVIOUS
  <1> QED BY <1>1 DEF Call

LEMMA CallsAfter ==
  ASSUME calls \in [Tabs -> [Kinds -> Call]], Call \subseteq Call',
         NEW t \in Tabs, NEW kind \in Kinds, NEW c \in Call', Goes(t, kind, c)
  PROVE  /\ calls' \in [Tabs -> [Kinds -> Call']]
         /\ \A u \in Tabs, k \in Kinds :
                calls'[u][k] = IF u = t /\ k = kind THEN c ELSE calls[u][k]
  BY DEF Goes

\* A step that only moves one request on.
LEMMA CallMovesTypes ==
  ASSUME TableInv, NEW t \in Tabs, NEW kind \in Kinds, NEW c \in Call, Facts(kind, c),
         Goes(t, kind, c), UNCHANGED <<server, browser, tab>>
  PROVE  TableInv'
  <1> USE DEF server, browser
  <1>1. calls' \in [Tabs -> [Kinds -> Call]] /\ Call' = Call
    BY DEF TableInv, SignInTypeOK, Goes, Call
  <1>2. SignInTypeOK'
    BY <1>1 DEF TableInv, SignInTypeOK
  <1>3. CallsCoherent'
    BY DEF TableInv, SignInTypeOK, CallsCoherent, Facts, CallFacts, Goes
  <1>4. SessionsSigned' /\ OneSessionPerSignature'
    BY DEF TableInv, SessionsSigned, OneSessionPerSignature
  <1> QED BY <1>2, <1>3, <1>4 DEF TableInv
-----------------------------------------------------------------------------
(* The tables, the requests in flight and the types. *)

LEMMA NewCallsTyped ==
  ASSUME TableInv
  PROVE  /\ sent \in Call
         /\ \A kind \in Kinds : Facts(kind, sent) /\ Facts(kind, NoCall) /\ Facts(kind, Failed)
         /\ \A t \in Tabs : /\ goodbye(t) \in Call
                            /\ \A kind \in Kinds : Facts(kind, goodbye(t))
         /\ \A t \in Tabs, kind \in Kinds : /\ calls[t][kind] \in Call
                                            /\ Facts(kind, calls[t][kind])
  <1> USE SignInAssumption DEF TableInv, SignInTypeOK, CallsCoherent
  <1>1. cookie \in Nat \cup {NULL}
    OBVIOUS
  <1>2. sent \in Call /\ \A t \in Tabs : goodbye(t) \in Call
    BY <1>1 DEF sent, goodbye, NoCall, Call
  <1>3. \A kind \in Kinds : Facts(kind, sent) /\ Facts(kind, NoCall) /\ Facts(kind, Failed)
    BY DEF sent, NoCall, Failed, Facts, CallFacts
  <1>4. \A t \in Tabs, kind \in Kinds : Facts(kind, goodbye(t))
    BY DEF goodbye, sent, NoCall, Facts, CallFacts
  <1> QED BY <1>2, <1>3, <1>4

LEMMA ReloadKeepsTables ==
  ASSUME TableInv, NEW t \in Tabs, Reload(t)
  PROVE  TableInv'
  <1> USE DEF Reload, server, browser
  <1>1. sent \in Call /\ NoCall \in Call /\ Call' = Call
    BY NewCallsTyped, CallRecords DEF Call
  <1>2. calls' \in [Tabs -> [Kinds -> Call]]
    BY <1>1 DEF TableInv, SignInTypeOK
  <1>3. tab' \in [Tabs -> [csrf : (1 .. tokens) \cup {NULL}, session : Accounts \cup {NULL}]]
    BY DEF TableInv, SignInTypeOK, NewTab
  <1>4. SignInTypeOK'
    BY <1>1, <1>2, <1>3 DEF TableInv, SignInTypeOK
  <1>5. \A u \in Tabs, kind \in Kinds : Facts(kind, calls'[u][kind])
    BY NewCallsTyped DEF TableInv, SignInTypeOK, CallsCoherent
  <1>6. CallsCoherent'
    BY <1>5 DEF CallsCoherent, Facts, CallFacts
  <1>7. SessionsSigned' /\ OneSessionPerSignature'
    BY DEF TableInv, SessionsSigned, OneSessionPerSignature
  <1> QED BY <1>4, <1>6, <1>7 DEF TableInv

LEMMA ReadSessionKeepsTables ==
  ASSUME TableInv, NEW t \in Tabs, ReadSession(t)
  PROVE  TableInv'
  <1> DEFINE c == calls[t]["session"]
             read == [c EXCEPT !.step = "authorizing", !.account = sessions[c.session].account]
  <1>1. "session" \in Kinds /\ c \in Call /\ Facts("session", c)
    BY NewCallsTyped DEF Kinds
  <1>2. CASE isLive(c.session)
    <2>1. c.session \in DOMAIN sessions
      BY <1>1, <1>2 DEF isLive, Facts, CallFacts
    <2>4. sessions[c.session].account \in Accounts
      BY <2>1, SessionFieldTypes DEF TableInv
    <2>2. read \in Call
      BY <1>1, <2>4 DEF Call
    <2>3. Facts("session", read)
      <3>1. /\ read.session = c.session /\ read.challenge = c.challenge
            /\ read.step = "authorizing" /\ read.account = sessions[c.session].account
        BY <1>1 DEF Call
      <3>2. c.session # NULL
        BY <1>2 DEF isLive
      <3> QED BY <1>1, <2>1, <3>1, <3>2 DEF Facts, CallFacts
    <2> QED BY <1>1, <1>2, <2>2, <2>3, CallMovesTypes DEF ReadSession
  <1>3. CASE ~isLive(c.session)
    BY <1>1, <1>3, NewCallsTyped, CallRecords, CallMovesTypes DEF ReadSession
  <1> QED BY <1>2, <1>3
\* Sessions and challenges keep their accounts while the tables grow.
TablesGrow ==
    /\ DOMAIN sessions \subseteq DOMAIN sessions'
    /\ DOMAIN challenges \subseteq DOMAIN challenges'
    /\ \A s \in DOMAIN sessions : sessions'[s].account = sessions[s].account
    /\ \A n \in DOMAIN challenges : challenges'[n].account = challenges[n].account

LEMMA FactsKept ==
  ASSUME TablesGrow, NEW kind \in Kinds, NEW c, Facts(kind, c)
  PROVE  CallFacts(sessions', challenges', kind, c)
  BY DEF TablesGrow, Facts, CallFacts

\* The calls are coherent after a step that moves one of them and grows the tables.
LEMMA CoherentAfter ==
  ASSUME CallsCoherent, TablesGrow, NEW t \in Tabs, NEW kind \in Kinds, NEW c,
         CallFacts(sessions', challenges', kind, c),
         \A u \in Tabs, k \in Kinds : calls'[u][k] = IF u = t /\ k = kind THEN c ELSE calls[u][k]
  PROVE  CallsCoherent'
  <1> SUFFICES ASSUME NEW u \in Tabs, NEW k \in Kinds
               PROVE  CallFacts(sessions', challenges', k, calls'[u][k])
    BY DEF CallsCoherent, Facts
  <1>1. CASE u = t /\ k = kind
    BY <1>1
  <1>2. CASE ~(u = t /\ k = kind)
    BY <1>2, FactsKept DEF CallsCoherent
  <1> QED BY <1>1, <1>2

LEMMA AnswerSessionKeepsTables ==
  ASSUME TableInv, NEW t \in Tabs, AnswerSession(t)
  PROVE  TableInv'
  <1> DEFINE c == calls[t]["session"]
             answered == [c EXCEPT !.step = "answered", !.csrf = randomToken]
             row == [account : Accounts, challenge : Nat, csrf : 1 .. tokens', live : BOOLEAN]
  <1>1. "session" \in Kinds /\ c \in Call /\ Facts("session", c)
    BY NewCallsTyped DEF Kinds
  <1>2. tokens \in Nat /\ tokens' = tokens + 1 /\ randomToken = tokens' /\ 1 .. tokens \subseteq 1 .. tokens'
    BY DEF AnswerSession, TableInv, SignInTypeOK, randomToken
  <1>3. Call \subseteq Call' /\ answered \in Call'
    <2>1. Call \subseteq Call'
      BY <1>2, CallGrows
    <2>2. c \in Call' /\ randomToken \in 1 .. tokens'
      BY <1>1, <1>2, <2>1
    <2> QED BY <2>1, <2>2 DEF Call
  <1>4. /\ calls' \in [Tabs -> [Kinds -> Call']]
        /\ \A u \in Tabs, k \in Kinds :
               calls'[u][k] = IF u = t /\ k = "session" THEN answered ELSE calls[u][k]
    <2>1. calls \in [Tabs -> [Kinds -> Call]] /\ Goes(t, "session", answered)
      BY DEF AnswerSession, TableInv, SignInTypeOK
    <2> HIDE DEF answered
    <2> QED BY <1>1, <1>3, <2>1, CallsAfter
  <1>5. /\ c.session \in DOMAIN sessions
        /\ Len(sessions') = Len(sessions) /\ DOMAIN sessions' = DOMAIN sessions
        /\ \A s \in DOMAIN sessions :
               /\ sessions'[s] \in row
               /\ sessions'[s].account = sessions[s].account
               /\ sessions'[s].challenge = sessions[s].challenge
    <2>1. c.session \in DOMAIN sessions
      BY <1>1 DEF AnswerSession, Facts, CallFacts
    <2>2. \A s \in DOMAIN sessions : sessions'[s] =
              IF s = c.session
              THEN [sessions[s] EXCEPT !.csrf = IF isLive(s) THEN randomToken ELSE @]
              ELSE sessions[s]
      BY <2>1 DEF AnswerSession
    <2>3. \A s \in DOMAIN sessions : sessions[s] \in row
      BY <1>2, SessionFieldTypes DEF TableInv
    <2>4. Len(sessions') = Len(sessions) /\ DOMAIN sessions' = DOMAIN sessions
      BY DEF AnswerSession, TableInv, SignInTypeOK
    <2> QED BY <1>2, <2>1, <2>2, <2>3, <2>4
  <1>6. sessions' \in Seq(row)
    <2>1. sessions' \in [1 .. Len(sessions) -> row] /\ Len(sessions) \in Nat
      <3> HIDE DEF row
      <3>1. DOMAIN sessions = 1 .. Len(sessions) /\ Len(sessions) \in Nat
        BY DEF TableInv, SignInTypeOK
      <3>2. sessions' = [s \in DOMAIN sessions |-> sessions'[s]]
        BY DEF AnswerSession
      <3> QED BY <1>5, <3>1, <3>2
    <2> HIDE DEF row
    <2> QED BY <2>1
  <1>7. SignInTypeOK'
    <2>1. /\ tab \in [Tabs -> [csrf : (1 .. tokens') \cup {NULL}, session : Accounts \cup {NULL}]]
          /\ challenges \in Seq([account : Accounts, used : BOOLEAN])
          /\ cookie \in {NULL} \cup DOMAIN sessions /\ account \in Accounts
      BY <1>2 DEF TableInv, SignInTypeOK
    <2>2. UNCHANGED <<challenges, cookie, account, tab>>
      BY DEF AnswerSession, browser
    <2> HIDE DEF row, answered
    <2>3. sessions' \in Seq([account : Accounts, challenge : Nat, csrf : 1 .. tokens', live : BOOLEAN])
      BY <1>6 DEF row
    <2> QED BY <1>2, <1>4, <1>5, <2>1, <2>2, <2>3 DEF SignInTypeOK
  <1>8. CallsCoherent'
    <2>1. /\ answered.session = c.session /\ answered.challenge = c.challenge
          /\ answered.account = c.account /\ answered.step = "answered"
      BY <1>1 DEF Call
    <2>2. TablesGrow /\ CallsCoherent
      BY <1>5 DEF AnswerSession, TableInv, TablesGrow
    <2> HIDE DEF answered
    <2>3. CallFacts(sessions', challenges', "session", answered)
      BY <1>1, <1>5, <2>1, <2>2 DEF TablesGrow, Facts, CallFacts
    <2> QED BY <1>1, <1>4, <2>2, <2>3, CoherentAfter
  <1>9. SessionsSigned'
    BY <1>5 DEF AnswerSession, TableInv, SessionsSigned
  <1>10. OneSessionPerSignature'
    BY <1>5 DEF AnswerSession, TableInv, OneSessionPerSignature
  <1> QED BY <1>7, <1>8, <1>9, <1>10 DEF TableInv
\* A session that ends keeps its account, its challenge and its token.
LEMMA SessionEnds ==
  ASSUME SignInTypeOK, NEW n \in DOMAIN sessions, UNCHANGED challenges,
         sessions' = [sessions EXCEPT ![n].live = FALSE]
  PROVE  /\ sessions' \in Seq([account : Accounts, challenge : Nat, csrf : 1 .. tokens, live : BOOLEAN])
         /\ DOMAIN sessions' = DOMAIN sessions
         /\ TablesGrow
         /\ \A s \in DOMAIN sessions : /\ sessions'[s].account = sessions[s].account
                                       /\ sessions'[s].challenge = sessions[s].challenge
                                       /\ sessions'[s].csrf = sessions[s].csrf
  <1> DEFINE row == [account : Accounts, challenge : Nat, csrf : 1 .. tokens, live : BOOLEAN]
  <1>1. \A s \in DOMAIN sessions : sessions'[s] =
            IF s = n THEN [sessions[s] EXCEPT !.live = FALSE] ELSE sessions[s]
    OBVIOUS
  <1>2. \A s \in DOMAIN sessions : sessions[s] \in row
    BY SessionFieldTypes
  <1>3. DOMAIN sessions' = DOMAIN sessions
    OBVIOUS
  <1>4. \A s \in DOMAIN sessions : /\ sessions'[s] \in row
                                   /\ sessions'[s].account = sessions[s].account
                                   /\ sessions'[s].challenge = sessions[s].challenge
                                   /\ sessions'[s].csrf = sessions[s].csrf
    BY <1>1, <1>2
  <1> HIDE DEF row
  <1>5. sessions' \in Seq(row)
    <2>1. DOMAIN sessions = 1 .. Len(sessions) /\ Len(sessions) \in Nat
      BY DEF SignInTypeOK
    <2>2. sessions' = [s \in DOMAIN sessions |-> sessions'[s]]
      OBVIOUS
    <2>3. sessions' \in [1 .. Len(sessions) -> row] /\ Len(sessions) \in Nat
      BY <1>4, <2>1, <2>2
    <2> QED BY <2>3, TableFromRows
  <1> QED BY <1>3, <1>4, <1>5 DEF row, TablesGrow

\* A step that ends at most a session, moves one call and leaves the tabs their types.
LEMMA EndingKeepsTables ==
  ASSUME TableInv, NEW t \in Tabs, NEW kind \in Kinds, NEW c \in Call,
         CallFacts(sessions', challenges', kind, c), Goes(t, kind, c),
         sessions' \in Seq([account : Accounts, challenge : Nat, csrf : 1 .. tokens, live : BOOLEAN]),
         DOMAIN sessions' = DOMAIN sessions, TablesGrow,
         \A s \in DOMAIN sessions : sessions'[s].challenge = sessions[s].challenge,
         UNCHANGED <<challenges, tokens, account>>, cookie' \in {NULL} \cup DOMAIN sessions,
         tab' \in [Tabs -> [csrf : (1 .. tokens) \cup {NULL}, session : Accounts \cup {NULL}]]
  PROVE  TableInv'
  <1>1. Call' = Call
    BY DEF Call
  <1>2. /\ calls' \in [Tabs -> [Kinds -> Call']]
        /\ \A u \in Tabs, k \in Kinds :
               calls'[u][k] = IF u = t /\ k = kind THEN c ELSE calls[u][k]
    BY <1>1, CallsAfter DEF TableInv, SignInTypeOK
  <1>3. SignInTypeOK'
    BY <1>2 DEF TableInv, SignInTypeOK
  <1>4. CallsCoherent'
    <2>1. CallsCoherent
      BY DEF TableInv
    <2>2. \A u \in Tabs, k \in Kinds :
              calls'[u][k] = IF u = t /\ k = kind THEN c ELSE calls[u][k]
      BY <1>2
    <2> QED BY <2>1, <2>2, CoherentAfter
  <1>5. SessionsSigned' /\ OneSessionPerSignature'
    BY DEF TableInv, SessionsSigned, OneSessionPerSignature, TablesGrow
  <1> QED BY <1>3, <1>4, <1>5 DEF TableInv

\* A step that leaves the tables alone.
LEMMA BrowserKeepsTables ==
  ASSUME TableInv, NEW t \in Tabs, NEW kind \in Kinds, NEW c \in Call,
         Facts(kind, c), Goes(t, kind, c),
         UNCHANGED <<server, account>>, cookie' \in {NULL} \cup DOMAIN sessions,
         tab' \in [Tabs -> [csrf : (1 .. tokens) \cup {NULL}, session : Accounts \cup {NULL}]]
  PROVE  TableInv'
  <1>1. UNCHANGED <<sessions, challenges, tokens>>
    BY DEF server
  <1>2. TablesGrow /\ CallFacts(sessions', challenges', kind, c)
    BY <1>1 DEF TablesGrow, Facts
  <1>3. sessions' \in Seq([account : Accounts, challenge : Nat, csrf : 1 .. tokens, live : BOOLEAN])
    BY <1>1 DEF TableInv, SignInTypeOK
  <1> QED BY <1>1, <1>2, <1>3, EndingKeepsTables

LEMMA ReceiveKeepsTables ==
  ASSUME TableInv, NEW t \in Tabs,
         \/ ReceiveSession(t)
         \/ ReceiveSignIn(t)
         \/ \E kind \in Kinds : ReceiveLogout(t, kind)
  PROVE  TableInv'
  <1> DEFINE TabTypes == [csrf : (1 .. tokens) \cup {NULL}, session : Accounts \cup {NULL}]
  <1>1. /\ NoCall \in Call
        /\ \A kind \in Kinds : Facts(kind, NoCall)
        /\ \A kind \in Kinds : calls[t][kind] \in Call /\ Facts(kind, calls[t][kind])
        /\ "session" \in Kinds /\ "signin" \in Kinds
    BY NewCallsTyped, CallRecords DEF Kinds
  <1>2. tab \in [Tabs -> TabTypes] /\ NewTab \in TabTypes /\ cookie \in {NULL} \cup DOMAIN sessions
    BY DEF TableInv, SignInTypeOK, NewTab
  <1>3. CASE ReceiveSession(t)
    <2>1. [csrf |-> calls[t]["session"].csrf, session |-> calls[t]["session"].account] \in TabTypes
      BY <1>1, CallFieldTypes
    <2>2. tab' \in [Tabs -> TabTypes]
      <3> HIDE DEF TabTypes
      <3> QED BY <1>2, <1>3, <2>1 DEF ReceiveSession
    <2>3. UNCHANGED <<server, account>> /\ cookie' = cookie /\ Goes(t, "session", NoCall)
      BY <1>3 DEF ReceiveSession, browser
    <2> QED BY <1>1, <1>2, <2>2, <2>3, BrowserKeepsTables
  <1>4. CASE ReceiveSignIn(t)
    <2>1. [csrf |-> calls[t]["signin"].csrf, session |-> calls[t]["signin"].account] \in TabTypes
      BY <1>1, CallFieldTypes
    <2>2. tab' \in [Tabs -> TabTypes]
      <3> HIDE DEF TabTypes
      <3> QED BY <1>2, <1>4, <2>1 DEF ReceiveSignIn
    <2>3. UNCHANGED <<server, account>> /\ Goes(t, "signin", NoCall)
      BY <1>4 DEF ReceiveSignIn
    <2>4. cookie' \in {NULL} \cup DOMAIN sessions
      BY <1>1, <1>2, <1>4 DEF ReceiveSignIn, Facts, CallFacts
    <2> QED BY <1>1, <2>2, <2>3, <2>4, BrowserKeepsTables
  <1>5. ASSUME NEW kind \in Kinds, ReceiveLogout(t, kind)
        PROVE  TableInv'
    <2>1. tab' \in [Tabs -> TabTypes]
      BY <1>2, <1>5 DEF ReceiveLogout
    <2>2. UNCHANGED <<server, account>> /\ Goes(t, kind, NoCall)
      BY <1>5 DEF ReceiveLogout
    <2>3. cookie' \in {NULL} \cup DOMAIN sessions
      BY <1>2, <1>5 DEF ReceiveLogout
    <2> QED BY <1>1, <2>1, <2>2, <2>3, BrowserKeepsTables
  <1> QED BY <1>3, <1>4, <1>5
LEMMA ChallengeKeepsTables ==
  ASSUME TableInv, NEW t \in Tabs, createSiweChallenge(t)
  PROVE  TableInv'
  <1> DEFINE c == calls[t]["signin"]
             n == Len(challenges) + 1
             next == [c EXCEPT !.step = "verifying", !.challenge = n]
             Challenge == [account : Accounts, used : BOOLEAN]
             new == [account |-> c.account, used |-> FALSE]
  <1>1. /\ "signin" \in Kinds /\ c \in Call /\ Facts("signin", c)
        /\ c.account \in Accounts /\ c.step = "challenging"
    BY NewCallsTyped DEF Kinds, createSiweChallenge, Facts, CallFacts
  <1>2. /\ challenges \in Seq(Challenge) /\ Len(challenges) \in Nat
        /\ challenges' = Append(challenges, new) /\ new \in Challenge
    BY <1>1 DEF createSiweChallenge, TableInv, SignInTypeOK
  <1>3. /\ challenges' \in Seq(Challenge) /\ DOMAIN challenges' = 1 .. n
        /\ DOMAIN challenges = 1 .. Len(challenges)
        /\ \A i \in DOMAIN challenges : challenges'[i] = challenges[i]
        /\ challenges'[n] = new
    <2> HIDE DEF Challenge, new
    <2> QED BY <1>2
  <1>4. UNCHANGED <<sessions, tokens, cookie, account, tab>> /\ Call' = Call
    BY DEF createSiweChallenge, browser, Call
  <1>5. next \in Call
    <2>1. n \in Nat
      BY <1>2
    <2> HIDE DEF n
    <2> QED BY <1>1, <2>1 DEF Call
  <1>6. /\ next.session = c.session /\ next.challenge = n /\ next.account = c.account
        /\ next.step = "verifying"
    BY <1>1 DEF Call
  <1>7. TablesGrow
    BY <1>2, <1>3, <1>4 DEF TablesGrow
  <1>8. CallFacts(sessions', challenges', "signin", next)
    <2> HIDE DEF next
    <2> QED BY <1>1, <1>2, <1>3, <1>4, <1>6, SignInAssumption DEF Facts, CallFacts
  <1>9. /\ calls' \in [Tabs -> [Kinds -> Call']]
        /\ \A u \in Tabs, k \in Kinds :
               calls'[u][k] = IF u = t /\ k = "signin" THEN next ELSE calls[u][k]
    <2>1. calls \in [Tabs -> [Kinds -> Call]] /\ Goes(t, "signin", next)
      BY DEF createSiweChallenge, TableInv, SignInTypeOK
    <2> HIDE DEF next
    <2> QED BY <1>1, <1>4, <1>5, <2>1, CallsAfter
  <1>10. SignInTypeOK'
    BY <1>3, <1>4, <1>9 DEF TableInv, SignInTypeOK
  <1>11. CallsCoherent'
    <2>1. CallsCoherent
      BY DEF TableInv
    <2> HIDE DEF next
    <2> QED BY <1>1, <1>7, <1>8, <1>9, <2>1, CoherentAfter
  <1>12. SessionsSigned'
    BY <1>2, <1>3, <1>4 DEF TableInv, SessionsSigned
  <1>13. OneSessionPerSignature'
    BY <1>3, <1>4 DEF TableInv, SessionsSigned, OneSessionPerSignature
  <1> QED BY <1>10, <1>11, <1>12, <1>13 DEF TableInv

LEMMA VerifyKeepsTables ==
  ASSUME TableInv, NEW t \in Tabs, Verify(t)
  PROVE  TableInv'
  <1> DEFINE c == calls[t]["signin"]
             n == Len(sessions) + 1
             Session(top) == [account : Accounts, challenge : Nat, csrf : 1 .. top, live : BOOLEAN]
             new == [account |-> c.account, challenge |-> c.challenge, csrf |-> randomToken, live |-> TRUE]
             next == [c EXCEPT !.step = "authorizing", !.csrf = randomToken, !.session = n]
  <1>1. /\ "signin" \in Kinds /\ c \in Call /\ Facts("signin", c)
        /\ c.challenge # NULL /\ c.step \in {"verifying", "authorizing"}
    BY NewCallsTyped DEF Kinds, Verify, Facts, CallFacts
  <1>2. /\ c.challenge \in DOMAIN challenges /\ c.account = challenges[c.challenge].account
        /\ c.account \in Accounts /\ c.challenge \in Nat
    <2>1. c.challenge \in DOMAIN challenges /\ c.account = challenges[c.challenge].account
      BY <1>1 DEF Facts, CallFacts
    <2>2. DOMAIN challenges \subseteq Nat
      BY DEF TableInv, SignInTypeOK
    <2> QED BY <2>1, <2>2, ChallengeFieldTypes DEF TableInv
  <1>3. CASE ~isConsumable(c.challenge)
    <2>1. Goes(t, "signin", Failed) /\ UNCHANGED <<server, browser, tab>>
      BY <1>3 DEF Verify
    <2> QED BY <1>1, <2>1, NewCallsTyped, CallRecords, CallMovesTypes
  <1>4. CASE isConsumable(c.challenge)
    <2>1. /\ challenges' = [challenges EXCEPT ![c.challenge].used = TRUE]
          /\ tokens' = tokens + 1 /\ sessions' = Append(sessions, new)
          /\ Goes(t, "signin", next)
          /\ UNCHANGED <<cookie, account, tab>>
      BY <1>4 DEF Verify, browser
    <2>2. /\ tokens \in Nat /\ tokens' = tokens + 1 /\ randomToken \in 1 .. tokens'
          /\ 1 .. tokens \subseteq 1 .. tokens' /\ Len(sessions) \in Nat
          /\ DOMAIN sessions = 1 .. Len(sessions)
      BY <2>1 DEF TableInv, SignInTypeOK, randomToken
    <2>3. /\ challenges' \in Seq([account : Accounts, used : BOOLEAN])
          /\ DOMAIN challenges' = DOMAIN challenges
          /\ \A i \in DOMAIN challenges : challenges'[i].account = challenges[i].account
          /\ challenges'[c.challenge].used
          /\ \A i \in DOMAIN challenges : challenges[i].used => challenges'[i].used
      <3> DEFINE Challenge == [account : Accounts, used : BOOLEAN]
      <3>1. \A i \in DOMAIN challenges : challenges[i] \in Challenge
        BY ChallengeFieldTypes DEF TableInv
      <3>2. /\ DOMAIN challenges' = DOMAIN challenges
            /\ \A i \in DOMAIN challenges : challenges'[i] =
                   IF i = c.challenge THEN [challenges[i] EXCEPT !.used = TRUE] ELSE challenges[i]
        BY <1>2, <2>1
      <3>3. \A i \in DOMAIN challenges : challenges'[i] \in Challenge
        BY <3>1, <3>2
      <3>4. /\ \A i \in DOMAIN challenges : challenges'[i].account = challenges[i].account
            /\ \A i \in DOMAIN challenges : challenges[i].used => challenges'[i].used
            /\ challenges'[c.challenge].used
        BY <1>2, <3>1, <3>2
      <3>5. Len(challenges) \in Nat /\ DOMAIN challenges = 1 .. Len(challenges)
        BY DEF TableInv, SignInTypeOK
      <3>6. challenges' = [i \in DOMAIN challenges |-> challenges'[i]]
        BY <2>1
      <3> HIDE DEF Challenge
      <3>7. challenges' \in [1 .. Len(challenges) -> Challenge]
        BY <3>3, <3>5, <3>6
      <3>8. challenges' \in Seq(Challenge)
        BY <3>5, <3>7, TableFromRows
      <3>9. DOMAIN challenges' = DOMAIN challenges
        BY <3>2
      <3> HIDE DEF c
      <3> QED BY <3>4, <3>8, <3>9 DEF Challenge
    <2>4. /\ sessions' \in Seq(Session(tokens')) /\ DOMAIN sessions' = 1 .. n
          /\ \A s \in DOMAIN sessions : sessions'[s] = sessions[s]
          /\ sessions'[n] = new
      <3>1. /\ \A s \in DOMAIN sessions : sessions[s] \in Session(tokens')
            /\ new \in Session(tokens')
        BY <1>2, <2>2, SessionFieldTypes DEF TableInv
      <3> HIDE DEF Session, new
      <3>2. sessions = [s \in 1 .. Len(sessions) |-> sessions[s]]
        BY <2>2 DEF TableInv, SignInTypeOK
      <3>3. sessions \in [1 .. Len(sessions) -> Session(tokens')]
        BY <2>2, <3>1, <3>2
      <3>4. sessions \in Seq(Session(tokens'))
        BY <2>2, <3>3, TableFromRows
      <3> QED BY <2>1, <2>2, <3>1, <3>4
    <2>5. Call \subseteq Call' /\ next \in Call'
      <3>1. Call \subseteq Call'
        BY <2>2, CallGrows
      <3>2. c \in Call'
        BY <1>1, <3>1
      <3>3. n \in Nat /\ randomToken \in 1 .. tokens'
        BY <2>2
      <3> HIDE DEF n
      <3> QED BY <3>1, <3>2, <3>3 DEF Call
    <2>6. /\ next.session = n /\ next.challenge = c.challenge /\ next.account = c.account
          /\ next.step = "authorizing"
      BY <1>1 DEF Call
    <2>7. TablesGrow
      BY <2>2, <2>3, <2>4 DEF TablesGrow
    <2>8. CallFacts(sessions', challenges', "signin", next)
      <3>1. n \in DOMAIN sessions'
        BY <2>2, <2>4
      <3> HIDE DEF next
      <3> QED BY <1>1, <1>2, <2>3, <2>6, <3>1 DEF CallFacts
    <2>9. /\ calls' \in [Tabs -> [Kinds -> Call']]
          /\ \A u \in Tabs, k \in Kinds :
                 calls'[u][k] = IF u = t /\ k = "signin" THEN next ELSE calls[u][k]
      <3>1. calls \in [Tabs -> [Kinds -> Call]]
        BY DEF TableInv, SignInTypeOK
      <3> HIDE DEF next
      <3> QED BY <1>1, <2>1, <2>5, <3>1, CallsAfter
    <2>10. SignInTypeOK'
      <3>1. /\ tab' \in [Tabs -> [csrf : (1 .. tokens') \cup {NULL}, session : Accounts \cup {NULL}]]
            /\ cookie' \in {NULL} \cup DOMAIN sessions' /\ account' \in Accounts
        BY <2>1, <2>2, <2>4 DEF TableInv, SignInTypeOK
      <3> HIDE DEF next, new
      <3> QED BY <2>2, <2>3, <2>4, <2>9, <3>1 DEF SignInTypeOK
    <2>11. CallsCoherent'
      <3>1. CallsCoherent
        BY DEF TableInv
      <3> HIDE DEF next
      <3> QED BY <1>1, <2>7, <2>8, <2>9, <3>1, CoherentAfter
    <2>12. SessionsSigned'
      <3>1. \A s \in DOMAIN sessions' : s \in DOMAIN sessions \/ s = n
        BY <2>2, <2>4
      <3>2. \A s \in DOMAIN sessions : /\ sessions'[s].challenge \in DOMAIN challenges'
                                       /\ challenges'[sessions'[s].challenge].used
        BY <2>3, <2>4 DEF TableInv, SessionsSigned
      <3>3. sessions'[n].challenge = c.challenge
        BY <2>4
      <3> HIDE DEF n, c
      <3> QED BY <1>2, <2>3, <3>1, <3>2, <3>3 DEF SessionsSigned
    <2>13. OneSessionPerSignature'
      <3>1. \A s \in DOMAIN sessions : sessions[s].challenge # c.challenge
        BY <1>2, <1>4 DEF TableInv, SessionsSigned, isConsumable
      <3>2. \A s \in DOMAIN sessions' : s \in DOMAIN sessions \/ s = n
        BY <2>2, <2>4
      <3>3. sessions'[n].challenge = c.challenge /\ sessions'[n].account = c.account
        BY <2>4
      <3>4. \A s \in DOMAIN sessions' :
                sessions'[s].account = challenges'[sessions'[s].challenge].account
        <4>1. \A s \in DOMAIN sessions :
                  sessions'[s].account = challenges'[sessions'[s].challenge].account
          BY <2>3, <2>4 DEF TableInv, SessionsSigned, OneSessionPerSignature
        <4> HIDE DEF n, c
        <4> QED BY <1>2, <2>3, <3>2, <3>3, <4>1
      <3>5. \A s, r \in DOMAIN sessions' : sessions'[r].challenge = sessions'[s].challenge => r = s
        BY <2>4, <3>1, <3>2, <3>3 DEF TableInv, OneSessionPerSignature
      <3> QED BY <3>4, <3>5 DEF OneSessionPerSignature
    <2> QED BY <2>10, <2>11, <2>12, <2>13 DEF TableInv
  <1> QED BY <1>3, <1>4
LEMMA RevokeKeepsTables ==
  ASSUME TableInv, NEW t \in Tabs, NEW kind \in Kinds, revokeSession(t, kind)
  PROVE  TableInv'
  <1> DEFINE c == calls[t][kind]
             done == [NoCall EXCEPT !.step = "answered"]
  <1>1. c \in Call /\ Facts(kind, c) /\ kind \in {"logout", "reset"}
    BY NewCallsTyped DEF revokeSession
  <1>2. CASE ~accepts(c.session, c.csrf)
    <2>1. Goes(t, kind, Failed) /\ UNCHANGED <<server, browser, tab>>
      BY <1>2 DEF revokeSession, server
    <2> QED BY <2>1, NewCallsTyped, CallRecords, CallMovesTypes
  <1>3. CASE accepts(c.session, c.csrf)
    <2>1. /\ c.session \in DOMAIN sessions
          /\ sessions' = [sessions EXCEPT ![c.session].live = FALSE]
          /\ Goes(t, kind, done)
          /\ UNCHANGED <<challenges, tokens, account, cookie, tab>>
      BY <1>1, <1>3 DEF revokeSession, accepts, isLive, browser, Facts, CallFacts
    <2>2. done \in Call /\ CallFacts(sessions', challenges', kind, done)
      BY <1>1 DEF NoCall, Call, CallFacts
    <2>3. /\ sessions' \in Seq([account : Accounts, challenge : Nat, csrf : 1 .. tokens, live : BOOLEAN])
          /\ DOMAIN sessions' = DOMAIN sessions /\ TablesGrow
          /\ \A s \in DOMAIN sessions : sessions'[s].challenge = sessions[s].challenge
      BY <2>1, SessionEnds DEF TableInv
    <2>4. /\ cookie' \in {NULL} \cup DOMAIN sessions
          /\ tab' \in [Tabs -> [csrf : (1 .. tokens) \cup {NULL}, session : Accounts \cup {NULL}]]
      BY <2>1 DEF TableInv, SignInTypeOK
    <2> HIDE DEF done
    <2> QED BY <2>1, <2>2, <2>3, <2>4, EndingKeepsTables
  <1> QED BY <1>2, <1>3

LEMMA ExpireKeepsTables ==
  ASSUME TableInv, NEW n \in DOMAIN sessions, Expire(n)
  PROVE  TableInv'
  <1>1. /\ sessions' = [sessions EXCEPT ![n].live = FALSE]
        /\ UNCHANGED <<challenges, tokens, cookie, account, tab, calls>>
    BY DEF Expire, browser
  <1>2. /\ sessions' \in Seq([account : Accounts, challenge : Nat, csrf : 1 .. tokens, live : BOOLEAN])
        /\ DOMAIN sessions' = DOMAIN sessions /\ TablesGrow
        /\ \A s \in DOMAIN sessions : /\ sessions'[s].challenge = sessions[s].challenge
                                      /\ sessions'[s].account = sessions[s].account
    BY <1>1, SessionEnds DEF TableInv
  <1>3. SignInTypeOK'
    BY <1>1, <1>2 DEF TableInv, SignInTypeOK, Call
  <1>4. CallsCoherent'
    <2>1. \A t \in Tabs, kind \in Kinds :
              CallFacts(sessions', challenges', kind, calls[t][kind])
      BY <1>2, FactsKept DEF TableInv, CallsCoherent
    <2> QED BY <1>1, <2>1 DEF CallsCoherent, Facts
  <1>5. SessionsSigned' /\ OneSessionPerSignature'
    BY <1>1, <1>2 DEF TableInv, SessionsSigned, OneSessionPerSignature
  <1> QED BY <1>3, <1>4, <1>5 DEF TableInv

LEMMA ChangeAccountKeepsTables ==
  ASSUME TableInv, NEW a \in Accounts, NEW listeners \in SUBSET Tabs,
         ChangeAccount(a, listeners)
  PROVE  TableInv'
  <1>1. UNCHANGED <<challenges, sessions, tokens, cookie>> /\ account' = a
    BY DEF ChangeAccount, server
  <1>2. /\ calls' = [t \in Tabs |->
                        IF t \in listeners THEN [calls[t] EXCEPT !["reset"] = goodbye(t)]
                                          ELSE calls[t]]
        /\ tab' = [t \in Tabs |-> IF t \in listeners THEN [tab[t] EXCEPT !.session = NULL]
                                                    ELSE tab[t]]
        /\ calls \in [Tabs -> [Kinds -> Call]]
        /\ tab \in [Tabs -> [csrf : (1 .. tokens) \cup {NULL}, session : Accounts \cup {NULL}]]
    BY DEF ChangeAccount, TableInv, SignInTypeOK
  <1>3. \A t \in Tabs, kind \in Kinds :
            calls'[t][kind] \in {goodbye(t), calls[t][kind]}
    BY <1>2
  <1>4. calls' \in [Tabs -> [Kinds -> Call']] /\ Call' = Call
    <2>1. Call' = Call
      BY <1>1 DEF Call
    <2>2. \A t \in Tabs : goodbye(t) \in Call
      BY NewCallsTyped
    <2> QED BY <1>2, <2>1, <2>2
  <1>5. tab' \in [Tabs -> [csrf : (1 .. tokens) \cup {NULL}, session : Accounts \cup {NULL}]]
    BY <1>2
  <1>6. SignInTypeOK'
    BY <1>1, <1>4, <1>5 DEF TableInv, SignInTypeOK
  <1>7. CallsCoherent'
    <2>1. \A t \in Tabs, kind \in Kinds : Facts(kind, calls'[t][kind])
      BY <1>3, NewCallsTyped
    <2> QED BY <1>1, <2>1 DEF CallsCoherent, Facts
  <1>8. SessionsSigned' /\ OneSessionPerSignature'
    BY <1>1 DEF TableInv, SessionsSigned, OneSessionPerSignature
  <1> QED BY <1>6, <1>7, <1>8 DEF TableInv

\* The steps that only begin a request, move it on or lose it.
LEMMA RequestsKeepTables ==
  ASSUME TableInv, NEW t \in Tabs,
         \/ refresh(t) \/ signIn(t) \/ logout(t) \/ AnswerSignIn(t)
         \/ \E kind \in Kinds : CallFails(t, kind)
  PROVE  TableInv'
  <1> USE NewCallsTyped, CallRecords DEF Kinds
  <1>1. CASE refresh(t)
    <2>1. Goes(t, "session", sent) /\ UNCHANGED <<server, browser, tab>>
      BY <1>1 DEF refresh
    <2> QED BY <2>1, CallMovesTypes
  <1>2. CASE signIn(t)
    <2> DEFINE c == [NoCall EXCEPT !.step = "challenging", !.account = account]
    <2>1. /\ c.step = "challenging" /\ c.account = account
          /\ c.session = NULL /\ c.challenge = NULL
      BY DEF NoCall
    <2>2. Goes(t, "signin", c) /\ UNCHANGED <<server, browser, tab>>
      BY <1>2 DEF signIn
    <2>3. account \in Accounts
      BY DEF TableInv, SignInTypeOK
    <2>4. c \in Call
      BY <2>3 DEF NoCall, Call
    <2>5. Facts("signin", c)
      <3> HIDE DEF c
      <3> QED BY <2>1, <2>3 DEF Facts, CallFacts
    <2> HIDE DEF c
    <2> QED BY <2>2, <2>4, <2>5, CallMovesTypes
  <1>3. CASE logout(t)
    <2>1. Goes(t, "logout", goodbye(t)) /\ UNCHANGED <<server, browser, tab>>
      BY <1>3 DEF logout
    <2> QED BY <2>1, CallMovesTypes
  <1>4. CASE AnswerSignIn(t)
    <2> DEFINE c == [calls[t]["signin"] EXCEPT !.step = "answered"]
    <2>1. calls[t]["signin"] \in Call /\ Facts("signin", calls[t]["signin"])
      OBVIOUS
    <2>2. /\ c \in Call /\ c.session = calls[t]["signin"].session
          /\ c.challenge = calls[t]["signin"].challenge
          /\ c.account = calls[t]["signin"].account /\ c.step = "answered"
      BY <2>1 DEF Call
    <2>3. Goes(t, "signin", c) /\ UNCHANGED <<server, browser, tab>>
      BY <1>4 DEF AnswerSignIn
    <2> HIDE DEF c
    <2>4. Facts("signin", c)
      BY <2>1, <2>2 DEF Facts, CallFacts
    <2> QED BY <2>2, <2>3, <2>4, CallMovesTypes
  <1>5. ASSUME NEW kind \in Kinds, CallFails(t, kind)
        PROVE  TableInv'
    <2>1. Goes(t, kind, Failed) /\ UNCHANGED <<server, browser, tab>>
      BY <1>5 DEF CallFails
    <2> QED BY <2>1, CallMovesTypes
  <1> QED BY <1>1, <1>2, <1>3, <1>4, <1>5

LEMMA StepKeepsTables ==
  ASSUME TableInv, [SignInNext]_vars
  PROVE  TableInv'
  <1>1. CASE UNCHANGED vars
    BY <1>1 DEF vars, server, browser, TableInv, SignInTypeOK, CallsCoherent, Facts, CallFacts,
                SessionsSigned, OneSessionPerSignature, Call
  <1>2. ASSUME NEW t \in Tabs, Progress(t) \/ Reload(t) \/ refresh(t) \/ signIn(t) \/ logout(t)
        PROVE  TableInv'
    BY <1>2, ReadSessionKeepsTables, AnswerSessionKeepsTables, ReceiveKeepsTables,
       ChallengeKeepsTables, VerifyKeepsTables, RevokeKeepsTables, RequestsKeepTables,
       ReloadKeepsTables DEF Progress
  <1>3. ASSUME NEW a \in Accounts, NEW listeners \in SUBSET Tabs, ChangeAccount(a, listeners)
        PROVE  TableInv'
    BY <1>3, ChangeAccountKeepsTables
  <1>4. ASSUME NEW n \in DOMAIN sessions, Expire(n)
        PROVE  TableInv'
    BY <1>4, ExpireKeepsTables
  <1> QED BY <1>1, <1>2, <1>3, <1>4 DEF SignInNext

LEMMA InitTables ==
  ASSUME SignInInit
  PROVE  TableInv
  <1>1. SignInTypeOK
    BY CallRecords DEF SignInInit, SignInTypeOK, NewTab
  <1>2. CallsCoherent
    BY DEF SignInInit, CallsCoherent, Facts, CallFacts, NoCall
  <1>3. SessionsSigned /\ OneSessionPerSignature
    BY DEF SignInInit, SessionsSigned, OneSessionPerSignature
  <1> QED BY <1>1, <1>2, <1>3 DEF TableInv

LEMMA TablesInvariant == SignInSpec => []TableInv
  BY InitTables, StepKeepsTables, PTL DEF SignInSpec

\* The tables, the tabs and the requests in flight keep their types.
THEOREM SignInTypeCorrect == SignInSpec => []SignInTypeOK
  BY TablesInvariant, PTL DEF TableInv

\* However a client repeats a signed message and whatever the server loses on the way,
\* a signature opens at most one session, for the account that was challenged.
THEOREM SignatureOpensOneSession == SignInSpec => []OneSessionPerSignature
  BY TablesInvariant, PTL DEF TableInv

-----------------------------------------------------------------------------
(* Whom a token is shown with. *)

\* GET /auth/session sends no token.
SentWithoutToken == \A t \in Tabs : At(t, "session", "sent") => calls[t]["session"].csrf = NULL

OwnedInv == TokensOwned /\ SentWithoutToken

\* A token and an account kept together after the step: nothing, an old pair, or the new
\* token with its owner.
Fits(owner, k, a) == k = NULL \/ a = NULL \/ Shown(k, a) \/ (k = tokens + 1 /\ a = owner)

LEMMA ShownTokens ==
  ASSUME SignInTypeOK, NEW k, NEW a, Shown(k, a)
  PROVE  k \in (1 .. tokens) \cup {NULL}
  <1>1. CASE ShownBySession(k, a)
    BY <1>1, SessionFieldTypes DEF ShownBySession
  <1>2. CASE ShownByTab(k, a)
    BY <1>2 DEF ShownByTab, SignInTypeOK
  <1>3. CASE ShownByCall(k, a)
    <2>1. PICK t \in Tabs, kind \in Kinds : calls[t][kind].csrf = k
      BY <1>3 DEF ShownByCall
    <2>2. calls[t][kind] \in Call
      BY DEF SignInTypeOK
    <2> QED BY <2>1, <2>2, CallFieldTypes
  <1> QED BY <1>1, <1>2, <1>3 DEF Shown

LEMMA OldPairsFit ==
  ASSUME NEW owner
  PROVE  /\ \A s \in DOMAIN sessions : Fits(owner, sessions[s].csrf, sessions[s].account)
         /\ \A t \in Tabs : Fits(owner, tab[t].csrf, tab[t].session)
         /\ \A t \in Tabs, kind \in Kinds : Fits(owner, calls[t][kind].csrf, calls[t][kind].account)
  BY DEF Fits, Shown, ShownBySession, ShownByTab, ShownByCall

\* A step after which every pair fits keeps the tokens owned.
LEMMA OwnedAfter ==
  ASSUME SignInTypeOK, TokensOwned, NEW owner, tokens' \in {tokens, tokens + 1},
         \A s \in DOMAIN sessions' : Fits(owner, sessions'[s].csrf, sessions'[s].account),
         \A t \in Tabs : Fits(owner, tab'[t].csrf, tab'[t].session),
         \A t \in Tabs, kind \in Kinds :
             Fits(owner, calls'[t][kind].csrf, calls'[t][kind].account)
  PROVE  TokensOwned'
  <1>1. \A k, a : Shown(k, a)' => Fits(owner, k, a)
    BY DEF Shown, ShownBySession, ShownByTab, ShownByCall
  <1>2. SUFFICES ASSUME NEW k \in 1 .. tokens', NEW a \in Accounts, NEW b \in Accounts,
                        Shown(k, a)', Shown(k, b)'
                 PROVE  a = b
    BY DEF TokensOwned
  <1>3. tokens \in Nat /\ k \in Nat /\ k # NULL /\ a # NULL /\ b # NULL
    BY SignInAssumption DEF SignInTypeOK
  <1>4. Fits(owner, k, a) /\ Fits(owner, k, b)
    BY <1>1, <1>2
  <1>5. CASE k = tokens + 1
    <2>1. k \notin (1 .. tokens) \cup {NULL}
      BY <1>3, <1>5
    <2>2. ~Shown(k, a) /\ ~Shown(k, b)
      BY <2>1, ShownTokens
    <2> QED BY <1>3, <1>4, <2>2 DEF Fits
  <1>6. CASE k # tokens + 1
    <2>1. Shown(k, a) /\ Shown(k, b)
      BY <1>3, <1>4, <1>6 DEF Fits
    <2>2. k \in 1 .. tokens
      BY <1>3, <2>1, ShownTokens
    <2> QED BY <2>1, <2>2 DEF TokensOwned
  <1> QED BY <1>5, <1>6

\* A step that moves one request.
LEMMA OwnedAfterCall ==
  ASSUME TableInv, OwnedInv, NEW owner, tokens' \in {tokens, tokens + 1},
         \A s \in DOMAIN sessions' : Fits(owner, sessions'[s].csrf, sessions'[s].account),
         \A u \in Tabs : Fits(owner, tab'[u].csrf, tab'[u].session),
         NEW t \in Tabs, NEW kind \in Kinds, NEW c, Goes(t, kind, c),
         Fits(owner, c.csrf, c.account),
         kind = "session" /\ c.step = "sent" => c.csrf = NULL
  PROVE  OwnedInv'
  <1>1. \A u \in Tabs, k \in Kinds :
            calls'[u][k] = IF u = t /\ k = kind THEN c ELSE calls[u][k]
    BY DEF Goes, TableInv, SignInTypeOK
  <1>2. \A u \in Tabs, k \in Kinds : Fits(owner, calls'[u][k].csrf, calls'[u][k].account)
    BY <1>1, OldPairsFit
  <1>3. TokensOwned'
    BY <1>2, OwnedAfter DEF TableInv, OwnedInv
  <1>4. SentWithoutToken'
    BY <1>1 DEF OwnedInv, SentWithoutToken, At, Kinds
  <1> QED BY <1>3, <1>4 DEF OwnedInv

\* A step that moves one request and leaves the sessions and the tabs alone.
LEMMA OwnedAfterMove ==
  ASSUME TableInv, OwnedInv, UNCHANGED <<sessions, tokens, tab>>,
         NEW t \in Tabs, NEW kind \in Kinds, NEW c, Goes(t, kind, c),
         Fits(NULL, c.csrf, c.account),
         kind = "session" /\ c.step = "sent" => c.csrf = NULL
  PROVE  OwnedInv'
  <1>1. /\ \A s \in DOMAIN sessions' : Fits(NULL, sessions'[s].csrf, sessions'[s].account)
        /\ \A u \in Tabs : Fits(NULL, tab'[u].csrf, tab'[u].session)
    BY OldPairsFit
  <1> QED BY <1>1, OwnedAfterCall

\* A request that has just begun or is over keeps no token with an account.
LEMMA NewCallsFit ==
  ASSUME NEW t \in Tabs
  PROVE  /\ NoCall.csrf = NULL /\ NoCall.account = NULL /\ NoCall.step = "none"
         /\ Failed.csrf = NULL /\ Failed.account = NULL /\ Failed.step = "failed"
         /\ sent.csrf = NULL /\ sent.account = NULL /\ sent.step = "sent"
         /\ goodbye(t).account = NULL
         /\ \A owner : /\ Fits(owner, NoCall.csrf, NoCall.account)
                       /\ Fits(owner, Failed.csrf, Failed.account)
                       /\ Fits(owner, sent.csrf, sent.account)
                       /\ Fits(owner, goodbye(t).csrf, goodbye(t).account)
  <1>1. /\ NoCall.csrf = NULL /\ NoCall.account = NULL /\ NoCall.step = "none"
        /\ Failed.csrf = NULL /\ Failed.account = NULL /\ Failed.step = "failed"
        /\ sent.csrf = NULL /\ sent.account = NULL /\ sent.step = "sent"
        /\ goodbye(t).account = NULL
    BY DEF NoCall, Failed, sent, goodbye
  <1> QED BY <1>1 DEF Fits

LEMMA MovesKeepOwned ==
  ASSUME TableInv, OwnedInv, NEW t \in Tabs,
         \/ refresh(t) \/ signIn(t) \/ logout(t) \/ ReadSession(t) \/ AnswerSignIn(t)
         \/ createSiweChallenge(t)
         \/ \E kind \in Kinds : CallFails(t, kind)
  PROVE  OwnedInv'
  <1>1. /\ "session" \in Kinds /\ "signin" \in Kinds /\ "logout" \in Kinds
        /\ \A kind \in Kinds : /\ calls[t][kind] \in Call
                               /\ Fits(NULL, calls[t][kind].csrf, calls[t][kind].account)
    BY NewCallsTyped, OldPairsFit DEF Kinds
  <1>2. CASE refresh(t)
    <2>1. Goes(t, "session", sent) /\ UNCHANGED <<sessions, tokens, tab>>
      BY <1>2 DEF refresh, server
    <2> QED BY <1>1, <2>1, NewCallsFit, OwnedAfterMove
  <1>3. CASE signIn(t)
    <2> DEFINE c == [NoCall EXCEPT !.step = "challenging", !.account = account]
    <2>1. c.csrf = NULL /\ c.step = "challenging"
      BY DEF NoCall
    <2>2. Goes(t, "signin", c) /\ UNCHANGED <<sessions, tokens, tab>>
      BY <1>3 DEF signIn, server
    <2> HIDE DEF c
    <2>3. Fits(NULL, c.csrf, c.account)
      BY <2>1 DEF Fits
    <2> QED BY <1>1, <2>1, <2>2, <2>3, OwnedAfterMove
  <1>4. CASE logout(t)
    <2>1. Goes(t, "logout", goodbye(t)) /\ UNCHANGED <<sessions, tokens, tab>>
      BY <1>4 DEF logout, server
    <2>2. Fits(NULL, goodbye(t).csrf, goodbye(t).account)
      BY NewCallsFit
    <2> QED BY <1>1, <2>1, <2>2, OwnedAfterMove
  <1>5. CASE ReadSession(t)
    <2> DEFINE c == calls[t]["session"]
               read == [c EXCEPT !.step = "authorizing", !.account = sessions[c.session].account]
    <2>1. c.csrf = NULL /\ UNCHANGED <<sessions, tokens, tab>>
      BY <1>5 DEF ReadSession, server, OwnedInv, SentWithoutToken, At
    <2>2. CASE isLive(c.session)
      <3>1. read.csrf = NULL
        BY <1>1, <2>1 DEF Call
      <3>2. Goes(t, "session", read)
        BY <1>5, <2>2 DEF ReadSession
      <3> HIDE DEF read
      <3>3. Fits(NULL, read.csrf, read.account)
        BY <3>1 DEF Fits
      <3> QED BY <1>1, <2>1, <3>1, <3>2, <3>3, OwnedAfterMove
    <2>3. CASE ~isLive(c.session)
      <3>1. Goes(t, "session", Failed)
        BY <1>5, <2>3 DEF ReadSession
      <3> QED BY <1>1, <2>1, <3>1, NewCallsFit, OwnedAfterMove
    <2> QED BY <2>2, <2>3
  <1>6. CASE AnswerSignIn(t)
    <2> DEFINE c == [calls[t]["signin"] EXCEPT !.step = "answered"]
    <2>1. c.csrf = calls[t]["signin"].csrf /\ c.account = calls[t]["signin"].account
      BY <1>1 DEF Call
    <2>2. Goes(t, "signin", c) /\ UNCHANGED <<sessions, tokens, tab>>
      BY <1>6 DEF AnswerSignIn, server
    <2> HIDE DEF c
    <2> QED BY <1>1, <2>1, <2>2, OwnedAfterMove
  <1>7. CASE createSiweChallenge(t)
    <2> DEFINE c == [calls[t]["signin"] EXCEPT !.step = "verifying",
                                              !.challenge = Len(challenges) + 1]
    <2>1. c.csrf = calls[t]["signin"].csrf /\ c.account = calls[t]["signin"].account
      BY <1>1 DEF Call
    <2>2. Goes(t, "signin", c) /\ UNCHANGED <<sessions, tokens, tab>>
      BY <1>7 DEF createSiweChallenge
    <2> HIDE DEF c
    <2> QED BY <1>1, <2>1, <2>2, OwnedAfterMove
  <1>8. ASSUME NEW kind \in Kinds, CallFails(t, kind)
        PROVE  OwnedInv'
    <2>1. Goes(t, kind, Failed) /\ UNCHANGED <<sessions, tokens, tab>>
      BY <1>8 DEF CallFails, server
    <2> QED BY <2>1, NewCallsFit, OwnedAfterMove
  <1> QED BY <1>2, <1>3, <1>4, <1>5, <1>6, <1>7, <1>8

\* A new token goes to the session it was made for, and to the answer under way.
LEMMA AnswerSessionKeepsOwned ==
  ASSUME TableInv, OwnedInv, NEW t \in Tabs, AnswerSession(t)
  PROVE  OwnedInv'
  <1> DEFINE c == calls[t]["session"]
             answered == [c EXCEPT !.step = "answered", !.csrf = randomToken]
  <1> PICK owner : owner = sessions[c.session].account
    OBVIOUS
  <1>1. /\ "session" \in Kinds /\ c \in Call
        /\ c.session \in DOMAIN sessions /\ c.account = owner
    <2>1. "session" \in Kinds /\ c \in Call /\ Facts("session", c)
      BY NewCallsTyped DEF Kinds
    <2> QED BY <2>1 DEF AnswerSession, Facts, CallFacts
  <1>2. /\ answered.csrf = tokens + 1 /\ answered.account = owner /\ answered.step = "answered"
    BY <1>1 DEF randomToken, Call
  <1>3. /\ tokens' = tokens + 1 /\ tab' = tab /\ Goes(t, "session", answered)
        /\ \A s \in DOMAIN sessions : sessions'[s] =
               IF s = c.session
               THEN [sessions[s] EXCEPT !.csrf = IF isLive(s) THEN randomToken ELSE @]
               ELSE sessions[s]
        /\ DOMAIN sessions' = DOMAIN sessions
    BY <1>1 DEF AnswerSession
  <1>4. \A s \in DOMAIN sessions :
            /\ sessions'[s].account = sessions[s].account
            /\ \/ sessions'[s].csrf = sessions[s].csrf
               \/ s = c.session /\ sessions'[s].csrf = tokens + 1
    BY <1>3, SessionFieldTypes DEF TableInv, randomToken
  <1> HIDE DEF answered
  <1>5. \A s \in DOMAIN sessions' : Fits(owner, sessions'[s].csrf, sessions'[s].account)
    BY <1>3, <1>4, OldPairsFit DEF Fits
  <1>6. \A u \in Tabs : Fits(owner, tab'[u].csrf, tab'[u].session)
    BY <1>3, OldPairsFit
  <1>7. Fits(owner, answered.csrf, answered.account)
    BY <1>2 DEF Fits
  <1>8. tokens' \in {tokens, tokens + 1}
    BY <1>3
  <1> HIDE DEF c
  <1> QED BY <1>1, <1>2, <1>3, <1>8, <1>5, <1>6, <1>7, OwnedAfterCall

LEMMA VerifyKeepsOwned ==
  ASSUME TableInv, OwnedInv, NEW t \in Tabs, Verify(t)
  PROVE  OwnedInv'
  <1> DEFINE c == calls[t]["signin"]
             n == Len(sessions) + 1
             new == [account |-> c.account, challenge |-> c.challenge, csrf |-> randomToken, live |-> TRUE]
             next == [c EXCEPT !.step = "authorizing", !.csrf = randomToken, !.session = n]
  <1> PICK owner : owner = c.account
    OBVIOUS
  <1>1. "signin" \in Kinds /\ c \in Call
    BY NewCallsTyped DEF Kinds
  <1>2. CASE ~isConsumable(c.challenge)
    <2>1. Goes(t, "signin", Failed) /\ UNCHANGED <<sessions, tokens, tab>>
      BY <1>2 DEF Verify, server
    <2> QED BY <1>1, <2>1, NewCallsFit, OwnedAfterMove
  <1>3. CASE isConsumable(c.challenge)
    <2>1. /\ tokens' = tokens + 1 /\ sessions' = Append(sessions, new)
          /\ Goes(t, "signin", next) /\ tab' = tab
      BY <1>3 DEF Verify
    <2>2. next.csrf = tokens + 1 /\ next.account = owner /\ next.step = "authorizing"
      BY <1>1 DEF randomToken, Call
    <2>3. new.csrf = tokens + 1 /\ new.account = owner
      BY DEF randomToken
    <2>4. \A s \in DOMAIN sessions' : \/ s \in DOMAIN sessions /\ sessions'[s] = sessions[s]
                                      \/ sessions'[s] = new
      <3> HIDE DEF new
      <3> QED BY <2>1 DEF TableInv, SignInTypeOK
    <2> HIDE DEF new, next
    <2>5. \A s \in DOMAIN sessions' : Fits(owner, sessions'[s].csrf, sessions'[s].account)
      BY <2>3, <2>4, OldPairsFit DEF Fits
    <2>6. \A u \in Tabs : Fits(owner, tab'[u].csrf, tab'[u].session)
      BY <2>1, OldPairsFit
    <2>7. Fits(owner, next.csrf, next.account)
      BY <2>2 DEF Fits
    <2>8. tokens' \in {tokens, tokens + 1}
      BY <2>1
    <2> HIDE DEF c
    <2> QED BY <1>1, <2>1, <2>2, <2>8, <2>5, <2>6, <2>7, OwnedAfterCall
  <1> QED BY <1>2, <1>3

\* An answer's token and account go to the tab together; a logout takes both.
LEMMA ReceiveKeepsOwned ==
  ASSUME TableInv, OwnedInv, NEW t \in Tabs,
         \/ ReceiveSession(t)
         \/ ReceiveSignIn(t)
         \/ \E kind \in Kinds : ReceiveLogout(t, kind)
  PROVE  OwnedInv'
  <1>1. /\ "session" \in Kinds /\ "signin" \in Kinds
        /\ \A kind \in Kinds : Fits(NULL, calls[t][kind].csrf, calls[t][kind].account)
        /\ \A u \in Tabs : Fits(NULL, tab[u].csrf, tab[u].session)
        /\ tab \in [Tabs -> [csrf : (1 .. tokens) \cup {NULL}, session : Accounts \cup {NULL}]]
    BY OldPairsFit DEF Kinds, TableInv, SignInTypeOK
  <1>2. ASSUME NEW kind \in Kinds, Goes(t, kind, NoCall), UNCHANGED server,
               \A u \in Tabs : Fits(NULL, tab'[u].csrf, tab'[u].session)
        PROVE  OwnedInv'
    <2>1. \A s \in DOMAIN sessions' : Fits(NULL, sessions'[s].csrf, sessions'[s].account)
      BY <1>2, OldPairsFit DEF server
    <2>2. tokens' \in {tokens, tokens + 1}
      BY <1>2 DEF server
    <2> QED BY <1>2, <2>1, <2>2, NewCallsFit, OwnedAfterCall
  <1>3. CASE ReceiveSession(t)
    <2>1. Goes(t, "session", NoCall) /\ UNCHANGED server
      BY <1>3 DEF ReceiveSession
    <2>2. \A u \in Tabs : tab'[u] \in {tab[u], NewTab,
              [csrf |-> calls[t]["session"].csrf, session |-> calls[t]["session"].account]}
      BY <1>1, <1>3 DEF ReceiveSession
    <2>3. \A u \in Tabs : Fits(NULL, tab'[u].csrf, tab'[u].session)
      BY <1>1, <2>2 DEF NewTab, Fits
    <2> QED BY <1>1, <1>2, <2>1, <2>3
  <1>4. CASE ReceiveSignIn(t)
    <2>1. Goes(t, "signin", NoCall) /\ UNCHANGED server
      BY <1>4 DEF ReceiveSignIn
    <2>2. \A u \in Tabs : tab'[u] \in {tab[u],
              [csrf |-> calls[t]["signin"].csrf, session |-> calls[t]["signin"].account]}
      BY <1>1, <1>4 DEF ReceiveSignIn
    <2>3. \A u \in Tabs : Fits(NULL, tab'[u].csrf, tab'[u].session)
      BY <1>1, <2>2
    <2> QED BY <1>1, <1>2, <2>1, <2>3
  <1>5. ASSUME NEW kind \in Kinds, ReceiveLogout(t, kind)
        PROVE  OwnedInv'
    <2>1. Goes(t, kind, NoCall) /\ UNCHANGED server
      BY <1>5 DEF ReceiveLogout
    <2>2. \A u \in Tabs : tab'[u] = tab[u] \/ tab'[u].csrf = NULL
      <3>1. tab' = [tab EXCEPT ![t].csrf = NULL,
                               ![t].session = IF kind = "logout" THEN NULL ELSE @]
        BY <1>5 DEF ReceiveLogout
      <3>2. \A u \in Tabs : u # t => tab'[u] = tab[u]
        BY <1>1, <3>1
      <3>3. tab'[t].csrf = NULL
        BY <1>1, <3>1
      <3> QED BY <3>2, <3>3
    <2>3. \A u \in Tabs : Fits(NULL, tab'[u].csrf, tab'[u].session)
      BY <1>1, <2>2 DEF Fits
    <2> QED BY <1>2, <2>1, <2>3
  <1> QED BY <1>3, <1>4, <1>5

\* A session that ends keeps its account and its token.
LEMMA EndedSessionsFit ==
  ASSUME TableInv, NEW n \in DOMAIN sessions, UNCHANGED challenges,
         sessions' = [sessions EXCEPT ![n].live = FALSE]
  PROVE  \A s \in DOMAIN sessions' : Fits(NULL, sessions'[s].csrf, sessions'[s].account)
  <1>1. \A s \in DOMAIN sessions' : /\ s \in DOMAIN sessions
                                    /\ sessions'[s].account = sessions[s].account
                                    /\ sessions'[s].csrf = sessions[s].csrf
    BY SessionEnds DEF TableInv
  <1> QED BY <1>1, OldPairsFit

LEMMA RevokeKeepsOwned ==
  ASSUME TableInv, OwnedInv, NEW t \in Tabs, NEW kind \in Kinds, revokeSession(t, kind)
  PROVE  OwnedInv'
  <1> DEFINE c == calls[t][kind]
             done == [NoCall EXCEPT !.step = "answered"]
  <1>1. CASE ~accepts(c.session, c.csrf)
    <2>1. Goes(t, kind, Failed) /\ UNCHANGED <<sessions, tokens, tab>>
      BY <1>1 DEF revokeSession
    <2> QED BY <2>1, NewCallsFit, OwnedAfterMove
  <1>2. CASE accepts(c.session, c.csrf)
    <2>1. c.session \in DOMAIN sessions
      BY <1>2, NewCallsTyped DEF accepts, isLive, Facts, CallFacts
    <2>2. /\ sessions' = [sessions EXCEPT ![c.session].live = FALSE]
          /\ Goes(t, kind, done) /\ UNCHANGED <<challenges, tokens, tab>>
      BY <1>2 DEF revokeSession
    <2>3. done.csrf = NULL /\ done.step = "answered"
      BY DEF NoCall
    <2> HIDE DEF done
    <2>4. Fits(NULL, done.csrf, done.account)
      BY <2>3 DEF Fits
    <2>5. \A s \in DOMAIN sessions' : Fits(NULL, sessions'[s].csrf, sessions'[s].account)
      BY <2>1, <2>2, EndedSessionsFit
    <2>6. \A u \in Tabs : Fits(NULL, tab'[u].csrf, tab'[u].session)
      BY <2>2, OldPairsFit
    <2>7. tokens' \in {tokens, tokens + 1}
      BY <2>2
    <2>8. Goes(t, kind, done) /\ (kind = "session" /\ done.step = "sent" => done.csrf = NULL)
      BY <2>2, <2>3
    <2> HIDE DEF c
    <2> QED BY <2>4, <2>5, <2>6, <2>7, <2>8, OwnedAfterCall
  <1> QED BY <1>1, <1>2

\* The steps that touch every request of a tab, or none.
LEMMA BrowserKeepsOwned ==
  ASSUME TableInv, OwnedInv,
         \/ \E t \in Tabs : Reload(t)
         \/ \E a \in Accounts, listeners \in SUBSET Tabs : ChangeAccount(a, listeners)
         \/ \E n \in DOMAIN sessions : Expire(n)
  PROVE  OwnedInv'
  <1> USE DEF TableInv, OwnedInv
  <1>1. /\ \A s \in DOMAIN sessions : Fits(NULL, sessions[s].csrf, sessions[s].account)
        /\ \A u \in Tabs : Fits(NULL, tab[u].csrf, tab[u].session)
        /\ \A u \in Tabs, k \in Kinds : Fits(NULL, calls[u][k].csrf, calls[u][k].account)
    BY OldPairsFit
  <1>2. ASSUME NEW t \in Tabs, Reload(t)
        PROVE  OwnedInv'
    <2>1. /\ \A u \in Tabs : tab'[u] \in {tab[u], NewTab}
          /\ \A u \in Tabs, k \in Kinds : calls'[u][k] \in {calls[u][k], sent, NoCall}
          /\ UNCHANGED <<sessions, tokens>>
      BY <1>2 DEF Reload, SignInTypeOK, server
    <2>2. \A u \in Tabs : Fits(NULL, tab'[u].csrf, tab'[u].session)
      BY <1>1, <2>1 DEF NewTab, Fits
    <2>3. \A u \in Tabs, k \in Kinds : Fits(NULL, calls'[u][k].csrf, calls'[u][k].account)
      BY <1>1, <2>1, NewCallsFit
    <2>4. SentWithoutToken'
      BY <2>1, NewCallsFit DEF SentWithoutToken, At, Kinds
    <2>5. \A s \in DOMAIN sessions' : Fits(NULL, sessions'[s].csrf, sessions'[s].account)
      BY <1>1, <2>1
    <2> QED BY <2>1, <2>2, <2>3, <2>4, <2>5, OwnedAfter
  <1>3. ASSUME NEW a \in Accounts, NEW listeners \in SUBSET Tabs, ChangeAccount(a, listeners)
        PROVE  OwnedInv'
    <2>1. /\ \A u \in Tabs : tab'[u] = tab[u] \/ tab'[u].session = NULL
          /\ \A u \in Tabs, k \in Kinds :
                 calls'[u][k] = calls[u][k] \/ (k = "reset" /\ calls'[u][k] = goodbye(u))
          /\ UNCHANGED <<sessions, tokens>>
      BY <1>3 DEF ChangeAccount, SignInTypeOK, server
    <2>2. \A u \in Tabs : Fits(NULL, tab'[u].csrf, tab'[u].session)
      BY <1>1, <2>1 DEF Fits
    <2>3. \A u \in Tabs, k \in Kinds : Fits(NULL, calls'[u][k].csrf, calls'[u][k].account)
      BY <1>1, <2>1, NewCallsFit
    <2>4. SentWithoutToken'
      BY <2>1 DEF SentWithoutToken, At, Kinds
    <2>5. \A s \in DOMAIN sessions' : Fits(NULL, sessions'[s].csrf, sessions'[s].account)
      BY <1>1, <2>1
    <2> QED BY <2>1, <2>2, <2>3, <2>4, <2>5, OwnedAfter
  <1>4. ASSUME NEW n \in DOMAIN sessions, Expire(n)
        PROVE  OwnedInv'
    <2>1. /\ sessions' = [sessions EXCEPT ![n].live = FALSE]
          /\ UNCHANGED <<challenges, tokens, tab, calls>>
      BY <1>4 DEF Expire
    <2>2. \A s \in DOMAIN sessions' : Fits(NULL, sessions'[s].csrf, sessions'[s].account)
      BY <2>1, EndedSessionsFit
    <2>3. SentWithoutToken'
      BY <2>1 DEF SentWithoutToken, At
    <2> QED BY <1>1, <2>1, <2>2, <2>3, OwnedAfter
  <1> QED BY <1>2, <1>3, <1>4

LEMMA StepKeepsOwned ==
  ASSUME TableInv, OwnedInv, [SignInNext]_vars
  PROVE  OwnedInv'
  <1>1. CASE UNCHANGED vars
    BY <1>1 DEF vars, server, browser, OwnedInv, TokensOwned, SentWithoutToken, At,
                Shown, ShownBySession, ShownByTab, ShownByCall
  <1>2. ASSUME NEW t \in Tabs, Progress(t) \/ Reload(t) \/ refresh(t) \/ signIn(t) \/ logout(t)
        PROVE  OwnedInv'
    BY <1>2, MovesKeepOwned, AnswerSessionKeepsOwned, VerifyKeepsOwned, ReceiveKeepsOwned,
       RevokeKeepsOwned, BrowserKeepsOwned DEF Progress
  <1> QED BY <1>1, <1>2, BrowserKeepsOwned DEF SignInNext

LEMMA OwnedShowsTheAccount ==
  ASSUME TableInv, TokensOwned
  PROVE  ActsAsShown
  <1> SUFFICES ASSUME NEW t \in Tabs, accepts(cookie, tab[t].csrf), tab[t].session # NULL
               PROVE  tab[t].session = sessions[cookie].account
    BY DEF ActsAsShown
  <1>1. cookie \in DOMAIN sessions /\ tab[t].csrf = sessions[cookie].csrf
    BY DEF accepts, isLive, validateCsrf, TableInv, SignInTypeOK
  <1>2. sessions[cookie].account \in Accounts /\ sessions[cookie].csrf \in 1 .. tokens
    BY <1>1, SessionFieldTypes DEF TableInv
  <1>3. tab[t].session \in Accounts
    BY DEF TableInv, SignInTypeOK
  <1>4. /\ Shown(sessions[cookie].csrf, sessions[cookie].account)
        /\ Shown(sessions[cookie].csrf, tab[t].session)
    BY <1>1 DEF Shown, ShownBySession, ShownByTab
  <1> QED BY <1>2, <1>3, <1>4 DEF TokensOwned

\* Whatever the tabs, the shared cookie, the wallet and late answers do to each other, a
\* write that the backend accepts is made for the account the page shows.
THEOREM WritesActAsShown == SignInSpec => []ActsAsShown
  <1>1. SignInInit => OwnedInv
    <2> SUFFICES ASSUME SignInInit PROVE OwnedInv
      OBVIOUS
    <2>1. SentWithoutToken
      BY DEF SignInInit, SentWithoutToken, At, NoCall, Kinds
    <2>2. TokensOwned
      BY DEF SignInInit, TokensOwned
    <2> QED BY <2>1, <2>2 DEF OwnedInv
  <1>2. TableInv /\ OwnedInv /\ [SignInNext]_vars => OwnedInv'
    BY StepKeepsOwned
  <1>3. TableInv /\ OwnedInv => ActsAsShown
    BY OwnedShowsTheAccount DEF OwnedInv
  <1> QED BY <1>1, <1>2, <1>3, TablesInvariant, PTL DEF SignInSpec
=============================================================================
