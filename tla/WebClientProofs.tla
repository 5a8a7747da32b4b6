--------------------------- MODULE WebClientProofs ---------------------------
(***************************************************************************)
(* The browser's tabs for any number of tabs, requests, logins and tokens: *)
(* the types, and that a return from a provider is only refused once       *)
(* another login was started or ten minutes have passed.                   *)
(*                                                                         *)
(* That is because the cookie is the last login that was started for as    *)
(* long as that is not late, and neither a return nor a failure writes it  *)
(* (CookieIsLast); a tab that waits at a provider, or was refused, keeps   *)
(* the number of its own.                                                  *)
(***************************************************************************)
EXTENDS WebClient, TLAPS

CookieIsLast == cookie = IF late THEN None ELSE flows

FlowOf(t) ==
    /\ tab[t].page = "away" => tab[t].flow \in 1..flows
    /\ tab[t].page = "refused" => tab[t].flow \in 1..flows /\ (tab[t].flow < flows \/ late)

BrowserInv ==
    /\ TypeOK /\ call = [t \in Tabs |-> call[t]]
    /\ CookieIsLast
    /\ \A t \in Tabs : FlowOf(t)

Page == [page : Pages, hash : Tokens \cup {None}, flow : Flows \cup {None}, shown : Shown]

\* A tab goes on: to no provider, and to no refusal it did not show.
TabMoves(t) ==
    /\ tab' = [tab EXCEPT ![t] = tab'[t]]
    /\ tab'[t] \in Page
    /\ tab'[t].hash # None => tab'[t].page = "load"
    /\ tab'[t].page \in {"away", "refused"} => tab'[t].page = tab[t].page /\ tab'[t].flow = tab[t].flow

\* Its requests change, and no others.
CallsMove(t) ==
    /\ call' = [call EXCEPT ![t] = call'[t]]
    /\ call'[t] \in [1..Calls[t] -> Call \cup {Idle}]

\* Tokens are issued, and the rest of the API is as it was.
ApiMoves ==
    /\ UNCHANGED <<flows, late, expired, over>>
    /\ issued' \in issued..MaxTokens /\ faults' \in 0..MaxFaults

\* A step of one tab that starts no login and is not refused the return from one.
LEMMA TabKeeps ==
    ASSUME BrowserInv, NEW t \in Tabs, TabMoves(t), CallsMove(t), ApiMoves, UNCHANGED cookie,
           stored' \in Tokens \cup {None}
    PROVE  BrowserInv'
<1>1. tab \in [Tabs -> Page] /\ tab' \in [Tabs -> Page]
  BY DEF BrowserInv, TypeOK, Page, TabMoves
<1>2. ASSUME NEW u \in Tabs
      PROVE  /\ tab'[u].hash # None => tab'[u].page = "load"
             /\ FlowOf(u)'
             /\ call'[u] \in [1..Calls[u] -> Call \cup {Idle}]
  <2>1. CASE u = t
    <3>1. tab'[t].page \in {"away", "refused"} => FlowOf(t)'
      BY <1>1, <2>1 DEF BrowserInv, FlowOf, TabMoves, ApiMoves
    <3> QED BY <2>1, <3>1 DEF TabMoves, CallsMove, FlowOf
  <2>2. CASE u # t
    <3>1. tab'[u] = tab[u] /\ call'[u] = call[u]
      BY <1>1, <2>2 DEF TabMoves, CallsMove, BrowserInv
    <3> QED BY <3>1 DEF BrowserInv, TypeOK, FlowOf, ApiMoves
  <2> QED BY <2>1, <2>2
<1>3. call' = [u \in Tabs |-> call'[u]]
  BY DEF CallsMove, BrowserInv
<1>4. /\ issued' \in 0..MaxTokens /\ expired' \subseteq 1..issued'
  <2>1. issued \in 0..MaxTokens /\ issued' \in issued..MaxTokens
        /\ expired \subseteq 1..issued /\ expired' = expired /\ MaxTokens \in Nat
    BY WebClientAssumption DEF BrowserInv, TypeOK, ApiMoves
  <2>2. 1..issued \subseteq 1..issued'
    BY <2>1
  <2> QED BY <2>1, <2>2
<1>5. TypeOK'
  BY <1>1, <1>2, <1>4 DEF BrowserInv, TypeOK, Page, ApiMoves
<1> QED BY <1>2, <1>3, <1>5 DEF BrowserInv, CookieIsLast, ApiMoves

----------------------------------------------------------------------------
\* What is there before a step.
LEMMA Before ==
    ASSUME BrowserInv, NEW t \in Tabs
    PROVE  /\ tab \in [Tabs -> Page] /\ tab[t] \in Page
           /\ tab[t].hash # None => tab[t].page = "load"
           /\ call[t] \in [1..Calls[t] -> Call \cup {Idle}]
           /\ Calls[t] \in Nat \ {0}
           /\ UNCHANGED tab => TabMoves(t)
           /\ UNCHANGED call => CallsMove(t)
           /\ UNCHANGED <<serverVars, faults>> => ApiMoves
<1>1. tab \in [Tabs -> Page] /\ tab[t] \in Page
  BY DEF BrowserInv, TypeOK, Page
<1>2. /\ tab[t].hash # None => tab[t].page = "load"
      /\ call[t] \in [1..Calls[t] -> Call \cup {Idle}] /\ Calls[t] \in Nat \ {0}
  BY WebClientAssumption DEF BrowserInv, TypeOK
<1>3. UNCHANGED tab => TabMoves(t)
  BY <1>1, <1>2 DEF TabMoves
<1>4. UNCHANGED call => CallsMove(t)
  BY <1>2 DEF CallsMove, BrowserInv
<1>5. UNCHANGED <<serverVars, faults>> => ApiMoves
  BY WebClientAssumption DEF ApiMoves, serverVars, BrowserInv, TypeOK
<1> QED BY <1>1, <1>2, <1>3, <1>4, <1>5

\* A tab that is a Page again, at which no login waits or was refused.
LEMMA TabGoes ==
    ASSUME BrowserInv, NEW t \in Tabs, NEW p \in Page, tab' = [tab EXCEPT ![t] = p],
           p.hash # None => p.page = "load",
           p.page \in {"away", "refused"} => p.page = tab[t].page /\ p.flow = tab[t].flow
    PROVE  TabMoves(t)
BY DEF TabMoves, BrowserInv, TypeOK

LEMMA CallsGo ==
    ASSUME BrowserInv, NEW t \in Tabs, NEW c \in [1..Calls[t] -> Call \cup {Idle}],
           call' = [call EXCEPT ![t] = c]
    PROVE  CallsMove(t)
BY DEF CallsMove, BrowserInv

\* The requests of a page that is left are requests (auth/ProtectedRoute, App.tsx:12-60).
LEMMA Unmounted ==
    ASSUME BrowserInv, NEW t \in Tabs
    PROVE  unmounted(t) \in [1..Calls[t] -> Call \cup {Idle}]
<1> SUFFICES ASSUME NEW i \in 1..Calls[t]
             PROVE  unmounted(t)[i] \in Call \cup {Idle}
  BY DEF unmounted
<1> DEFINE c == call[t][i]
<1>1. c \in Call \cup {Idle}
  BY Before
<1>2. c \in Call => [c EXCEPT !.mounted = FALSE] \in Call
  BY DEF Call
<1>3. c = Idle => c.kind = "idle"
  BY DEF Idle
<1>4. unmounted(t)[i] \in {c, Idle, [c EXCEPT !.mounted = FALSE]}
      /\ (c.kind = "idle" => unmounted(t)[i] = c)
  BY DEF unmounted
<1> HIDE DEF c
<1> QED BY <1>1, <1>2, <1>3, <1>4

\* Pages of a document that is left, or that was just opened.
LEMMA Documents ==
    ASSUME BrowserInv, NEW t \in Tabs, NEW hash \in Tokens \cup {None}
    PROVE  /\ NewTab \in Page
           /\ Leave(t, hash) \in Page /\ Leave(t, hash).page = "load"
BY Before DEF NewTab, Leave, Page, Pages, Shown, None

\* A request that is sent (client.ts:8-34).
LEMMA Sent ==
    ASSUME BrowserInv, NEW t \in Tabs, NEW kind \in Polling \cup {"login"}
    PROVE  /\ Request(kind) \in Call
           /\ Send(t, kind) => CallsMove(t)
<1>1. Request(kind) \in Call
  BY DEF Request, Call, Shown, BrowserInv, TypeOK
<1>2. ASSUME NEW i \in 1..Calls[t], call' = [call EXCEPT ![t][i] = Request(kind)]
      PROVE  CallsMove(t)
  <2>1. [call[t] EXCEPT ![i] = Request(kind)] \in [1..Calls[t] -> Call \cup {Idle}]
    BY <1>1, Before
  <2> QED BY <1>2, <2>1, CallsGo
<1> QED BY <1>1, <1>2 DEF Send

----------------------------------------------------------------------------
(* One lemma per group of actions. *)

\* Loading, polling and moving about (App.tsx:25-60, Dashboard.tsx, SessionDetail.tsx).
LEMMA BrowseKeeps ==
    ASSUME BrowserInv, NEW t \in Tabs, Browse(t)
    PROVE  BrowserInv'
<1>1. CASE Load(t)
  <2> DEFINE page == IF stored = None THEN "login" ELSE "home"
             p == [NewTab EXCEPT !.page = page, !.hash = None]
             c == [i \in 1..Calls[t] |-> IF i = 1 /\ page = "home" THEN Request(page) ELSE Idle]
  <2>1. /\ stored' = found(t)
        /\ tab' = [tab EXCEPT ![t] = p] /\ call' = [call EXCEPT ![t] = c]
        /\ UNCHANGED <<cookie, serverVars, faults>>
    BY <1>1 DEF Load, Enter
  <2>2. stored' \in Tokens \cup {None}
    BY <2>1, Before DEF found, BrowserInv, TypeOK
  <2>3. p \in Page /\ p.hash = None /\ p.page \notin {"away", "refused"}
    BY DEF NewTab, Page, Pages, Polling, Shown, None
  <2>4. TabMoves(t)
    BY <2>1, <2>3, TabGoes
  <2>5. c \in [1..Calls[t] -> Call \cup {Idle}]
    BY Sent DEF Polling
  <2>6. CallsMove(t)
    BY <2>1, <2>5, CallsGo
  <2> QED BY <2>1, <2>2, <2>4, <2>6, Before, TabKeeps
<1>2. CASE Poll(t) \/ Submit(t)
  <2>1. UNCHANGED <<stored, cookie, serverVars, tab, faults>>
        /\ \E kind \in Polling \cup {"login"} : Send(t, kind)
    BY <1>2 DEF Poll, Submit
  <2>2. stored \in Tokens \cup {None}
    BY DEF BrowserInv, TypeOK
  <2> QED BY <2>1, <2>2, Before, Sent, TabKeeps
<1>3. CASE Visit(t)
  <2> DEFINE page == CHOOSE p \in Polling : p # tab[t].page
             q == [tab[t] EXCEPT !.page = page, !.shown = "none"]
  <2>1. /\ tab' = [tab EXCEPT ![t] = q] /\ call' = [call EXCEPT ![t] = unmounted(t)]
        /\ tab[t].page \in Polling /\ UNCHANGED <<stored, cookie, serverVars, faults>>
    <3>1. tab' = [tab EXCEPT ![t].page = page, ![t].shown = "none"]
      BY <1>3, Zenon DEF Visit
    <3>2. tab' = [tab EXCEPT ![t] = q]
      <4> HIDE DEF page
      <4> QED BY <3>1, Before
    <3> QED BY <1>3, <3>2 DEF Visit
  <2>2. page \in Polling
    BY DEF Polling
  <2>3. q \in Page /\ q.hash = None /\ q.page \in Polling
    <3> HIDE DEF page
    <3> QED BY <2>1, <2>2, Before DEF Page, Pages, Polling, Shown
  <2>4. TabMoves(t)
    <3> HIDE DEF q
    <3> QED BY <2>1, <2>3, TabGoes DEF Polling
  <2>5. CallsMove(t)
    BY <2>1, Unmounted, CallsGo
  <2>6. stored \in Tokens \cup {None}
    BY DEF BrowserInv, TypeOK
  <2> QED BY <2>1, <2>4, <2>5, <2>6, Before, TabKeeps
<1>4. CASE Logout(t)
  <2> DEFINE p == [NewTab EXCEPT !.page = "login"]
  <2>1. p \in Page /\ p.hash = None /\ p.page \notin {"away", "refused"}
    BY DEF NewTab, Page, Pages, Shown, None
  <2>2. TabMoves(t)
    BY <1>4, <2>1, TabGoes DEF Logout
  <2>3. CallsMove(t)
    BY <1>4, Unmounted, CallsGo DEF Logout
  <2> QED BY <1>4, <2>2, <2>3, Before, TabKeeps DEF Logout
<1> QED BY <1>1, <1>2, <1>3, <1>4 DEF Browse

\* The requests of a tab once one of them was answered.
LEMMA Answered ==
    ASSUME BrowserInv, NEW t \in Tabs, NEW i \in 1..Calls[t]
    PROVE  /\ \A c \in Call \cup {Idle} : Answer(t, i, c) => CallsMove(t)
           /\ Leaving(t, i) => CallsMove(t)
<1>1. ASSUME NEW c \in Call \cup {Idle}, Answer(t, i, c)
      PROVE  CallsMove(t)
  <2>1. [call[t] EXCEPT ![i] = c] \in [1..Calls[t] -> Call \cup {Idle}]
    BY Before
  <2> QED BY <1>1, <2>1, CallsGo DEF Answer
<1>2. ASSUME Leaving(t, i)
      PROVE  CallsMove(t)
  <2>1. [unmounted(t) EXCEPT ![i] = Idle] \in [1..Calls[t] -> Call \cup {Idle}]
    BY Unmounted
  <2> QED BY <1>2, <2>1, CallsGo DEF Leaving
<1> QED BY <1>1, <1>2

\* What the client does about an answer (client.ts:19-34, Login.tsx, SessionDetail.tsx).
LEMMA Reactions ==
    ASSUME BrowserInv, NEW t \in Tabs
    PROVE  /\ Unauthorized(t) => TabMoves(t) /\ stored' \in Tokens \cup {None}
           /\ \A k \in Tokens : LoggedIn(t, k) => TabMoves(t) /\ stored' \in Tokens \cup {None}
           /\ GoHome(t) => TabMoves(t) /\ stored' \in Tokens \cup {None}
<1>1. ASSUME Unauthorized(t)
      PROVE  TabMoves(t) /\ stored' \in Tokens \cup {None}
  <2>1. Leave(t, None) \in Page /\ Leave(t, None).page = "load"
    BY Documents
  <2> QED BY <1>1, <2>1, TabGoes DEF Unauthorized
<1>2. ASSUME NEW k \in Tokens, LoggedIn(t, k)
      PROVE  TabMoves(t) /\ stored' \in Tokens \cup {None}
  <2> DEFINE p == [tab[t] EXCEPT !.page = IF tab[t].page = "load" THEN "load" ELSE "home"]
  <2>1. tab' = [tab EXCEPT ![t] = p] /\ stored' = k
    BY <1>2, Before DEF LoggedIn
  <2>2. p \in Page /\ (p.hash # None => p.page = "load") /\ p.page \notin {"away", "refused"}
    BY Before DEF Page, Pages, Polling
  <2>3. TabMoves(t)
    <3> HIDE DEF p
    <3> QED BY <2>1, <2>2, TabGoes
  <2> QED BY <2>1, <2>3
<1>3. ASSUME GoHome(t)
      PROVE  TabMoves(t) /\ stored' \in Tokens \cup {None}
  <2> DEFINE p == [tab[t] EXCEPT !.page = IF tab[t].page \in Polling THEN "home" ELSE tab[t].page,
                                 !.shown = "none"]
  <2>1. tab' = [tab EXCEPT ![t] = p] /\ UNCHANGED stored
    BY <1>3, Before DEF GoHome
  <2>2. /\ p \in Page /\ p.flow = tab[t].flow
        /\ p.page = IF tab[t].page \in Polling THEN "home" ELSE tab[t].page
        /\ p.hash # None => p.page = "load"
    BY Before DEF Page, Pages, Polling, Shown
  <2>3. TabMoves(t)
    <3> HIDE DEF p
    <3> QED BY <2>1, <2>2, TabGoes
  <2> QED BY <2>1, <2>3 DEF BrowserInv, TypeOK
<1> QED BY <1>1, <1>2, <1>3

\* Requests are answered, and the answers handled (middleware.rs, client.ts:19-34).
LEMMA ExchangeKeeps ==
    ASSUME BrowserInv, NEW t \in Tabs, Exchange(t)
    PROVE  BrowserInv'
<1>1. PICK i \in 1..Calls[t] : Serve(t, i) \/ Receive(t, i)
  BY DEF Exchange
<1> DEFINE c == call[t][i]
<1>2. c \in Call \cup {Idle} /\ Idle \in Call \cup {Idle}
  BY <1>1, Before
<1>3. stored \in Tokens \cup {None} /\ issued \in 0..MaxTokens /\ faults \in 0..MaxFaults
      /\ MaxTokens \in Nat /\ MaxFaults \in Nat
  BY WebClientAssumption DEF BrowserInv, TypeOK
<1>4. CASE Receive(t, i)
  <2> DEFINE p == [tab[t] EXCEPT !.shown = c.answer]
  <2>1. c \in Call
    BY <1>2, <1>4 DEF Receive, Idle
  <2>2. tab' = [tab EXCEPT ![t] = p]
    BY <1>4, Before DEF Receive
  <2>3. p \in Page /\ p.page = tab[t].page /\ p.hash = tab[t].hash /\ p.flow = tab[t].flow
    BY <2>1, Before DEF Page, Call
  <2>4. TabMoves(t)
    <3> HIDE DEF p
    <3> QED BY <2>2, <2>3, Before, TabGoes
  <2>5. CallsMove(t)
    BY <1>1, <1>2, <1>4, Answered DEF Receive
  <2> QED BY <1>3, <1>4, <2>4, <2>5, Before, TabKeeps DEF Receive
<1>5. CASE Serve(t, i)
  <2>1. c \in Call /\ UNCHANGED <<cookie, flows, late, expired, over>>
    BY <1>2, <1>5 DEF Serve
  <2>2. CASE Allow(t, i)
    <3>1. [c EXCEPT !.auth = None, !.answer = "over"] \in Call
          /\ [c EXCEPT !.auth = None, !.answer = "live"] \in Call
      BY <2>1 DEF Call, Shown
    <3>2. CallsMove(t)
      BY <1>1, <1>2, <2>2, <3>1, Answered DEF Allow
    <3>3. ApiMoves
      BY <1>3, <2>1, <2>2 DEF Allow, ApiMoves
    <3> QED BY <1>3, <2>1, <2>2, <3>2, <3>3, Before, TabKeeps DEF Allow
  <2>3. CASE Refuse(t, i)
    <3>1. ApiMoves
      BY <1>3, <2>1, <2>3 DEF Refuse, ApiMoves
    <3> QED BY <1>1, <2>1, <2>3, <3>1, Answered, Reactions, TabKeeps DEF Refuse
  <2>4. CASE Admit(t, i)
    <3>1. issued' \in Tokens /\ ApiMoves
      BY <1>3, <2>1, <2>4 DEF Admit, ApiMoves, Tokens
    <3> QED BY <1>1, <2>1, <2>4, <3>1, Answered, Reactions, TabKeeps DEF Admit
  <2>5. CASE Fail(t, i)
    <3>1. ApiMoves
      BY <1>3, <2>1, <2>5 DEF Fail, ApiMoves
    <3> QED BY <1>1, <2>1, <2>5, <3>1, Answered, Reactions, TabKeeps DEF Fail
  <2> QED BY <1>5, <2>2, <2>3, <2>4, <2>5 DEF Serve
<1> QED BY <1>1, <1>4, <1>5

\* The cookie is the number of the login a tab starts, above those of all the others
\* (github.rs:30-50, okta.rs:35-62); a return with another number, or with none to compare it with, is refused.
LEMMA ProviderKeeps ==
    ASSUME BrowserInv, NEW t \in Tabs, Provider(t)
    PROVE  BrowserInv'
<1>1. stored \in Tokens \cup {None} /\ issued \in 0..MaxTokens /\ faults \in 0..MaxFaults
      /\ MaxTokens \in Nat /\ MaxFlows \in Nat /\ flows \in 0..MaxFlows /\ cookie = (IF late THEN None ELSE flows)
      /\ expired \subseteq 1..issued /\ over \in BOOLEAN /\ late \in BOOLEAN
  BY WebClientAssumption DEF BrowserInv, TypeOK, CookieIsLast
<1>2. CASE Authorize(t)
  <2> DEFINE p == [NewTab EXCEPT !.page = "away", !.flow = flows + 1]
             c == [i \in 1..Calls[t] |-> Idle]
  <2>1. /\ flows' = flows + 1 /\ cookie' = flows' /\ late' = FALSE /\ flows' \in 1..MaxFlows
        /\ tab' = [tab EXCEPT ![t] = p] /\ call' = [call EXCEPT ![t] = c]
        /\ UNCHANGED <<stored, issued, expired, over, faults>>
    BY <1>1, <1>2 DEF Authorize
  <2>2. p \in Page /\ p.page = "away" /\ p.hash = None /\ p.flow = flows'
    BY <2>1 DEF NewTab, Page, Pages, Polling, Shown, None, Flows
  <2>3. c \in [1..Calls[t] -> Call \cup {Idle}]
    OBVIOUS
  <2> HIDE DEF p, c
  <2>4. tab' \in [Tabs -> Page] /\ call' = [u \in Tabs |-> call'[u]]
    BY <2>1, <2>2, Before DEF BrowserInv
  <2>5. ASSUME NEW u \in Tabs
        PROVE  /\ tab'[u].hash # None => tab'[u].page = "load"
               /\ call'[u] \in [1..Calls[u] -> Call \cup {Idle}]
               /\ FlowOf(u)'
    <3>1. CASE u = t
      <4>1. tab'[u] = p /\ call'[u] = c
        BY <2>1, <3>1, Before DEF BrowserInv
      <4>2. flows' \in 1..flows'
        BY <2>1, <1>1
      <4>3. FlowOf(u)'
        BY <2>2, <4>1, <4>2 DEF FlowOf
      <4>4. tab'[u].hash # None => tab'[u].page = "load"
        BY <2>2, <4>1
      <4>5. call'[u] \in [1..Calls[u] -> Call \cup {Idle}]
        BY <2>3, <3>1, <4>1
      <4> QED BY <4>3, <4>4, <4>5
    <3>2. CASE u # t
      <4>1. tab'[u] = tab[u] /\ call'[u] = call[u]
        BY <2>1, <3>2, Before DEF BrowserInv
      <4>2. FlowOf(u)'
        BY <1>1, <2>1, <4>1 DEF BrowserInv, FlowOf
      <4> QED BY <4>1, <4>2, Before
    <3> QED BY <3>1, <3>2
  <2>6. late' \in BOOLEAN
    BY <2>1, Zenon
  <2>7. TypeOK'
    BY <1>1, <2>1, <2>4, <2>5, <2>6 DEF TypeOK, Page, Flows
  <2> QED BY <2>1, <2>4, <2>5, <2>7 DEF BrowserInv, CookieIsLast
<1>3. CASE RefuseCallback(t)
  <2> DEFINE p == [tab[t] EXCEPT !.page = "refused"]
  <2>1. /\ tab' = [tab EXCEPT ![t] = p] /\ tab[t].page = "away" /\ tab[t].flow # cookie
        /\ UNCHANGED <<stored, cookie, serverVars, call, faults>>
    BY <1>3, Before DEF RefuseCallback, validate_state
  <2>2. /\ p \in Page /\ p.page = "refused" /\ p.hash = tab[t].hash /\ p.flow = tab[t].flow
        /\ tab[t].hash = None
    BY <2>1, Before DEF Page, Pages
  <2>3. tab[t].flow \in 1..flows /\ (tab[t].flow < flows \/ late)
    BY <1>1, <2>1 DEF BrowserInv, FlowOf
  <2> HIDE DEF p
  <2>4. tab' \in [Tabs -> Page]
    BY <2>1, <2>2, Before
  <2>5. ASSUME NEW u \in Tabs
        PROVE  (tab'[u].hash # None => tab'[u].page = "load") /\ FlowOf(u)'
    <3>1. CASE u = t
      BY <2>1, <2>2, <2>3, <3>1, Before DEF FlowOf, serverVars
    <3>2. CASE u # t
      BY <2>1, <3>2, Before DEF BrowserInv, FlowOf, serverVars
    <3> QED BY <3>1, <3>2
  <2> QED BY <2>1, <2>4, <2>5 DEF BrowserInv, TypeOK, CookieIsLast, serverVars, Page
<1>4. CASE Callback(t)
  <2>1. issued' \in Tokens /\ ApiMoves
    BY <1>1, <1>4 DEF Callback, ApiMoves, Tokens
  <2>2. TabMoves(t)
    BY <1>4, <2>1, Documents, TabGoes DEF Callback
  <2> QED BY <1>1, <1>4, <2>1, <2>2, Before, TabKeeps DEF Callback
<1>5. CASE FlowFails(t)
  <2> DEFINE p == [NewTab EXCEPT !.page = "error"]
             c == [i \in 1..Calls[t] |-> Idle]
  <2>1. p \in Page /\ p.hash = None /\ p.page = "error"
    BY DEF NewTab, Page, Pages, Shown, None
  <2>2. TabMoves(t)
    BY <1>5, <2>1, TabGoes DEF FlowFails
  <2>3. CallsMove(t)
    <3>1. c \in [1..Calls[t] -> Call \cup {Idle}]
      OBVIOUS
    <3> QED BY <1>5, <3>1, CallsGo DEF FlowFails
  <2>4. ApiMoves
    BY <1>1, <1>5, WebClientAssumption DEF FlowFails, ApiMoves, serverVars
  <2> QED BY <1>1, <1>5, <2>2, <2>3, <2>4, TabKeeps DEF FlowFails
<1>6. CASE Reopen(t)
  <2>1. NewTab \in Page /\ NewTab.hash = None /\ NewTab.page = "load"
    BY Documents DEF NewTab, None
  <2>2. TabMoves(t)
    BY <1>6, <2>1, TabGoes DEF Reopen
  <2> QED BY <1>1, <1>6, <2>2, Before, TabKeeps DEF Reopen
<1> QED BY <1>2, <1>3, <1>4, <1>5, <1>6 DEF Provider

LEMMA BrowserHolds == Spec => []BrowserInv
<1>1. Init => BrowserInv
  <2> SUFFICES ASSUME Init PROVE BrowserInv
    OBVIOUS
  <2>1. call = [t \in Tabs |-> call[t]]
        /\ \A t \in Tabs : call[t] \in [1..Calls[t] -> Call \cup {Idle}]
    BY DEF Init
  <2>2. /\ tab = [t \in Tabs |-> NewTab] /\ NewTab \in Page
        /\ NewTab.page = "load"
    BY DEF Init, NewTab, Page, Pages, Polling, Shown, None
  <2>3. TypeOK
    <3>1. tab \in [Tabs -> Page] /\ \A t \in Tabs : tab[t].hash # None => tab[t].page = "load"
      BY <2>2
    <3>2. /\ flows \in 0..MaxFlows /\ issued \in 0..MaxTokens /\ faults \in 0..MaxFaults
          /\ expired \subseteq 1..issued
      BY WebClientAssumption DEF Init
    <3>3. stored \in Tokens \cup {None} /\ cookie \in Flows \cup {None}
      BY DEF Init
    <3>4. late \in BOOLEAN /\ over \in BOOLEAN
      BY Zenon DEF Init
    <3> QED BY <2>1, <3>1, <3>2, <3>3, <3>4 DEF TypeOK, Page
  <2> QED BY <2>1, <2>2, <2>3 DEF Init, BrowserInv, CookieIsLast, FlowOf, None
<1>2. BrowserInv /\ [Next]_vars => BrowserInv'
  <2> SUFFICES ASSUME BrowserInv, [Next]_vars PROVE BrowserInv'
    OBVIOUS
  <2>1. CASE Expire
    <3>1. expired' \subseteq 1..issued'
      <4>1. PICK k \in 1..issued \ expired : expired' = expired \cup {k}
        BY <2>1 DEF Expire
      <4>2. issued' = issued /\ expired \subseteq 1..issued
        BY <2>1 DEF Expire, BrowserInv, TypeOK
      <4> QED BY <4>1, <4>2
    <3>2. UNCHANGED <<stored, cookie, flows, late, issued, over, tab, call, faults>>
      BY <2>1 DEF Expire
    <3>3. TypeOK'
      BY <3>1, <3>2 DEF BrowserInv, TypeOK
    <3>4. \A t \in Tabs : FlowOf(t)'
      BY <3>2 DEF BrowserInv, FlowOf
    <3> QED BY <3>2, <3>3, <3>4 DEF BrowserInv, CookieIsLast
  <2>2. CASE SessionEnds
    BY <2>2 DEF SessionEnds, BrowserInv, TypeOK, CookieIsLast, FlowOf
  <2>3. CASE Lapse
    <3>1. /\ cookie' = None /\ late' = TRUE /\ faults' \in 0..MaxFaults
          /\ UNCHANGED <<stored, flows, issued, expired, over, tab, call>>
      BY <2>3, WebClientAssumption DEF Lapse, BrowserInv, TypeOK
    <3>2. late' \in BOOLEAN
      BY <3>1, Zenon
    <3>3. TypeOK' /\ \A t \in Tabs : FlowOf(t)'
      BY <3>1, <3>2 DEF BrowserInv, TypeOK, FlowOf
    <3> QED BY <3>1, <3>3 DEF BrowserInv, CookieIsLast
  <2>4. CASE UNCHANGED vars
    BY <2>4 DEF vars, serverVars, BrowserInv, TypeOK, CookieIsLast, FlowOf
  <2> QED BY <2>1, <2>2, <2>3, <2>4, BrowseKeeps, ExchangeKeeps, ProviderKeeps DEF Next
<1> QED BY <1>1, <1>2, PTL DEF Spec

----------------------------------------------------------------------------
\* For any number of tabs, requests, tokens and logins: what is stored, sent and shown is
\* of its kind, and a token stays in the address of a page no longer than it takes to
\* load (App.tsx:25-45).
THEOREM BrowserTyped == Spec => []TypeOK
<1>1. BrowserInv => TypeOK
  BY DEF BrowserInv
<1> QED BY <1>1, BrowserHolds, PTL

\* However many tabs log in through however many providers, whichever return, fail or are
\* refused first: a return is only refused if another login was started since, or ten
\* minutes after its own was (oidc_common.rs:102-127).
THEOREM OnlyOvertakenOrLateAreRefused == Spec => []RefusedOnlyWhenOvertakenOrLate
<1>1. BrowserInv => RefusedOnlyWhenOvertakenOrLate
  BY DEF BrowserInv, FlowOf, RefusedOnlyWhenOvertakenOrLate
<1> QED BY <1>1, BrowserHolds, PTL
=============================================================================
