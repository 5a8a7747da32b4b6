------------------------------ MODULE WebClient ------------------------------
(***************************************************************************)
(* The tabs of one browser: what they share, the token in localStorage and *)
(* the oauth_state cookie, and what each keeps for itself, its page and    *)
(* its React state (App.tsx, auth/session.ts, api/client.ts and the pages  *)
(* that poll), with the handlers that issue, check and refuse their tokens *)
(* (routes/auth.rs, auth/github.rs, auth/okta.rs, auth/middleware.rs).     *)
(*                                                                         *)
(* An answer is handled when it arrives, whatever the tab, or another one, *)
(* has done since the request was sent.                                    *)
(***************************************************************************)
EXTENDS Integers

CONSTANTS
    Tabs,        \* the tabs of the browser
    Viewers,     \* bound: those in which a session is opened
    Calls,       \* bound: the requests each tab has under way at once
    MaxTokens,   \* bound: tokens that are ever issued
    MaxFlows,    \* bound: logins through a provider that are started
    MaxFaults    \* bound: requests and logins that fail without a verdict, and logins that
                 \* take too long

ASSUME WebClientAssumption ==
    /\ Viewers \subseteq Tabs /\ Calls \in [Tabs -> Nat \ {0}]
    /\ MaxTokens \in Nat /\ MaxFlows \in Nat /\ MaxFaults \in Nat

VARIABLES
    stored,   \* the token in localStorage; None, there is none
    cookie,   \* the oauth_state cookie; None, there is none
    flows,    \* how many logins through a provider were started
    late,     \* whether the last of them was started ten minutes ago or more
    issued,   \* how many tokens were issued
    expired,  \* those that no longer verify
    over,     \* whether the session that is looked at has ended
    tab,      \* the page and the React state of each tab
    call,     \* the requests each tab has under way
    faults    \* failures and delays so far

serverVars == <<flows, late, issued, expired, over>>
vars == <<stored, cookie, serverVars, tab, call, faults>>

None == 0
Tokens == 1..MaxTokens
Flows == 1..MaxFlows

\* load: the document is on its way; away: at the provider; refused: the API answered
\* the return from there with the 400 of validate_state; error: it answered a login or a
\* return with another bare error text.
Polling == {"home", "session"}
Pages == Polling \cup {"load", "login", "away", "refused", "error"}
NewTab == [page |-> "load", hash |-> None, flow |-> None, shown |-> "none"]

\* auth: the token that is sent; mounted: the page that sent the request is still there;
\* answer: what the API says of the session; none, it has not answered.
Shown == {"none", "live", "over"}
Idle == [kind |-> "idle"]
Call == [kind : Polling \cup {"login"}, auth : Tokens \cup {None}, mounted : BOOLEAN,
         answer : Shown]
Request(kind) == [kind |-> kind, auth |-> IF kind = "login" THEN None ELSE stored,
                  mounted |-> TRUE, answer |-> "none"]

TypeOK ==
    /\ stored \in Tokens \cup {None} /\ cookie \in Flows \cup {None}
    /\ flows \in 0..MaxFlows /\ late \in BOOLEAN
    /\ issued \in 0..MaxTokens /\ expired \subseteq 1..issued
    /\ over \in BOOLEAN /\ faults \in 0..MaxFaults
    /\ tab \in [Tabs -> [page : Pages, hash : Tokens \cup {None}, flow : Flows \cup {None},
                         shown : Shown]]
    /\ \A t \in Tabs : tab[t].hash # None => tab[t].page = "load"
    /\ \A t \in Tabs : call[t] \in [1..Calls[t] -> Call \cup {Idle}]

Init ==
    /\ stored = None /\ cookie = None
    /\ flows = 0 /\ late = FALSE /\ issued = 0 /\ expired = {} /\ over = FALSE
    /\ tab = [t \in Tabs |-> NewTab]
    /\ call = [t \in Tabs |-> [i \in 1..Calls[t] |-> Idle]]
    /\ faults = 0

----------------------------------------------------------------------------
(* The client *)

verifies(k) == k \in 1..issued \ expired

\* The router replaces the page: its requests go on without it, and nothing looks at the
\* session they bring.
unmounted(t) == [i \in 1..Calls[t] |->
    LET c == call[t][i] IN
    CASE c.kind \in {"idle", "home"} -> c
      [] c.kind = "session" /\ c.answer # "none" -> Idle
      [] OTHER -> [c EXCEPT !.mounted = FALSE]]

\* window.location: the document goes, and with it the requests under way; until then
\* its callbacks still run.
Leave(t, hash) == [tab[t] EXCEPT !.page = "load", !.hash = hash, !.flow = None]

\* The document is there: useState reads the token, then the effects run, those of the
\* children first.  Without a token ProtectedRoute goes to /login, and what stood in the
\* fragment is gone when App looks for it; with one, Dashboard has asked for its sessions
\* with the old token before App stores the new one.
found(t) == IF stored # None /\ tab[t].hash # None THEN tab[t].hash ELSE stored
Enter(t, hash) ==
    /\ stored' = found(t)
    /\ LET page == IF stored = None THEN "login" ELSE "home" IN
       /\ tab' = [tab EXCEPT ![t] = [NewTab EXCEPT !.page = page, !.hash = hash]]
       /\ call' = [call EXCEPT ![t] = [i \in 1..Calls[t] |->
                      IF i = 1 /\ page = "home" THEN Request(page) ELSE Idle]]
    /\ UNCHANGED <<cookie, serverVars, faults>>

\* Broken form: the fragment is left as it is.
keep_hash(t) == tab[t].page = "load" /\ Enter(t, tab[t].hash)

Load(t) == tab[t].page = "load" /\ Enter(t, None)

Send(t, kind) == \E i \in 1..Calls[t] :
    /\ call[t][i] = Idle /\ \A j \in 1..i - 1 : call[t][j] # Idle
    /\ call' = [call EXCEPT ![t][i] = Request(kind)]

\* Broken form: setTimeout in place of setInterval.
poll_once(t) ==
    /\ tab[t].page \in Polling /\ tab[t].shown = "none"
    /\ Send(t, tab[t].page)
    /\ UNCHANGED <<stored, cookie, serverVars, tab, faults>>

\* setInterval: the next request does not wait for the answer to the last.
Poll(t) ==
    /\ tab[t].page \in Polling
    /\ Send(t, tab[t].page)
    /\ UNCHANGED <<stored, cookie, serverVars, tab, faults>>

\* The user goes from the dashboard to a session, or back.
Visit(t) ==
    /\ t \in Viewers /\ tab[t].page \in Polling
    /\ tab' = [tab EXCEPT ![t].page = CHOOSE p \in Polling : p # @, ![t].shown = "none"]
    /\ call' = [call EXCEPT ![t] = unmounted(t)]
    /\ UNCHANGED <<stored, cookie, serverVars, faults>>

\* handleSubmit: the button is disabled until the answer is there.
Submit(t) ==
    /\ tab[t].page = "login"
    /\ \A i \in 1..Calls[t] : call[t][i].kind = "login" => ~ call[t][i].mounted
    /\ Send(t, "login")
    /\ UNCHANGED <<stored, cookie, serverVars, tab, faults>>

Logout(t) ==
    /\ tab[t].page \in Polling
    /\ stored' = None
    /\ tab' = [tab EXCEPT ![t] = [NewTab EXCEPT !.page = "login"]]
    /\ call' = [call EXCEPT ![t] = unmounted(t)]
    /\ UNCHANGED <<cookie, serverVars, faults>>

----------------------------------------------------------------------------
(* Answers *)

\* Broken form: the page is left without clearing the login.
only_redirect(t) ==
    tab' = [tab EXCEPT ![t] = Leave(t, None)] /\ UNCHANGED stored

\* request(): whatever was refused, and whichever token it carried.
Unauthorized(t) ==
    tab' = [tab EXCEPT ![t] = Leave(t, None)] /\ stored' = None

\* login() stores the token and goes home, unless the document is being left.
LoggedIn(t, k) ==
    /\ stored' = k
    /\ tab' = [tab EXCEPT ![t].page = IF @ = "load" THEN @ ELSE "home"]

\* navigate('/') of a session page, also when that page was left meanwhile.
GoHome(t) ==
    /\ tab' = [tab EXCEPT ![t].page = IF @ \in Polling THEN "home" ELSE @,
                          ![t].shown = "none"]
    /\ UNCHANGED stored

Answer(t, i, and) == call' = [call EXCEPT ![t][i] = and]
Leaving(t, i) == call' = [call EXCEPT ![t] = [unmounted(t) EXCEPT ![i] = Idle]]

\* What the API says of the session is shown when the answer arrives.
Receive(t, i) ==
    /\ call[t][i].kind = "session" /\ call[t][i].answer # "none"
    /\ tab' = [tab EXCEPT ![t].shown = call[t][i].answer]
    /\ Answer(t, i, Idle)
    /\ UNCHANGED <<stored, cookie, serverVars, faults>>

----------------------------------------------------------------------------
(* The API.  A verdict that no later step takes back, and an answer that says nothing  *)
(* of what changes, is given and handled in one step.                                  *)

\* auth_middleware and get_session, or any other handler that lets the request through.
Allow(t, i) == LET c == call[t][i] IN
    /\ c.kind \in Polling /\ verifies(c.auth)
    /\ IF c.kind = "session" /\ c.mounted
         THEN Answer(t, i, [c EXCEPT !.auth = None, !.answer = IF over THEN "over" ELSE "live"])
         ELSE Answer(t, i, Idle)
    /\ UNCHANGED <<stored, issued, tab, faults>>

\* auth_middleware refuses the token, or login the password.
Refuse(t, i) == LET c == call[t][i] IN
    /\ c.kind \in Polling => ~ verifies(c.auth)
    /\ Unauthorized(t) /\ Leaving(t, i)
    /\ UNCHANGED <<issued, faults>>

\* login, register: handleSubmit goes on with the token.
Admit(t, i) ==
    /\ call[t][i].kind = "login"
    /\ issued < MaxTokens /\ issued' = issued + 1
    /\ LoggedIn(t, issued') /\ Leaving(t, i)
    /\ UNCHANGED faults

\* No verdict: a session page is left; nothing comes of it elsewhere.
Fail(t, i) ==
    /\ call[t][i].kind = "session" /\ faults < MaxFaults /\ faults' = faults + 1
    /\ GoHome(t) /\ Leaving(t, i)
    /\ UNCHANGED issued

Serve(t, i) ==
    /\ call[t][i] # Idle /\ call[t][i].answer = "none"
    /\ Allow(t, i) \/ Refuse(t, i) \/ Admit(t, i) \/ Fail(t, i)
    /\ UNCHANGED <<cookie, flows, late, expired, over>>

\* github_authorize, okta_authorize: every login through a provider overwrites the one
\* cookie of the browser.
Authorize(t) ==
    /\ tab[t].page = "login" /\ flows < MaxFlows
    /\ flows' = flows + 1
    /\ cookie' = flows' /\ late' = FALSE
    /\ tab' = [tab EXCEPT ![t] = [NewTab EXCEPT !.page = "away", !.flow = flows']]
    /\ call' = [call EXCEPT ![t] = [i \in 1..Calls[t] |-> Idle]]
    /\ UNCHANGED <<stored, issued, expired, over, faults>>

\* A cookie that is gone matches nothing.
validate_state(t) == tab[t].flow = cookie

\* Broken form: a callback that was refused clears the cookie.
clears_cookie(t) ==
    /\ tab[t].page = "away" /\ ~ validate_state(t)
    /\ cookie' = None
    /\ tab' = [tab EXCEPT ![t].page = "refused"]
    /\ UNCHANGED <<stored, serverVars, call, faults>>

RefuseCallback(t) ==
    /\ tab[t].page = "away" /\ ~ validate_state(t)
    /\ tab' = [tab EXCEPT ![t].page = "refused"]
    /\ UNCHANGED <<stored, cookie, serverVars, call, faults>>

\* github_callback, okta_callback: the token comes back in the fragment.
Callback(t) ==
    /\ tab[t].page = "away" /\ validate_state(t)
    /\ issued < MaxTokens /\ issued' = issued + 1
    /\ tab' = [tab EXCEPT ![t] = Leave(t, issued')]
    /\ UNCHANGED <<stored, cookie, flows, late, expired, over, call, faults>>

\* The start of a login fails, or its return: discovery, the exchange of the code, the
\* profile or the upsert, or the user declined and there is no code.  The cookie is left
\* as it is.
FlowFails(t) ==
    /\ tab[t].page \in {"login", "away"} /\ faults < MaxFaults /\ faults' = faults + 1
    /\ tab' = [tab EXCEPT ![t] = [NewTab EXCEPT !.page = "error"]]
    /\ call' = [call EXCEPT ![t] = [i \in 1..Calls[t] |-> Idle]]
    /\ UNCHANGED <<stored, cookie, serverVars>>

\* The user opens the client again in a tab that shows an error or the provider.
Reopen(t) ==
    /\ tab[t].page \in {"away", "refused", "error"}
    /\ tab' = [tab EXCEPT ![t] = NewTab]
    /\ UNCHANGED <<stored, cookie, serverVars, call, faults>>

----------------------------------------------------------------------------
(* Time *)

Expire ==
    /\ \E k \in 1..issued \ expired : expired' = expired \cup {k}
    /\ UNCHANGED <<stored, cookie, flows, late, issued, over, tab, call, faults>>

\* Max-Age=600 of the cookie: it is the last login's, whatever the age of the others.
Lapse ==
    /\ cookie # None /\ cookie' = None /\ late' = TRUE
    /\ faults < MaxFaults /\ faults' = faults + 1
    /\ UNCHANGED <<stored, flows, issued, expired, over, tab, call>>

SessionEnds ==
    /\ ~ over /\ over' = TRUE
    /\ UNCHANGED <<stored, cookie, flows, late, issued, expired, tab, call, faults>>

----------------------------------------------------------------------------
Browse(t) == Load(t) \/ Poll(t) \/ Visit(t) \/ Submit(t) \/ Logout(t)
Exchange(t) == \E i \in 1..Calls[t] : Serve(t, i) \/ Receive(t, i)
Provider(t) ==
    Authorize(t) \/ RefuseCallback(t) \/ Callback(t) \/ FlowFails(t) \/ Reopen(t)

Next ==
    \/ \E t \in Tabs : Browse(t) \/ Exchange(t) \/ Provider(t)
    \/ Expire \/ Lapse \/ SessionEnds

\* Documents load, timers fire, and every request is answered; the user does nothing of
\* necessity.
Fairness == \A t \in Tabs :
    /\ WF_vars(Load(t) \/ Poll(t))
    /\ \A i \in 1..Calls[t] : WF_vars(Serve(t, i) \/ Receive(t, i))

Spec == Init /\ [][Next]_vars /\ Fairness

----------------------------------------------------------------------------
(* Properties *)

\* When the stored token is gone or has expired for good, logged out in another tab or
\* cleared by an answer to another tab, every page that polls is left in the end, and
\* is not returned to in a circle of redirects (client.ts:21-24, App.tsx:38-42,
\* Login.tsx:17-19).
DeadLoginSettles == \A t \in Tabs :
    <>[](~ verifies(stored)) => <>[](tab[t].page \notin Polling)

\* A page on which a session stays open shows its end in the end and for good, although
\* its polls overlap and are answered in any order (SessionDetail.tsx:13-21).
EndIsShown == \A t \in Viewers :
    <>[](over /\ tab[t].page = "session" /\ verifies(stored)) => <>[](tab[t].shown = "over")

\* The return from a provider is refused only if this browser has started another login
\* since, or ten minutes have passed (oidc_common.rs:102-127, github.rs:56-60): not for
\* the return, the failure or the refusal of a login in another tab.
RefusedOnlyWhenOvertakenOrLate == \A t \in Tabs :
    tab[t].page = "refused" => tab[t].flow < flows \/ late
=============================================================================
