------------------------------ MODULE Sessions ------------------------------
(* Who is signed in where: the browser rows, the OAuth states and the        *)
(* sessions of web-sessions.db, and the requests of several tabs that work   *)
(* on them between their awaits. The database answers at once; the OAuth     *)
(* client and the PDSs behind it take their time.                            *)
EXTENDS Integers, Sequences, SequencesExt, Picking

CONSTANTS
    Agent,          \* people's browsers, each with its cookie jar
    Tab, AgentOf,   \* their tabs: Tab -> Agent
    DID,            \* accounts
    MaxBrowsers,    \* bound: rows of table browser
    MaxStates,      \* bound: sign-ins started
    None            \* undefined, null

ASSUME SessionsAssumption ==
    /\ AgentOf \in [Tab -> Agent]
    /\ MaxBrowsers \in Nat /\ MaxStates \in Nat
    /\ None \notin DID \cup Nat

Browser == 1..MaxBrowsers
OAuthState == 1..MaxStates

VARIABLES
    jar,        \* the isnot_browser cookie of each agent
    rows,       \* table browser: its accounts in order and the current one
    states,     \* per sign-in: the browser and age of its oauth_link row, whether the
                \* client still keeps its own half, the account approved at its PDS
    sessions,   \* accounts with a row of oauth_session their PDS still honours
    requests    \* per tab: the request it waits for

vars == <<jar, rows, states, sessions, requests>>

NoRow == [dids |-> <<>>, current |-> None, exists |-> FALSE]
EmptyRow == [NoRow EXCEPT !.exists = TRUE]
NoState == [browser |-> None, link |-> "none", client |-> "none", account |-> None]
NoRequest == [kind |-> "none", browser |-> None, state |-> None, did |-> None,
              newRow |-> FALSE, unread |-> {}, failed |-> {}]

-----------------------------------------------------------------------------
(* sessions.ts, on a browser's row. *)

Accounts(b) == ToSet(rows[b].dids)

WithAccount_Replaces(row, did) == [row EXCEPT !.dids = <<did>>, !.current = did]
WithAccount(row, did) ==
    [row EXCEPT !.dids = IF Contains(@, did) THEN @ ELSE Append(@, did), !.current = did]

WithCurrent_Unchecked(row, did) == [row EXCEPT !.current = did]
WithCurrent(row, did) == IF Contains(row.dids, did) THEN [row EXCEPT !.current = did] ELSE row

(* dids.at(-1) ?? null *)
LastOf(dids) == IF dids = <<>> THEN None ELSE Last(dids)

LeftOf(dids, gone) == Picked(dids, {i \in DOMAIN dids : dids[i] \notin gone})

WithoutAccount(row, did) ==
    LET left == LeftOf(row.dids, {did})
    IN  [row EXCEPT !.dids = left, !.current = IF @ = did THEN LastOf(left) ELSE @]

(* removeAccount for one after the other, in whatever order.                 *)
WithoutAccounts(row, gone) ==
    LET left == LeftOf(row.dids, gone)
    IN  [row EXCEPT !.dids = left, !.current = IF @ \in gone THEN LastOf(left) ELSE @]

(* ensureBrowser: the row the cookie names, or a new one; only a new row's   *)
(* cookie goes out with the response.                                        *)
NewRow(t) == jar[AgentOf[t]] = None
Ensured(t, b) ==
    IF NewRow(t) THEN ~rows[b].exists /\ \A c \in Browser : c < b => rows[c].exists
    ELSE b = jar[AgentOf[t]]
Respond(t, b, newRow) ==
    /\ jar' = IF newRow THEN [jar EXCEPT ![AgentOf[t]] = b] ELSE jar
    /\ requests' = [requests EXCEPT ![t] = NoRequest]
Existing(b) == [rows[b] EXCEPT !.exists = TRUE]

Idle(t) == requests[t].kind = "none"
Asks(t, request) == requests' = [requests EXCEPT ![t] = request]

-----------------------------------------------------------------------------
(* Pages: locals.browser is read when the request starts, accountsFor        *)
(* restores every session of it, then removes those that did not restore     *)
(* from the row as it is by then.                                            *)

Load(t) ==
    /\ Idle(t) /\ jar[AgentOf[t]] # None
    /\ LET b == jar[AgentOf[t]]
       IN  Asks(t, [NoRequest EXCEPT !.kind = "load", !.browser = b, !.unread = Accounts(b)])
    /\ UNCHANGED <<jar, rows, states, sessions>>

LoadSignedOut(t) == Idle(t) /\ jar[AgentOf[t]] = None /\ UNCHANGED vars

(* oauthClient().restore: null for a session that is gone or refused, and    *)
(* for any error of the network.                                             *)
Restore(t, did) ==
    /\ requests[t].kind = "load" /\ did \in requests[t].unread
    /\ \/ did \in sessions /\ Asks(t, [requests[t] EXCEPT !.unread = @ \ {did}])
       \/ Asks(t, [requests[t] EXCEPT !.unread = @ \ {did}, !.failed = @ \cup {did}])
    /\ UNCHANGED <<jar, rows, states, sessions>>

SignedOut_DisplayOnly(t) == rows
SignedOut(t) ==
    [b \in Browser |->
        IF b = requests[t].browser THEN WithoutAccounts(rows[b], requests[t].failed) ELSE rows[b]]

Loaded(t) ==
    /\ requests[t].kind = "load" /\ requests[t].unread = {}
    /\ rows' = SignedOut(t)
    /\ Asks(t, NoRequest)
    /\ UNCHANGED <<jar, states, sessions>>

-----------------------------------------------------------------------------
(* Signing in: login, the PDS's consent page, callback. *)

(* login: ensureBrowser and linkState, before the await of authorize. *)
Login(t) ==
    /\ Idle(t)
    /\ \E b \in Browser, s \in OAuthState :
          /\ Ensured(t, b)
          /\ states[s] = NoState /\ \A r \in OAuthState : r < s => states[r] # NoState
          /\ rows' = [rows EXCEPT ![b] = Existing(b)]
          /\ states' = [states EXCEPT ![s] = [NoState EXCEPT !.browser = b, !.link = "fresh"]]
          /\ Asks(t, [NoRequest EXCEPT !.kind = "login", !.browser = b, !.newRow = NewRow(t), !.state = s])
    /\ UNCHANGED <<jar, sessions>>

(* authorize keeps its own half of the state and the redirect goes out, or   *)
(* fails; the cookie goes out either way.                                    *)
Authorized(t) ==
    /\ requests[t].kind = "login"
    /\ \/ states' = [states EXCEPT ![requests[t].state].client = "kept"]
       \/ UNCHANGED states
    /\ Respond(t, requests[t].browser, requests[t].newRow)
    /\ UNCHANGED <<rows, sessions>>

(* Somebody approves at the PDS, as whichever account they are there, and    *)
(* the redirect back is opened, in any tab: the client takes its half of the *)
(* state once and throws for one it does not keep.                           *)
Callback(t, s, did) ==
    /\ Idle(t) /\ states[s].client = "kept"
    /\ states' = [states EXCEPT ![s].client = "used", ![s].account = did]
    /\ \E b \in Browser :
          /\ Ensured(t, b)
          /\ rows' = [rows EXCEPT ![b] = Existing(b)]
          /\ Asks(t, [NoRequest EXCEPT !.kind = "callback", !.browser = b, !.newRow = NewRow(t), !.state = s])
    /\ UNCHANGED <<jar, sessions>>

Taken_AnyAge(s) == states[s].browser

(* takeState: the row is read, it and every older than an hour are deleted;  *)
(* only a fresh one says whose it was.                                       *)
Taken(s) == IF states[s].link = "fresh" THEN states[s].browser ELSE None
AfterTaking(s) ==
    [r \in OAuthState |->
        IF r = s \/ states[r].link = "old" THEN [states[r] EXCEPT !.link = "gone"] ELSE states[r]]

StateIsMine_AnyBrowser(t) == Taken(requests[t].state) # None

(* if (!state || takeState(state) !== browser.id) *)
StateIsMine(t) == Taken(requests[t].state) = requests[t].browser
(* The client has exchanged the code and stored the session.                 *)
CalledBack(t) ==
    /\ requests[t].kind = "callback"
    /\ LET s == requests[t].state
           b == requests[t].browser
           did == states[s].account
       IN  /\ sessions' = sessions \cup {did}
           /\ states' = AfterTaking(s)
           /\ rows' = IF StateIsMine(t) THEN [rows EXCEPT ![b] = WithAccount(@, did)] ELSE rows
           /\ Respond(t, b, requests[t].newRow)

CallbackFails(t) ==
    /\ requests[t].kind = "callback" /\ Asks(t, NoRequest)
    /\ UNCHANGED <<jar, rows, states, sessions>>

-----------------------------------------------------------------------------
(* Signing out and switching. *)

(* The row changes before the await of revoke. *)
Logout(t, did) ==
    /\ Idle(t)
    /\ \E b \in Browser :
          /\ Ensured(t, b)
          /\ rows' = [rows EXCEPT ![b] = WithoutAccount(Existing(b), did)]
          /\ Asks(t, [NoRequest EXCEPT !.kind = "logout", !.browser = b, !.newRow = NewRow(t), !.did = did])
    /\ UNCHANGED <<jar, states, sessions>>

(* revoke deletes the session, or fails, which is ignored.                   *)
Revoked(t) ==
    /\ requests[t].kind = "logout"
    /\ sessions' = sessions \ {requests[t].did} \/ UNCHANGED sessions
    /\ Respond(t, requests[t].browser, requests[t].newRow)
    /\ UNCHANGED <<rows, states>>

Switch(t, did) ==
    /\ Idle(t)
    /\ \E b \in Browser :
          /\ Ensured(t, b)
          /\ rows' = [rows EXCEPT ![b] = WithCurrent(Existing(b), did)]
          /\ Respond(t, b, NewRow(t))
    /\ UNCHANGED <<states, sessions>>

-----------------------------------------------------------------------------
(* Outside: a state grows older than an hour, a PDS stops honouring a        *)
(* session. An agent that lost its cookie is another agent.                  *)

Ages(s) ==
    /\ states[s].link = "fresh" /\ states' = [states EXCEPT ![s].link = "old"]
    /\ UNCHANGED <<jar, rows, sessions, requests>>
SessionDies(did) ==
    /\ did \in sessions /\ sessions' = sessions \ {did}
    /\ UNCHANGED <<jar, rows, states, requests>>

-----------------------------------------------------------------------------

Init ==
    /\ jar = [a \in Agent |-> None]
    /\ rows = [b \in Browser |-> NoRow]
    /\ states = [s \in OAuthState |-> NoState]
    /\ sessions = {}
    /\ requests = [t \in Tab |-> NoRequest]

TabNext(t) ==
    \/ Load(t) \/ Loaded(t) \/ Login(t) \/ Authorized(t) \/ CalledBack(t) \/ CallbackFails(t) \/ Revoked(t)
    \/ \E d \in DID : Restore(t, d) \/ Logout(t, d) \/ Switch(t, d)
    \/ \E s \in OAuthState, d \in DID : Callback(t, s, d)
    \/ LoadSignedOut(t)

Next ==
    \/ \E t \in Tab : TabNext(t)
    \/ \E s \in OAuthState : Ages(s)
    \/ \E d \in DID : SessionDies(d)

Spec == Init /\ [][Next]_vars

-----------------------------------------------------------------------------

TypeOK ==
    /\ jar \in [Agent -> Browser \cup {None}]
    /\ rows \in [Browser -> [dids : Seq(DID), current : DID \cup {None}, exists : BOOLEAN]]
    /\ states \in [OAuthState -> [browser : Browser \cup {None}, link : {"none", "fresh", "old", "gone"},
                                  client : {"none", "kept", "used"}, account : DID \cup {None}]]
    /\ sessions \subseteq DID
    /\ requests \in [Tab -> [kind : {"none", "load", "login", "callback", "logout"},
                             browser : Browser \cup {None}, state : OAuthState \cup {None},
                             did : DID \cup {None}, newRow : BOOLEAN,
                             unread : SUBSET DID, failed : SUBSET DID]]

(* A browser's current account is one of its accounts, there is one as long  *)
(* as it has any, and none is listed twice, in whatever order tabs add,      *)
(* switch, sign out and find sessions gone (sessions.ts:82-100).             *)
CurrentIsSignedIn ==
    \A b \in Browser :
        /\ rows[b].current \in Accounts(b) \cup {None}
        /\ rows[b].current = None => rows[b].dids = <<>>
        /\ \A i, j \in 1..Len(rows[b].dids) : rows[b].dids[i] = rows[b].dids[j] => i = j

(* An account is listed only in the browser whose own sign-in it was         *)
(* approved for, in whichever tab or agent the redirect back is opened       *)
(* (oauth/callback/+server.ts:10-11, sessions.ts:102-124).                   *)
SignInsStayHome ==
    \A b \in Browser, d \in DID :
        d \in Accounts(b) => \E s \in OAuthState : states[s].browser = b /\ states[s].account = d

(* An account enters a browser only with a state that was fresh and is spent *)
(* by that step, a callback's: no page, switch or sign-out that read the row *)
(* earlier brings an account back (accounts.ts:89-93, sessions.ts:112-124).  *)
EnteringSpendsAState ==
    [][\A b \in Browser, d \in DID :
          d \in Accounts(b)' \ Accounts(b) =>
              \E s \in OAuthState : /\ states[s].link = "fresh" /\ states'[s].link = "gone"
                                    /\ states[s].browser = b /\ states[s].account = d]_vars

(* An account leaves a browser only by its own sign-out there or by a page   *)
(* that failed to restore it: a request that read the row earlier takes no   *)
(* other account with it (accounts.ts:89-93).                                *)
LeavingHasAReason ==
    [][\A b \in Browser, d \in DID :
          d \in Accounts(b) \ Accounts(b)' =>
              \E t \in Tab : \/ requests'[t].kind = "logout" /\ requests'[t].browser = b /\ requests'[t].did = d
                             \/ requests[t].browser = b /\ d \in requests[t].failed]_vars

(* "A session the PDS will no longer honour must read as signed out"         *)
(* (accounts.ts:75-79): as long as pages keep being loaded from a browser,   *)
(* an account whose session is gone leaves it or is signed in again.         *)
GoneSessionsLeave ==
    \A b \in Browser, d \in DID :
        []<><<\E t \in Tab : Loaded(t) /\ requests[t].browser = b>>_vars
            => (d \in Accounts(b) /\ d \notin sessions ~> d \notin Accounts(b) \/ d \in sessions)
=============================================================================
