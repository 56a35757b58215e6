--------------------------- MODULE SessionsProofs ---------------------------
(***************************************************************************)
(* Proofs about browsers and their accounts, for any people, tabs and      *)
(* accounts and any interleaving of their requests: what a row says is     *)
(* consistent, an account is listed only where it was signed in, enters    *)
(* only by spending a state and leaves only for a reason.                  *)
(***************************************************************************)
EXTENDS Sessions, SequenceFacts

BrowserRow == [dids : Seq(DID), current : DID \cup {None}, exists : BOOLEAN]

RowOK(row) ==
    /\ row.current \in ToSet(row.dids) \cup {None}
    /\ row.current = None => row.dids = <<>>
    /\ \A i, j \in 1..Len(row.dids) : row.dids[i] = row.dids[j] => i = j

(* A request knows its browser; a sign-in that authorize works on is this  *)
(* request's alone and not approved yet, one that comes back was approved. *)
RequestOK(t) ==
    /\ requests[t].kind # "none" => requests[t].browser \in Browser
    /\ requests[t].kind \in {"login", "callback"} => requests[t].state \in OAuthState
    /\ requests[t].kind = "login" =>
          /\ states[requests[t].state].client = "none" /\ states[requests[t].state].browser # None
          /\ \A u \in Tab : requests[u].kind = "login" /\ requests[u].state = requests[t].state => u = t
    /\ requests[t].kind = "callback" => states[requests[t].state].account # None

(* The client's half of a state is spent when somebody approves.           *)
StateOK(s) ==
    /\ states[s].account # None => states[s].client = "used"
    /\ states[s].browser = None => states[s] = NoState

SInv ==
    /\ TypeOK
    /\ \A b \in Browser : RowOK(rows[b])
    /\ \A t \in Tab : RequestOK(t)
    /\ \A s \in OAuthState : StateOK(s)
    /\ SignInsStayHome
-----------------------------------------------------------------------------
(* Rows. *)

LEMMA LeftFacts ==
    ASSUME NEW dids \in Seq(DID), NEW gone
    PROVE  /\ LeftOf(dids, gone) \in Seq(DID)
           /\ ToSet(LeftOf(dids, gone)) = ToSet(dids) \ gone
           /\ (\A i, j \in 1..Len(dids) : dids[i] = dids[j] => i = j) =>
                 \A i, j \in 1..Len(LeftOf(dids, gone)) : LeftOf(dids, gone)[i] = LeftOf(dids, gone)[j] => i = j
<1>. DEFINE positions == {i \in DOMAIN dids : dids[i] \notin gone}
            left == Picked(dids, positions)
<1>1. LeftOf(dids, gone) = left BY DEF LeftOf
<1>. HIDE DEF left
<1>2. /\ left \in Seq(DID)
      /\ \A x : (\E i \in DOMAIN left : left[i] = x) <=> \E n \in DOMAIN dids : n \in positions /\ dids[n] = x
      /\ (\A i, j \in DOMAIN dids : dids[i] = dids[j] => i = j) => \A i, j \in DOMAIN left : left[i] = left[j] => i = j
  BY PickedFacts DEF left
<1>3. ToSet(left) = ToSet(dids) \ gone
  <2>1. \A x : x \in ToSet(left) <=> \E i \in DOMAIN left : left[i] = x BY DEF ToSet
  <2>2. \A x : x \in ToSet(dids) \ gone <=> \E n \in DOMAIN dids : n \in positions /\ dids[n] = x BY DEF ToSet
  <2>. QED BY <1>2, <2>1, <2>2
<1>4. DOMAIN dids = 1..Len(dids) /\ DOMAIN left = 1..Len(left) BY <1>2
<1>. QED BY <1>1, <1>2, <1>3, <1>4

LEMMA LastIsListed ==
    ASSUME NEW dids \in Seq(DID)
    PROVE  IF dids = <<>> THEN LastOf(dids) = None ELSE LastOf(dids) \in ToSet(dids)
BY DEF LastOf, Last, ToSet

(* removeAccount, for any accounts.                                        *)
LEMMA RemovalKeeps ==
    ASSUME NEW row \in BrowserRow, RowOK(row), NEW gone \in SUBSET DID
    PROVE  /\ WithoutAccounts(row, gone) \in BrowserRow /\ RowOK(WithoutAccounts(row, gone))
           /\ ToSet(WithoutAccounts(row, gone).dids) = ToSet(row.dids) \ gone
<1>. DEFINE left == LeftOf(row.dids, gone)
            after == WithoutAccounts(row, gone)
<1>1. /\ left \in Seq(DID) /\ ToSet(left) = ToSet(row.dids) \ gone
      /\ \A i, j \in 1..Len(left) : left[i] = left[j] => i = j
  BY LeftFacts DEF BrowserRow, RowOK
<1>2. after.dids = left /\ after.current = IF row.current \in gone THEN LastOf(left) ELSE row.current
  BY DEF WithoutAccounts, BrowserRow
<1>. HIDE DEF left
<1>3. ToSet(left) \subseteq DID BY <1>1 DEF ToSet
<1>4. LastOf(left) \in ToSet(left) \cup {None} /\ (LastOf(left) = None => left = <<>>)
  BY <1>1, <1>3, LastIsListed, SessionsAssumption
<1>5. after \in BrowserRow BY <1>1, <1>3, <1>4 DEF BrowserRow, WithoutAccounts, left
<1>6. row.current \notin gone => row.current \in ToSet(left) \cup {None} BY <1>1 DEF RowOK
<1>7. row.current = None => left = <<>>
  <2>. SUFFICES ASSUME row.current = None PROVE left = <<>> OBVIOUS
  <2>1. ToSet(row.dids) = {} BY DEF RowOK, ToSet
  <2>2. left # <<>> => left[1] \in ToSet(left) BY <1>1 DEF ToSet
  <2>. QED BY <1>1, <2>1, <2>2
<1>8. RowOK(after) BY <1>1, <1>2, <1>4, <1>6, <1>7 DEF RowOK
<1>. QED BY <1>1, <1>2, <1>5, <1>8

LEMMA OneRemoved ==
    ASSUME NEW row \in BrowserRow, NEW did
    PROVE  WithoutAccount(row, did) = WithoutAccounts(row, {did})
BY DEF WithoutAccount, WithoutAccounts, BrowserRow

LEMMA AdditionKeeps ==
    ASSUME NEW row \in BrowserRow, RowOK(row), NEW did \in DID
    PROVE  /\ WithAccount(row, did) \in BrowserRow /\ RowOK(WithAccount(row, did))
           /\ ToSet(WithAccount(row, did).dids) = ToSet(row.dids) \cup {did}
<1>. DEFINE more == IF Contains(row.dids, did) THEN row.dids ELSE Append(row.dids, did)
            after == WithAccount(row, did)
<1>1. after.dids = more /\ after.current = did BY DEF WithAccount, BrowserRow
<1>2. CASE Contains(row.dids, did)
  <2>1. did \in ToSet(row.dids) BY <1>2 DEF Contains, ToSet, BrowserRow
  <2>2. after \in BrowserRow BY <1>2 DEF BrowserRow, WithAccount
  <2>. QED BY <1>1, <1>2, <2>1, <2>2, SessionsAssumption DEF RowOK
<1>3. CASE ~Contains(row.dids, did)
  <2>. DEFINE n == Len(row.dids)
  <2>1. row.dids \in Seq(DID) /\ n \in Nat BY DEF BrowserRow
  <2>2. /\ more \in Seq(DID) /\ Len(more) = n + 1 /\ more[n + 1] = did
        /\ \A i \in 1..n : more[i] = row.dids[i]
    BY <1>3, <2>1, AppendProperties
  <2>. HIDE DEF n
  <2>3. after \in BrowserRow BY <1>1, <2>2 DEF BrowserRow, WithAccount
  <2>4. \A i \in 1..n : row.dids[i] # did BY <1>3 DEF Contains, n
  <2>5. 1..(n + 1) = (1..n) \cup {n + 1} BY <2>1
  <2>6. ToSet(more) = ToSet(row.dids) \cup {did}
    <3>1. DOMAIN more = 1..(n + 1) /\ DOMAIN row.dids = 1..n BY <2>1, <2>2 DEF n
    <3>. HIDE DEF more
    <3>. QED BY <2>2, <2>5, <3>1 DEF ToSet
  <2>7. \A i, j \in 1..n : row.dids[i] = row.dids[j] => i = j BY DEF RowOK, n
  <2>8. \A i, j \in 1..(n + 1) : more[i] = more[j] => i = j
    <3>. HIDE DEF more
    <3>. QED BY <2>2, <2>4, <2>5, <2>7
  <2>. HIDE DEF more
  <2>9. RowOK(after) BY <1>1, <2>2, <2>6, <2>8, SessionsAssumption DEF RowOK
  <2>. QED BY <1>1, <2>3, <2>6, <2>9
<1>. QED BY <1>2, <1>3

LEMMA SwitchKeeps ==
    ASSUME NEW row \in BrowserRow, RowOK(row), NEW did \in DID
    PROVE  /\ WithCurrent(row, did) \in BrowserRow /\ RowOK(WithCurrent(row, did))
           /\ WithCurrent(row, did).dids = row.dids
<1>1. Contains(row.dids, did) => did \in ToSet(row.dids) BY DEF Contains, ToSet, BrowserRow
<1>. QED BY <1>1, SessionsAssumption DEF WithCurrent, BrowserRow, RowOK

LEMMA ExistingKeeps ==
    ASSUME SInv, NEW b \in Browser
    PROVE  /\ rows[b] \in BrowserRow /\ Existing(b) \in BrowserRow
           /\ RowOK(rows[b]) /\ RowOK(Existing(b)) /\ Existing(b).dids = rows[b].dids
<1>1. rows \in [Browser -> BrowserRow] BY DEF SInv, TypeOK, BrowserRow
<1>2. rows[b] \in BrowserRow /\ RowOK(rows[b]) BY <1>1 DEF SInv
<1>3. /\ Existing(b) \in BrowserRow
      /\ Existing(b).dids = rows[b].dids /\ Existing(b).current = rows[b].current
  BY <1>2 DEF Existing, BrowserRow
<1>. QED BY <1>2, <1>3 DEF RowOK

LEMMA SignedOutRow ==
    ASSUME SInv, NEW b \in Browser, NEW did \in DID
    PROVE  LET row == WithoutAccount(Existing(b), did)
           IN  row \in BrowserRow /\ RowOK(row) /\ ToSet(row.dids) = Accounts(b) \ {did}
<1>1. Existing(b) \in BrowserRow /\ RowOK(Existing(b)) /\ Existing(b).dids = rows[b].dids BY ExistingKeeps
<1>2. WithoutAccount(Existing(b), did) = WithoutAccounts(Existing(b), {did}) BY <1>1, OneRemoved
<1>. QED BY <1>1, <1>2, RemovalKeeps DEF Accounts

-----------------------------------------------------------------------------
(* Steps. *)

Jars == [Agent -> Browser \cup {None}]
Request == [kind : {"none", "load", "login", "callback", "logout"},
            browser : Browser \cup {None}, state : OAuthState \cup {None},
            did : DID \cup {None}, newRow : BOOLEAN, unread : SUBSET DID, failed : SUBSET DID]
State == [browser : Browser \cup {None}, link : {"none", "fresh", "old", "gone"},
          client : {"none", "kept", "used"}, account : DID \cup {None}]

LEMMA Types ==
    TypeOK <=> /\ jar \in Jars /\ rows \in [Browser -> BrowserRow] /\ states \in [OAuthState -> State]
               /\ sessions \subseteq DID /\ requests \in [Tab -> Request]
BY DEF TypeOK, Jars, BrowserRow, Request, State

LEMMA TypesNext ==
    TypeOK' <=> /\ jar' \in Jars /\ rows' \in [Browser -> BrowserRow] /\ states' \in [OAuthState -> State]
                /\ sessions' \subseteq DID /\ requests' \in [Tab -> Request]
BY DEF TypeOK, Jars, BrowserRow, Request, State

LEMMA NoRequestType == NoRequest \in Request /\ NoRequest.kind = "none"
BY DEF NoRequest, Request

(* A step that leaves the states as they are, lists no account more and    *)
(* neither starts a sign-in nor takes one up.                              *)
LEMMA StatesStay ==
    ASSUME SInv, UNCHANGED states, jar' \in Jars, sessions' \subseteq DID, rows' \in [Browser -> BrowserRow],
           \A b \in Browser : RowOK(rows'[b]) /\ ToSet(rows'[b].dids) \subseteq ToSet(rows[b].dids),
           NEW t \in Tab, NEW r \in Request, requests' = [requests EXCEPT ![t] = r],
           r.kind \notin {"login", "callback"}, r.kind # "none" => r.browser \in Browser
    PROVE  SInv'
<1>1. requests \in [Tab -> Request] /\ states \in [OAuthState -> State] BY Types DEF SInv
<1>2. \A u \in Tab : requests'[u] = IF u = t THEN r ELSE requests[u] BY <1>1
<1>3. requests' \in [Tab -> Request] BY <1>1
<1>4. TypeOK' BY <1>1, <1>3, TypesNext
<1>5. ASSUME NEW u \in Tab PROVE RequestOK(u)'
  <2>1. RequestOK(u) BY DEF SInv
  <2>2. CASE u = t BY <1>2, <2>2 DEF RequestOK
  <2>3. CASE u # t
    <3>1. requests'[u] = requests[u] BY <1>2, <2>3
    <3>2. \A v \in Tab : requests'[v].kind = "login" => v # t /\ requests'[v] = requests[v] BY <1>2
    <3>. QED BY <2>1, <3>1, <3>2 DEF RequestOK
  <2>. QED BY <2>2, <2>3
<1>6. \A s \in OAuthState : StateOK(s)' BY DEF SInv, StateOK
<1>7. SignInsStayHome' BY DEF SInv, SignInsStayHome, Accounts
<1>. QED BY <1>4, <1>5, <1>6, <1>7 DEF SInv

LEMMA LoadKeeps == ASSUME SInv, NEW t \in Tab, Load(t) PROVE SInv'
<1>. DEFINE b == jar[AgentOf[t]]
            r == [NoRequest EXCEPT !.kind = "load", !.browser = b, !.unread = Accounts(b)]
<1>1. requests' = [requests EXCEPT ![t] = r] /\ UNCHANGED <<jar, rows, states, sessions>> /\ b # None
  BY DEF Load, Asks
<1>2. jar \in Jars /\ rows \in [Browser -> BrowserRow] /\ sessions \subseteq DID BY Types DEF SInv
<1>3. b \in Browser BY <1>1, <1>2, SessionsAssumption DEF Jars
<1>4. Accounts(b) \subseteq DID BY <1>2, <1>3 DEF Accounts, ToSet, BrowserRow
<1>5. r \in Request /\ r.kind = "load" /\ r.browser = b BY <1>3, <1>4 DEF NoRequest, Request
<1>6. \A c \in Browser : RowOK(rows'[c]) /\ ToSet(rows'[c].dids) \subseteq ToSet(rows[c].dids)
  BY <1>1 DEF SInv
<1>. HIDE DEF r
<1>. QED BY <1>1, <1>2, <1>3, <1>5, <1>6, StatesStay

LEMMA RestoreKeeps == ASSUME SInv, NEW t \in Tab, NEW d \in DID, Restore(t, d) PROVE SInv'
<1>1. UNCHANGED <<jar, rows, states, sessions>> BY DEF Restore
<1>2. /\ jar \in Jars /\ rows \in [Browser -> BrowserRow] /\ sessions \subseteq DID
      /\ requests \in [Tab -> Request]
  BY Types DEF SInv
<1>3. PICK r \in Request : requests' = [requests EXCEPT ![t] = r] /\ r.kind = "load" /\ r.browser = requests[t].browser
  <2>. DEFINE q == requests[t]
              done == [q EXCEPT !.unread = @ \ {d}]
              failed == [q EXCEPT !.unread = @ \ {d}, !.failed = @ \cup {d}]
  <2>1. q \in Request /\ q.kind = "load" BY <1>2 DEF Restore
  <2>2. done \in Request /\ done.kind = "load" /\ done.browser = q.browser BY <2>1 DEF Request
  <2>3. failed \in Request /\ failed.kind = "load" /\ failed.browser = q.browser BY <2>1 DEF Request
  <2>4. requests' = [requests EXCEPT ![t] = done] \/ requests' = [requests EXCEPT ![t] = failed]
    BY DEF Restore, Asks
  <2>. HIDE DEF done, failed
  <2>. QED BY <2>2, <2>3, <2>4
<1>4. requests[t].browser \in Browser BY DEF Restore, SInv, RequestOK
<1>6. \A c \in Browser : RowOK(rows'[c]) /\ ToSet(rows'[c].dids) \subseteq ToSet(rows[c].dids)
  BY <1>1 DEF SInv
<1>. QED BY <1>1, <1>2, <1>3, <1>4, <1>6, StatesStay

(* What is left of a row when those that did not restore are removed.      *)
LEMMA SignedOutRows ==
    ASSUME SInv, NEW t \in Tab
    PROVE  /\ SignedOut(t) \in [Browser -> BrowserRow]
           /\ \A b \in Browser :
                 /\ RowOK(SignedOut(t)[b])
                 /\ ToSet(SignedOut(t)[b].dids) =
                       IF b = requests[t].browser THEN Accounts(b) \ requests[t].failed ELSE Accounts(b)
<1>1. rows \in [Browser -> BrowserRow] /\ requests[t].failed \in SUBSET DID BY Types DEF SInv, Request
<1>2. ASSUME NEW b \in Browser
      PROVE  /\ WithoutAccounts(rows[b], requests[t].failed) \in BrowserRow
             /\ RowOK(WithoutAccounts(rows[b], requests[t].failed)) /\ RowOK(rows[b])
             /\ ToSet(WithoutAccounts(rows[b], requests[t].failed).dids) = Accounts(b) \ requests[t].failed
  <2>1. rows[b] \in BrowserRow /\ RowOK(rows[b]) BY <1>1 DEF SInv
  <2>. QED BY <1>1, <2>1, RemovalKeeps DEF Accounts
<1>. QED BY <1>1, <1>2 DEF SignedOut, Accounts

LEMMA LoadedKeeps == ASSUME SInv, NEW t \in Tab, Loaded(t) PROVE SInv'
<1>1. UNCHANGED <<jar, states, sessions>> /\ rows' = SignedOut(t) /\ requests' = [requests EXCEPT ![t] = NoRequest]
  BY DEF Loaded, Asks
<1>2. jar \in Jars /\ sessions \subseteq DID BY Types DEF SInv
<1>3. /\ rows' \in [Browser -> BrowserRow]
      /\ \A c \in Browser : RowOK(rows'[c]) /\ ToSet(rows'[c].dids) \subseteq ToSet(rows[c].dids)
  BY <1>1, SignedOutRows DEF Accounts
<1>. QED BY <1>1, <1>2, <1>3, NoRequestType, StatesStay

LEMMA CallbackFailsKeeps == ASSUME SInv, NEW t \in Tab, CallbackFails(t) PROVE SInv'
<1>1. UNCHANGED <<jar, rows, states, sessions>> /\ requests' = [requests EXCEPT ![t] = NoRequest]
  BY DEF CallbackFails, Asks
<1>2. jar \in Jars /\ rows \in [Browser -> BrowserRow] /\ sessions \subseteq DID BY Types DEF SInv
<1>3. \A c \in Browser : RowOK(rows'[c]) /\ ToSet(rows'[c].dids) \subseteq ToSet(rows[c].dids)
  BY <1>1 DEF SInv
<1>. QED BY <1>1, <1>2, <1>3, NoRequestType, StatesStay

LEMMA LogoutKeeps == ASSUME SInv, NEW t \in Tab, NEW d \in DID, Logout(t, d) PROVE SInv'
<1>1. PICK b \in Browser :
        /\ rows' = [rows EXCEPT ![b] = WithoutAccount(Existing(b), d)]
        /\ requests' = [requests EXCEPT ![t] = [NoRequest EXCEPT !.kind = "logout", !.browser = b, !.newRow = NewRow(t), !.did = d]]
  BY DEF Logout, Asks
<1>2. UNCHANGED <<jar, states, sessions>> BY DEF Logout
<1>3. jar \in Jars /\ rows \in [Browser -> BrowserRow] /\ sessions \subseteq DID BY Types DEF SInv
<1>. DEFINE row == WithoutAccount(Existing(b), d)
            r == [NoRequest EXCEPT !.kind = "logout", !.browser = b, !.newRow = NewRow(t), !.did = d]
<1>4. row \in BrowserRow /\ RowOK(row) /\ ToSet(row.dids) \subseteq ToSet(rows[b].dids)
  BY SignedOutRow DEF Accounts
<1>5. r \in Request /\ r.kind = "logout" /\ r.browser = b BY DEF NoRequest, Request, NewRow
<1>6. rows' = [rows EXCEPT ![b] = row] /\ requests' = [requests EXCEPT ![t] = r] BY <1>1
<1>. HIDE DEF row, r
<1>7. rows' \in [Browser -> BrowserRow] BY <1>3, <1>4, <1>6
<1>8. \A c \in Browser : RowOK(rows'[c]) /\ ToSet(rows'[c].dids) \subseteq ToSet(rows[c].dids)
  BY <1>3, <1>4, <1>6 DEF SInv
<1>. QED BY <1>2, <1>3, <1>5, <1>6, <1>7, <1>8, StatesStay

LEMMA RespondTypes ==
    ASSUME SInv, NEW t \in Tab, NEW b \in Browser, NEW newRow, Respond(t, b, newRow)
    PROVE  jar' \in Jars /\ requests' = [requests EXCEPT ![t] = NoRequest]
<1>1. jar \in Jars BY Types DEF SInv
<1>. QED BY <1>1 DEF Respond, Jars

LEMMA RevokedKeeps == ASSUME SInv, NEW t \in Tab, Revoked(t) PROVE SInv'
<1>1. UNCHANGED <<rows, states>> /\ Respond(t, requests[t].browser, requests[t].newRow) /\ sessions' \subseteq sessions BY DEF Revoked
<1>2. rows \in [Browser -> BrowserRow] /\ sessions \subseteq DID BY Types DEF SInv
<1>3. requests[t].browser \in Browser BY DEF Revoked, SInv, RequestOK
<1>4. \A c \in Browser : RowOK(rows'[c]) /\ ToSet(rows'[c].dids) \subseteq ToSet(rows[c].dids)
  BY <1>1 DEF SInv
<1>5. jar' \in Jars /\ requests' = [requests EXCEPT ![t] = NoRequest] BY <1>1, <1>3, RespondTypes
<1>. QED BY <1>1, <1>2, <1>4, <1>5, NoRequestType, StatesStay

LEMMA SwitchesKeep == ASSUME SInv, NEW t \in Tab, NEW d \in DID, Switch(t, d) PROVE SInv'
<1>1. PICK b \in Browser : rows' = [rows EXCEPT ![b] = WithCurrent(Existing(b), d)] /\ Respond(t, b, NewRow(t))
  BY DEF Switch
<1>2. UNCHANGED <<states, sessions>> BY DEF Switch
<1>3. rows \in [Browser -> BrowserRow] /\ sessions \subseteq DID BY Types DEF SInv
<1>. DEFINE row == WithCurrent(Existing(b), d)
<1>4. row \in BrowserRow /\ RowOK(row) /\ row.dids = rows[b].dids BY ExistingKeeps, SwitchKeeps
<1>5. rows' = [rows EXCEPT ![b] = row] BY <1>1
<1>. HIDE DEF row
<1>6. rows' \in [Browser -> BrowserRow] BY <1>3, <1>4, <1>5
<1>7. \A c \in Browser : RowOK(rows'[c]) /\ ToSet(rows'[c].dids) \subseteq ToSet(rows[c].dids)
  BY <1>3, <1>4, <1>5 DEF SInv
<1>8. jar' \in Jars /\ requests' = [requests EXCEPT ![t] = NoRequest] BY <1>1, RespondTypes
<1>. QED BY <1>2, <1>3, <1>6, <1>7, <1>8, NoRequestType, StatesStay

(* login: a new state, for the browser that asks.                          *)
LEMMA LoginKeeps == ASSUME SInv, NEW t \in Tab, Login(t) PROVE SInv'
<1>1. PICK b \in Browser, s \in OAuthState :
        /\ states[s] = NoState
        /\ rows' = [rows EXCEPT ![b] = Existing(b)]
        /\ states' = [states EXCEPT ![s] = [NoState EXCEPT !.browser = b, !.link = "fresh"]]
        /\ requests' = [requests EXCEPT ![t] = [NoRequest EXCEPT !.kind = "login", !.browser = b, !.newRow = NewRow(t), !.state = s]]
  BY DEF Login, Asks
<1>2. UNCHANGED <<jar, sessions>> BY DEF Login
<1>3. /\ jar \in Jars /\ rows \in [Browser -> BrowserRow] /\ states \in [OAuthState -> State]
      /\ sessions \subseteq DID /\ requests \in [Tab -> Request]
  BY Types DEF SInv
<1>. DEFINE new == [NoState EXCEPT !.browser = b, !.link = "fresh"]
            r == [NoRequest EXCEPT !.kind = "login", !.browser = b, !.newRow = NewRow(t), !.state = s]
<1>4. b # None BY SessionsAssumption DEF Browser
<1>5. new \in State /\ new.browser = b /\ new.client = "none" /\ new.account = None BY DEF NoState, State
<1>6. r \in Request /\ r.kind = "login" /\ r.browser = b /\ r.state = s BY DEF NoRequest, Request, NewRow
<1>7. states' = [states EXCEPT ![s] = new] /\ requests' = [requests EXCEPT ![t] = r] BY <1>1
<1>. HIDE DEF new, r
<1>8. /\ \A u \in Tab : requests'[u] = IF u = t THEN r ELSE requests[u]
      /\ \A z \in OAuthState : states'[z] = IF z = s THEN new ELSE states[z]
      /\ \A c \in Browser : rows'[c].dids = rows[c].dids /\ RowOK(rows'[c])
  <2>1. \A c \in Browser : rows'[c] = IF c = b THEN Existing(b) ELSE rows[c] BY <1>1, <1>3
  <2>2. \A c \in Browser : rows'[c].dids = rows[c].dids /\ RowOK(rows'[c])
    BY <2>1, ExistingKeeps DEF SInv
  <2>. QED BY <1>3, <1>7, <2>2
<1>9. TypeOK'
  <2>1. rows' \in [Browser -> BrowserRow] BY <1>1, <1>3, ExistingKeeps
  <2>2. states' \in [OAuthState -> State] /\ requests' \in [Tab -> Request] BY <1>3, <1>5, <1>6, <1>7
  <2>. QED BY <1>2, <1>3, <2>1, <2>2, TypesNext
<1>10. ASSUME NEW u \in Tab PROVE RequestOK(u)'
  <2>1. \A v \in Tab : requests[v].kind = "login" => requests[v].state # s
    BY <1>1 DEF SInv, RequestOK, NoState
  <2>2. RequestOK(u) BY DEF SInv
  <2>3. CASE u = t BY <1>4, <1>5, <1>6, <1>8, <2>1, <2>3 DEF RequestOK
  <2>4. CASE u # t
    <3>1. requests[u].kind = "callback" => requests[u].state # s BY <1>1, <2>2 DEF RequestOK, NoState
    <3>. QED BY <1>6, <1>8, <2>1, <2>2, <2>4, <3>1 DEF RequestOK
  <2>. QED BY <2>3, <2>4
<1>11. \A z \in OAuthState : StateOK(z)' BY <1>4, <1>5, <1>8 DEF SInv, StateOK
<1>12. SignInsStayHome'
  <2>1. ASSUME NEW c \in Browser, NEW d \in DID, d \in ToSet(rows'[c].dids)
        PROVE  \E z \in OAuthState : states'[z].browser = c /\ states'[z].account = d
    <3>1. PICK z \in OAuthState : states[z].browser = c /\ states[z].account = d
      BY <1>8, <2>1 DEF SInv, SignInsStayHome, Accounts
    <3>2. c # None BY SessionsAssumption DEF Browser
    <3>3. z # s BY <1>1, <3>1, <3>2 DEF NoState
    <3>. QED BY <1>8, <3>1, <3>3
  <2>. QED BY <2>1 DEF SignInsStayHome, Accounts
<1>. QED BY <1>8, <1>9, <1>10, <1>11, <1>12 DEF SInv

(* A step in which states only change their link or the client's half, and *)
(* which starts no sign-in, takes none up and lists no account but one     *)
(* approved for the browser.                                               *)
LEMMA LinksChange ==
    ASSUME SInv, jar' \in Jars, sessions' \subseteq DID,
           rows' \in [Browser -> BrowserRow], \A b \in Browser : RowOK(rows'[b]),
           \A b \in Browser : \A d \in ToSet(rows'[b].dids) :
              d \in Accounts(b) \/ \E s \in OAuthState : states[s].browser = b /\ states[s].account = d,
           states' \in [OAuthState -> State],
           \A s \in OAuthState : states'[s].browser = states[s].browser /\ states'[s].account = states[s].account,
           \A s \in OAuthState : states'[s].client = states[s].client \/ states[s].account = None,
           \A s \in OAuthState : states[s] = NoState => states'[s] = NoState,
           requests' \in [Tab -> Request],
           \A u \in Tab : \/ requests'[u] = NoRequest
                          \/ /\ requests'[u] = requests[u]
                             /\ requests[u].kind = "login" =>
                                   states'[requests[u].state].client = states[requests[u].state].client
    PROVE  SInv'
<1>2. TypeOK' BY TypesNext
<1>3. ASSUME NEW u \in Tab PROVE RequestOK(u)'
  <2>1. RequestOK(u) BY DEF SInv
  <2>2. \A v \in Tab : requests'[v].kind = "login" => requests'[v] = requests[v] BY NoRequestType
  <2>3. CASE requests'[u] = NoRequest BY <2>3, NoRequestType DEF RequestOK
  <2>4. CASE requests'[u] = requests[u] /\ requests[u].kind # "none" BY <2>1, <2>2, <2>4, NoRequestType DEF RequestOK
  <2>5. CASE requests'[u] = requests[u] /\ requests[u].kind = "none" BY <2>5 DEF RequestOK
  <2>. QED BY <2>3, <2>4, <2>5
<1>4. ASSUME NEW s \in OAuthState PROVE StateOK(s)'
  <2>1. StateOK(s) BY DEF SInv
  <2>. QED BY <2>1 DEF StateOK
<1>5. SignInsStayHome'
  <2>1. ASSUME NEW b \in Browser, NEW d \in DID, d \in ToSet(rows'[b].dids)
        PROVE  \E s \in OAuthState : states'[s].browser = b /\ states'[s].account = d
    <3>1. \E s \in OAuthState : states[s].browser = b /\ states[s].account = d
      BY <2>1 DEF SInv, SignInsStayHome
    <3>. QED BY <3>1
  <2>. QED BY <2>1 DEF SignInsStayHome, Accounts
<1>. QED BY <1>2, <1>3, <1>4, <1>5 DEF SInv

LEMMA AuthorizedKeeps == ASSUME SInv, NEW t \in Tab, Authorized(t) PROVE SInv'
<1>. DEFINE s == requests[t].state
<1>1. /\ states' = [states EXCEPT ![s].client = "kept"] \/ UNCHANGED states
      /\ Respond(t, requests[t].browser, requests[t].newRow) /\ UNCHANGED <<rows, sessions>> /\ requests[t].kind = "login"
  BY DEF Authorized
<1>2. /\ states \in [OAuthState -> State] /\ sessions \subseteq DID /\ requests \in [Tab -> Request]
      /\ rows' \in [Browser -> BrowserRow] /\ \A b \in Browser : RowOK(rows'[b])
      /\ \A b \in Browser : ToSet(rows'[b].dids) = Accounts(b)
  BY <1>1, Types DEF SInv, Accounts
<1>3. /\ s \in OAuthState /\ requests[t].browser \in Browser
      /\ states[s].client = "none" /\ states[s].browser # None
      /\ \A u \in Tab : requests[u].kind = "login" /\ requests[u].state = s => u = t
  BY <1>1 DEF SInv, RequestOK
<1>4. states[s].account = None /\ states[s] # NoState BY <1>3 DEF SInv, StateOK, NoState
<1>5. jar' \in Jars /\ requests' = [requests EXCEPT ![t] = NoRequest] BY <1>1, <1>3, RespondTypes
<1>6. /\ requests' \in [Tab -> Request]
      /\ \A u \in Tab : requests'[u] = IF u = t THEN NoRequest ELSE requests[u]
  BY <1>2, <1>5, NoRequestType
<1>. HIDE DEF s
<1>7. /\ states' \in [OAuthState -> State]
      /\ \A z \in OAuthState : states'[z].browser = states[z].browser /\ states'[z].account = states[z].account
      /\ \A z \in OAuthState : z # s => states'[z] = states[z]
  BY <1>1, <1>2, <1>3 DEF State
<1>8. \A z \in OAuthState : states'[z].client = states[z].client \/ states[z].account = None BY <1>4, <1>7
<1>9. \A z \in OAuthState : states[z] = NoState => states'[z] = NoState BY <1>4, <1>7
<1>10. ASSUME NEW u \in Tab
       PROVE  \/ requests'[u] = NoRequest
              \/ /\ requests'[u] = requests[u]
                 /\ requests[u].kind = "login" => states'[requests[u].state].client = states[requests[u].state].client
  <2>1. CASE u = t BY <1>6, <2>1
  <2>2. CASE u # t
    <3>1. requests[u].kind = "login" => requests[u].state \in OAuthState /\ requests[u].state # s
      BY <1>3, <2>2 DEF SInv, RequestOK
    <3>. QED BY <1>6, <1>7, <2>2, <3>1
  <2>. QED BY <2>1, <2>2
<1>. QED BY <1>1, <1>2, <1>5, <1>6, <1>7, <1>8, <1>9, <1>10, LinksChange

(* Somebody approves, and the redirect back is opened in some tab.         *)
LEMMA CallbackKeeps ==
    ASSUME SInv, NEW t \in Tab, NEW s \in OAuthState, NEW d \in DID, Callback(t, s, d) PROVE SInv'
<1>1. PICK b \in Browser :
        /\ rows' = [rows EXCEPT ![b] = Existing(b)]
        /\ requests' = [requests EXCEPT ![t] = [NoRequest EXCEPT !.kind = "callback", !.browser = b, !.newRow = NewRow(t), !.state = s]]
  BY DEF Callback, Asks
<1>2. /\ states' = [states EXCEPT ![s].client = "used", ![s].account = d]
      /\ states[s].client = "kept" /\ UNCHANGED <<jar, sessions>>
  BY DEF Callback
<1>3. /\ jar \in Jars /\ rows \in [Browser -> BrowserRow] /\ states \in [OAuthState -> State]
      /\ sessions \subseteq DID /\ requests \in [Tab -> Request]
  BY Types DEF SInv
<1>. DEFINE new == [[states[s] EXCEPT !.client = "used"] EXCEPT !.account = d]
            r == [NoRequest EXCEPT !.kind = "callback", !.browser = b, !.newRow = NewRow(t), !.state = s]
<1>4. d # None /\ states[s].account = None /\ states[s].browser # None
  BY <1>2, SessionsAssumption DEF SInv, StateOK, NoState
<1>5. new \in State /\ new.browser = states[s].browser /\ new.client = "used" /\ new.account = d
  BY <1>3 DEF State
<1>6. r \in Request /\ r.kind = "callback" /\ r.browser = b /\ r.state = s BY DEF NoRequest, Request, NewRow
<1>7. states' = [states EXCEPT ![s] = new] /\ requests' = [requests EXCEPT ![t] = r] BY <1>1, <1>2, <1>3
<1>. HIDE DEF new, r
<1>8. /\ \A u \in Tab : requests'[u] = IF u = t THEN r ELSE requests[u]
      /\ \A z \in OAuthState : states'[z] = IF z = s THEN new ELSE states[z]
      /\ \A c \in Browser : rows'[c].dids = rows[c].dids /\ RowOK(rows'[c])
  <2>1. \A c \in Browser : rows'[c] = IF c = b THEN Existing(b) ELSE rows[c] BY <1>1, <1>3
  <2>2. \A c \in Browser : rows'[c].dids = rows[c].dids /\ RowOK(rows'[c])
    BY <2>1, ExistingKeeps DEF SInv
  <2>. QED BY <1>3, <1>7, <2>2
<1>9. TypeOK'
  <2>1. rows' \in [Browser -> BrowserRow] BY <1>1, <1>3, ExistingKeeps
  <2>2. states' \in [OAuthState -> State] /\ requests' \in [Tab -> Request] BY <1>3, <1>5, <1>6, <1>7
  <2>. QED BY <1>2, <1>3, <2>1, <2>2, TypesNext
<1>10. ASSUME NEW u \in Tab PROVE RequestOK(u)'
  <2>1. \A v \in Tab : requests[v].kind = "login" => requests[v].state # s
    BY <1>2 DEF SInv, RequestOK
  <2>2. RequestOK(u) BY DEF SInv
  <2>3. CASE u = t BY <1>4, <1>5, <1>6, <1>8, <2>3 DEF RequestOK
  <2>4. CASE u # t BY <1>4, <1>5, <1>6, <1>8, <2>1, <2>2, <2>4 DEF RequestOK
  <2>. QED BY <2>3, <2>4
<1>11. \A z \in OAuthState : StateOK(z)' BY <1>4, <1>5, <1>8 DEF SInv, StateOK
<1>12. SignInsStayHome'
  <2>1. ASSUME NEW c \in Browser, NEW e \in DID, e \in ToSet(rows'[c].dids)
        PROVE  \E z \in OAuthState : states'[z].browser = c /\ states'[z].account = e
    <3>1. PICK z \in OAuthState : states[z].browser = c /\ states[z].account = e
      BY <1>8, <2>1 DEF SInv, SignInsStayHome, Accounts
    <3>2. z # s BY <1>4, <3>1, SessionsAssumption
    <3>. QED BY <1>8, <3>1, <3>2
  <2>. QED BY <2>1 DEF SignInsStayHome, Accounts
<1>. QED BY <1>8, <1>9, <1>10, <1>11, <1>12 DEF SInv

(* The code is exchanged, the state is taken, and the account is added     *)
(* where the state was this browser's.                                     *)
LEMMA CalledBackKeeps == ASSUME SInv, NEW t \in Tab, CalledBack(t) PROVE SInv'
<1>. DEFINE s == requests[t].state
            b == requests[t].browser
            d == states[s].account
<1>1. /\ requests[t].kind = "callback" /\ sessions' = sessions \cup {d} /\ states' = AfterTaking(s)
      /\ rows' = (IF StateIsMine(t) THEN [rows EXCEPT ![b] = WithAccount(@, d)] ELSE rows) /\ Respond(t, b, requests[t].newRow)
  BY DEF CalledBack
<1>2. /\ states \in [OAuthState -> State] /\ sessions \subseteq DID /\ requests \in [Tab -> Request]
      /\ rows \in [Browser -> BrowserRow]
  BY Types DEF SInv
<1>3. b \in Browser /\ s \in OAuthState /\ d # None BY <1>1 DEF SInv, RequestOK
<1>4. d \in DID /\ b # None BY <1>2, <1>3, SessionsAssumption DEF State, Browser
<1>5. jar' \in Jars /\ requests' = [requests EXCEPT ![t] = NoRequest] BY <1>1, <1>3, RespondTypes
<1>6. /\ requests' \in [Tab -> Request]
      /\ \A u \in Tab : requests'[u] = IF u = t THEN NoRequest ELSE requests[u]
  BY <1>2, <1>5, NoRequestType
<1>7. /\ states' \in [OAuthState -> State]
      /\ \A z \in OAuthState : /\ states'[z].browser = states[z].browser /\ states'[z].account = states[z].account
                               /\ states'[z].client = states[z].client
  BY <1>1, <1>2 DEF AfterTaking, State
<1>8. ASSUME NEW z \in OAuthState, states[z] = NoState PROVE states'[z] = NoState
  <2>1. z # s /\ states[z].link # "old" BY <1>3, <1>8 DEF NoState
  <2>. QED BY <1>1, <1>8, <2>1 DEF AfterTaking
<1>9. /\ rows' \in [Browser -> BrowserRow] /\ \A c \in Browser : RowOK(rows'[c])
      /\ \A c \in Browser : \A e \in ToSet(rows'[c].dids) :
            e \in Accounts(c) \/ \E z \in OAuthState : states[z].browser = c /\ states[z].account = e
  <2>1. \A c \in Browser : rows[c] \in BrowserRow /\ RowOK(rows[c]) BY <1>2 DEF SInv
  <2>2. CASE ~StateIsMine(t) BY <1>1, <1>2, <2>1, <2>2 DEF Accounts
  <2>3. CASE StateIsMine(t)
    <3>1. states[s].browser = b BY <1>4, <2>3 DEF StateIsMine, Taken
    <3>. DEFINE row == WithAccount(rows[b], d)
    <3>2. row \in BrowserRow /\ RowOK(row) /\ ToSet(row.dids) = ToSet(rows[b].dids) \cup {d}
      BY <1>3, <1>4, <2>1, AdditionKeeps
    <3>3. rows' = [rows EXCEPT ![b] = row] BY <1>1, <2>3
    <3>. HIDE DEF row, b, s, d
    <3>4. \A c \in Browser : rows'[c] = IF c = b THEN row ELSE rows[c] BY <1>2, <3>3
    <3>5. states[s].account = d BY DEF d
    <3>. QED BY <1>2, <1>3, <2>1, <3>1, <3>2, <3>3, <3>4, <3>5 DEF Accounts
  <2>. QED BY <2>2, <2>3
<1>10. sessions' \subseteq DID BY <1>1, <1>2, <1>4
<1>11. \A u \in Tab : \/ requests'[u] = NoRequest
                      \/ /\ requests'[u] = requests[u]
                         /\ requests[u].kind = "login" =>
                               states'[requests[u].state].client = states[requests[u].state].client
  <2>1. \A u \in Tab : requests[u].kind = "login" => requests[u].state \in OAuthState BY DEF SInv, RequestOK
  <2>. QED BY <1>6, <1>7, <2>1
<1>. QED BY <1>5, <1>6, <1>7, <1>8, <1>9, <1>10, <1>11, LinksChange

LEMMA AgesKeeps == ASSUME SInv, NEW s \in OAuthState, Ages(s) PROVE SInv'
<1>1. /\ states' = [states EXCEPT ![s].link = "old"] /\ states[s].link = "fresh"
      /\ UNCHANGED <<jar, rows, sessions, requests>>
  BY DEF Ages
<1>2. /\ jar \in Jars /\ rows \in [Browser -> BrowserRow] /\ states \in [OAuthState -> State]
      /\ sessions \subseteq DID /\ requests \in [Tab -> Request] /\ \A b \in Browser : RowOK(rows[b])
  BY Types DEF SInv
<1>3. /\ states' \in [OAuthState -> State]
      /\ \A z \in OAuthState : /\ states'[z].browser = states[z].browser /\ states'[z].account = states[z].account
                               /\ states'[z].client = states[z].client
      /\ \A z \in OAuthState : states[z] = NoState => states'[z] = NoState
  BY <1>1, <1>2 DEF State, NoState
<1>4. \A b \in Browser : ToSet(rows'[b].dids) = Accounts(b) BY <1>1 DEF Accounts
<1>5. \A u \in Tab : requests[u].kind = "login" => requests[u].state \in OAuthState BY DEF SInv, RequestOK
<1>. QED BY <1>1, <1>2, <1>3, <1>4, <1>5, LinksChange

LEMMA SessionsIdle ==
    ASSUME SInv, UNCHANGED <<jar, rows, states, requests>>, sessions' \subseteq sessions PROVE SInv'
<1>1. TypeOK'
  <2>1. /\ jar \in Jars /\ rows \in [Browser -> BrowserRow] /\ states \in [OAuthState -> State]
        /\ sessions \subseteq DID /\ requests \in [Tab -> Request]
    BY Types DEF SInv
  <2>. QED BY <2>1, TypesNext
<1>2. \A t \in Tab : RequestOK(t)' BY DEF SInv, RequestOK
<1>3. \A s \in OAuthState : StateOK(s)' BY DEF SInv, StateOK
<1>4. SignInsStayHome' BY DEF SInv, SignInsStayHome, Accounts
<1>. QED BY <1>1, <1>2, <1>3, <1>4 DEF SInv

LEMMA SessionsStart == Init => SInv
<1>. SUFFICES ASSUME Init PROVE SInv OBVIOUS
<1>1. NoRow \in BrowserRow /\ NoRow.current = None /\ NoRow.dids = <<>> BY DEF NoRow, BrowserRow
<1>2. NoState \in State /\ NoState.account = None BY DEF NoState, State
<1>3. TypeOK BY <1>1, <1>2, NoRequestType, Types DEF Init, Jars
<1>4. \A b \in Browser : rows[b] = NoRow /\ ToSet(rows[b].dids) = {} BY <1>1 DEF Init, ToSet
<1>5. \A b \in Browser : RowOK(rows[b]) BY <1>1, <1>4 DEF RowOK
<1>6. \A t \in Tab : RequestOK(t) BY NoRequestType DEF Init, RequestOK
<1>7. \A s \in OAuthState : StateOK(s) BY <1>2 DEF Init, StateOK
<1>8. SignInsStayHome BY <1>4 DEF SignInsStayHome, Accounts
<1>. QED BY <1>3, <1>5, <1>6, <1>7, <1>8 DEF SInv

LEMMA SessionsKeep == SInv /\ [Next]_vars => SInv'
<1>. SUFFICES ASSUME SInv, [Next]_vars PROVE SInv' OBVIOUS
<1>1. ASSUME NEW t \in Tab, Load(t) \/ Loaded(t) \/ Login(t) \/ Authorized(t) PROVE SInv'
  BY <1>1, LoadKeeps, LoadedKeeps, LoginKeeps, AuthorizedKeeps
<1>2. ASSUME NEW t \in Tab, CalledBack(t) \/ CallbackFails(t) \/ Revoked(t) PROVE SInv'
  BY <1>2, CalledBackKeeps, CallbackFailsKeeps, RevokedKeeps
<1>3. ASSUME NEW t \in Tab, NEW d \in DID, Restore(t, d) \/ Logout(t, d) \/ Switch(t, d) PROVE SInv'
  BY <1>3, RestoreKeeps, LogoutKeeps, SwitchesKeep
<1>4. ASSUME NEW t \in Tab, NEW s \in OAuthState, NEW d \in DID, Callback(t, s, d) PROVE SInv'
  BY <1>4, CallbackKeeps
<1>5. ASSUME NEW t \in Tab, LoadSignedOut(t) PROVE SInv' BY <1>5, SessionsIdle DEF LoadSignedOut, vars
<1>6. ASSUME NEW s \in OAuthState, Ages(s) PROVE SInv' BY <1>6, AgesKeeps
<1>7. ASSUME NEW d \in DID, SessionDies(d) PROVE SInv' BY <1>7, SessionsIdle DEF SessionDies
<1>8. CASE UNCHANGED vars BY <1>8, SessionsIdle DEF vars
<1>. QED BY <1>1, <1>2, <1>3, <1>4, <1>5, <1>6, <1>7, <1>8 DEF Next, TabNext

-----------------------------------------------------------------------------

(* A browser's row lists no account twice, its current account is one of     *)
(* them, and there is one as long as any is listed, in whatever order the    *)
(* tabs' requests change it between their awaits (sessions.ts:82-100,        *)
(* accounts.ts:89-93).                                                       *)
THEOREM CurrentStaysSignedIn == Spec => []CurrentIsSignedIn
<1>1. SInv => CurrentIsSignedIn BY DEF SInv, CurrentIsSignedIn, RowOK, Accounts
<1>. QED BY <1>1, SessionsStart, SessionsKeep, PTL DEF Spec

(* An account is listed only in the browser that started the sign-in it was  *)
(* approved for, wherever the redirect back is opened and however late       *)
(* (oauth/callback/+server.ts:10-11, sessions.ts:102-124).                   *)
THEOREM AccountsStayHome == Spec => []SignInsStayHome
<1>1. SInv => SignInsStayHome BY DEF SInv
<1>. QED BY <1>1, SessionsStart, SessionsKeep, PTL DEF Spec

(* An account enters a browser only by a callback that finds the state it    *)
(* was approved with fresh and issued to that browser, and that spends it:   *)
(* no page, switch or sign-out that read the row earlier brings an account   *)
(* back (accounts.ts:89-93, sessions.ts:112-124).                            *)
THEOREM EnteringNeedsAState == Spec => EnteringSpendsAState
<1>. DEFINE Spends(b, d) == \E s \in OAuthState : /\ states[s].link = "fresh" /\ states'[s].link = "gone"
                                                  /\ states[s].browser = b /\ states[s].account = d
            Step == \A b \in Browser, d \in DID : d \in Accounts(b)' \ Accounts(b) => Spends(b, d)
<1>1. SInv /\ [Next]_vars => [Step]_vars
  <2>. SUFFICES ASSUME SInv, Next, NEW b \in Browser, NEW d \in DID, d \in Accounts(b)' \ Accounts(b)
                PROVE  Spends(b, d)
    OBVIOUS
  <2>1. PICK t \in Tab : CalledBack(t)
    <3>1. rows' # rows BY DEF Accounts
    <3>2. ASSUME NEW t \in Tab, Loaded(t) PROVE FALSE
      BY <3>2, SignedOutRows DEF Loaded, Accounts
    <3>3. ASSUME NEW c \in Browser, NEW row, row.dids = rows[c].dids, rows' = [rows EXCEPT ![c] = row] PROVE FALSE
      <4>1. rows \in [Browser -> BrowserRow] BY Types DEF SInv
      <4>. QED BY <3>3, <4>1 DEF Accounts
    <3>4. ASSUME NEW t \in Tab, Login(t) PROVE FALSE BY <3>3, <3>4, ExistingKeeps DEF Login
    <3>5. ASSUME NEW t \in Tab, NEW s \in OAuthState, NEW e \in DID, Callback(t, s, e) PROVE FALSE
      BY <3>3, <3>5, ExistingKeeps DEF Callback
    <3>6. ASSUME NEW t \in Tab, NEW e \in DID, Switch(t, e) PROVE FALSE
      <4>1. PICK c \in Browser : rows' = [rows EXCEPT ![c] = WithCurrent(Existing(c), e)] BY <3>6 DEF Switch
      <4>2. WithCurrent(Existing(c), e).dids = rows[c].dids BY ExistingKeeps, SwitchKeeps
      <4>. QED BY <3>3, <4>1, <4>2
    <3>7. ASSUME NEW t \in Tab, NEW e \in DID, Logout(t, e) PROVE FALSE
      <4>1. PICK c \in Browser : rows' = [rows EXCEPT ![c] = WithoutAccount(Existing(c), e)] BY <3>7 DEF Logout
      <4>. DEFINE row == WithoutAccount(Existing(c), e)
      <4>2. ToSet(row.dids) = Accounts(c) \ {e}
        BY SignedOutRow
      <4>3. rows \in [Browser -> BrowserRow] /\ rows' = [rows EXCEPT ![c] = row] BY <4>1, Types DEF SInv
      <4>. HIDE DEF row
      <4>. QED BY <4>2, <4>3 DEF Accounts
    <3>8. ASSUME NEW t \in Tab, \/ Load(t) \/ Authorized(t) \/ CallbackFails(t) \/ Revoked(t) \/ LoadSignedOut(t)
                                \/ \E e \in DID : Restore(t, e)
          PROVE  FALSE
      BY <3>1, <3>8 DEF Load, Authorized, CallbackFails, Revoked, Restore, LoadSignedOut, vars
    <3>9. ASSUME (\E s \in OAuthState : Ages(s)) \/ (\E e \in DID : SessionDies(e)) PROVE FALSE
      BY <3>1, <3>9 DEF Ages, SessionDies
    <3>. QED BY <3>2, <3>4, <3>5, <3>6, <3>7, <3>8, <3>9 DEF Next, TabNext
  <2>. DEFINE s == requests[t].state
              c == requests[t].browser
              e == states[s].account
  <2>2. requests[t].kind = "callback" /\ states' = AfterTaking(s)
        /\ rows' = (IF StateIsMine(t) THEN [rows EXCEPT ![c] = WithAccount(@, e)] ELSE rows)
    BY <2>1 DEF CalledBack
  <2>3. c \in Browser /\ s \in OAuthState /\ e # None BY <2>2 DEF SInv, RequestOK
  <2>4. /\ rows \in [Browser -> BrowserRow] /\ states \in [OAuthState -> State] /\ e \in DID
    BY <2>3, Types DEF SInv, State
  <2>5. StateIsMine(t) BY <2>2 DEF Accounts
  <2>6. states[s].link = "fresh" /\ states[s].browser = c
    BY <2>3, <2>5, SessionsAssumption DEF StateIsMine, Taken, Browser
  <2>7. states'[s].link = "gone" BY <2>2, <2>3, <2>4 DEF AfterTaking, State
  <2>8. b = c /\ d = e
    <3>. DEFINE row == WithAccount(rows[c], e)
    <3>1. ToSet(row.dids) = ToSet(rows[c].dids) \cup {e}
      <4>1. rows[c] \in BrowserRow /\ RowOK(rows[c]) BY <2>3, <2>4 DEF SInv
      <4>. QED BY <2>4, <4>1, AdditionKeeps
    <3>2. rows' = [rows EXCEPT ![c] = row] BY <2>2, <2>5
    <3>. HIDE DEF row, e, c
    <3>. QED BY <2>4, <3>1, <3>2 DEF Accounts
  <2>. QED BY <2>3, <2>6, <2>7, <2>8
<1>. QED BY <1>1, SessionsStart, SessionsKeep, PTL DEF Spec, EnteringSpendsAState

(* An account leaves a browser only by its own sign-out there, or by a page  *)
(* of that browser that failed to restore it: removals work on the row as it *)
(* is by then and take no other account (accounts.ts:89-93,                  *)
(* sessions.ts:95-100).                                                      *)
THEOREM LeavingNeedsAReason == Spec => LeavingHasAReason
<1>. DEFINE Reason(b, d) ==
                \E t \in Tab : \/ requests'[t].kind = "logout" /\ requests'[t].browser = b /\ requests'[t].did = d
                               \/ requests[t].browser = b /\ d \in requests[t].failed
            Step == \A b \in Browser, d \in DID : d \in Accounts(b) \ Accounts(b)' => Reason(b, d)
<1>1. SInv /\ [Next]_vars => [Step]_vars
  <2>. SUFFICES ASSUME SInv, Next, NEW b \in Browser, NEW d \in DID, d \in Accounts(b) \ Accounts(b)'
                PROVE  Reason(b, d)
    OBVIOUS
  <2>1. rows' # rows /\ rows \in [Browser -> BrowserRow] /\ requests \in [Tab -> Request]
    BY Types DEF SInv, Accounts
  <2>2. ASSUME NEW t \in Tab, Loaded(t) PROVE Reason(b, d)
    BY <2>2, SignedOutRows DEF Loaded, Accounts
  <2>3. ASSUME NEW c \in Browser, NEW row, ToSet(rows[c].dids) \subseteq ToSet(row.dids),
               rows' = [rows EXCEPT ![c] = row]
        PROVE  FALSE
    BY <2>1, <2>3 DEF Accounts
  <2>4. ASSUME NEW t \in Tab, Login(t) PROVE FALSE BY <2>3, <2>4, ExistingKeeps DEF Login
  <2>5. ASSUME NEW t \in Tab, NEW s \in OAuthState, NEW e \in DID, Callback(t, s, e) PROVE FALSE
    BY <2>3, <2>5, ExistingKeeps DEF Callback
  <2>6. ASSUME NEW t \in Tab, NEW e \in DID, Switch(t, e) PROVE FALSE
    <3>1. PICK c \in Browser : rows' = [rows EXCEPT ![c] = WithCurrent(Existing(c), e)] BY <2>6 DEF Switch
    <3>2. WithCurrent(Existing(c), e).dids = rows[c].dids BY ExistingKeeps, SwitchKeeps
    <3>. QED BY <2>3, <3>1, <3>2
  <2>7. ASSUME NEW t \in Tab, NEW e \in DID, Logout(t, e) PROVE Reason(b, d)
    <3>1. PICK c \in Browser :
            /\ rows' = [rows EXCEPT ![c] = WithoutAccount(Existing(c), e)]
            /\ requests' = [requests EXCEPT ![t] = [NoRequest EXCEPT !.kind = "logout", !.browser = c, !.newRow = NewRow(t), !.did = e]]
      BY <2>7 DEF Logout, Asks
    <3>. DEFINE row == WithoutAccount(Existing(c), e)
    <3>2. ToSet(row.dids) = Accounts(c) \ {e}
      BY SignedOutRow
    <3>3. rows' = [rows EXCEPT ![c] = row] BY <3>1
    <3>. HIDE DEF row
    <3>4. b = c /\ d = e BY <2>1, <3>2, <3>3 DEF Accounts
    <3>5. requests'[t].kind = "logout" /\ requests'[t].browser = c /\ requests'[t].did = e
      BY <2>1, <3>1 DEF NoRequest
    <3>. QED BY <3>4, <3>5
  <2>8. ASSUME NEW t \in Tab, CalledBack(t) PROVE FALSE
    <3>. DEFINE c == requests[t].browser
                e == states[requests[t].state].account
                row == WithAccount(rows[c], e)
    <3>1. requests[t].kind = "callback" /\ (rows' = rows \/ rows' = [rows EXCEPT ![c] = row])
      BY <2>8 DEF CalledBack
    <3>2. c \in Browser /\ requests[t].state \in OAuthState /\ e # None BY <3>1 DEF SInv, RequestOK
    <3>3. e \in DID BY <3>2, Types DEF SInv, State
    <3>4. ToSet(rows[c].dids) \subseteq ToSet(row.dids)
      <4>1. rows[c] \in BrowserRow /\ RowOK(rows[c]) BY <2>1, <3>2 DEF SInv
      <4>. QED BY <3>3, <4>1, AdditionKeeps
    <3>. HIDE DEF row, e, c
    <3>. QED BY <2>1, <2>3, <3>1, <3>2, <3>4
  <2>9. ASSUME NEW t \in Tab, \/ Load(t) \/ Authorized(t) \/ CallbackFails(t) \/ Revoked(t) \/ LoadSignedOut(t)
                              \/ \E e \in DID : Restore(t, e)
        PROVE  FALSE
    BY <2>1, <2>9 DEF Load, Authorized, CallbackFails, Revoked, Restore, LoadSignedOut, vars
  <2>10. ASSUME (\E s \in OAuthState : Ages(s)) \/ (\E e \in DID : SessionDies(e)) PROVE FALSE
    BY <2>1, <2>10 DEF Ages, SessionDies
  <2>. QED BY <2>2, <2>4, <2>5, <2>6, <2>7, <2>8, <2>9, <2>10 DEF Next, TabNext
<1>. QED BY <1>1, SessionsStart, SessionsKeep, PTL DEF Spec, LeavingHasAReason
=============================================================================
