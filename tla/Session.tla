------------------------------ MODULE Session -------------------------------
(***************************************************************************)
(* The accounts of one device: logging in (server/src/auth.rs and relogin),  *)
(* keeping accounts in the vault and their secrets in the keychain           *)
(* (credentials.ts), adding and removing servers and starting the app        *)
(* (store.svelte.ts), and the WebSocket of each account that reconnects      *)
(* (ws.ts).  Every account is on a server of its own; they share one model   *)
(* of the server because only an account's own challenges matter to it.      *)
(*                                                                           *)
(* A flow runs to its next await in one step.  Keychain calls are answered   *)
(* in the order of the calls, network calls in any order; each may fail.     *)
(***************************************************************************)
EXTENDS Naturals, Sequences, FiniteSets

CONSTANTS MaxIds,       \* bound: accounts ever made on the device
          MaxNonces,    \* bound: challenges
          MaxCrashes,   \* bound: restarts of the app
          MaxFails,     \* bound: calls that fail, with the starts of outages
          MaxDrops      \* bound: WebSockets that close or do not open

Ids == 1..MaxIds
Nonces == 1..MaxNonces

ASSUME ConstantsAssumption ==
  {MaxIds, MaxNonces, MaxCrashes, MaxFails, MaxDrops} \subseteq Nat

VARIABLES challenges,   \* auth_challenges that are not spent or expired
          logins,       \* login requests under way: [n, copy, pc]
          granted,      \* tokens issued, per nonce
          legacy,       \* localStorage: the keys of the single-account layout are
                        \*   "none", "there" or "moved" into the vault
          vault,        \* localStorage: accounts listed there
          secrets,      \* accounts whose secret is in the keychain
          keychain,     \* keychain calls under way, in order: [op, id]
          phase,        \* "onboarding", "main", "loading", or "rejected" (loading,
                        \*   but bootstrap has failed); "off" when not running
          servers,      \* accounts shown
          flow,         \* id -> [pc, attach, n]: connectAccount or attachConn
          conns,        \* accounts in the store's conns
          sock,         \* id -> [made, closed, timer, ws, strays]: EventSocket
          made, left,   \* accounts and nonces so far; what is left of the bounds
          removed,      \* history: accounts the user removed
          spoiled       \* history: those removed while they were being attached,
                        \*   or whose removal or saving was cut short

server == <<challenges, logins, granted>>
device == <<legacy, vault, secrets, keychain>>
app == <<phase, servers, flow, conns>>
history == <<removed, spoiled>>
vars == <<server, device, app, sock, made, left, history>>

Each(x) == [id \in Ids |-> x]
Idle == [pc |-> "idle", attach |-> FALSE, n |-> 0]
NoSocket == [made |-> FALSE, closed |-> FALSE, timer |-> FALSE, ws |-> "none", strays |-> 0]

Init ==
  /\ challenges = {} /\ logins = {} /\ granted = [n \in Nonces |-> 0]
  /\ legacy \in {"none", "there"} /\ vault = {} /\ secrets = {} /\ keychain = <<>>
  /\ phase = "off" /\ servers = {} /\ flow = Each(Idle) /\ conns = {} /\ sock = Each(NoSocket)
  /\ made = [ids |-> 0, nonces |-> 0]
  /\ left = [crashes |-> MaxCrashes, fails |-> MaxFails, drops |-> MaxDrops]
  /\ removed = {} /\ spoiled = {}

Spend(b) == left[b] > 0 /\ left' = [left EXCEPT ![b] = @ - 1]
At(id, pc) == flow[id].pc = pc
Goes(id, pc) == flow' = [flow EXCEPT ![id].pc = pc]
Call(op, id) == Append(keychain, [op |-> op, id |-> id])
NewId == made.ids + 1

-----------------------------------------------------------------------------
(* The event socket.                                                         *)

\* connect(): a WebSocket that is there is superseded, and stays.
Connected(s) == [s EXCEPT !.made = TRUE, !.closed = FALSE, !.timer = FALSE, !.ws = "connecting",
                          !.strays = IF s.ws = "none" THEN @ ELSE @ + 1]

\* Mutant of Closed: close() does not clear the retry timer.
ClosedTimerOn(s) == [s EXCEPT !.closed = TRUE, !.ws = "none"]

\* close().
Closed(s) == IF s.made THEN [s EXCEPT !.closed = TRUE, !.timer = FALSE, !.ws = "none"] ELSE s

SocketDoes(id, s) ==
  sock' = [sock EXCEPT ![id] = s] /\ UNCHANGED <<server, device, app, made, history>>

Opened(id) ==
  /\ sock[id].ws = "connecting"
  /\ SocketDoes(id, [sock[id] EXCEPT !.ws = "open"]) /\ UNCHANGED left

\* Mutant of Lost: a socket that fails before it was ever open gives up.
LostOnce(s) == [s EXCEPT !.ws = "none", !.timer = s.ws = "open"]

\* onclose: the next attempt is scheduled.
Lost(s) == [s EXCEPT !.ws = "none", !.timer = TRUE]

Drop(id) ==
  /\ sock[id].ws # "none" /\ Spend("drops")
  /\ SocketDoes(id, Lost(sock[id]))

Retry(id) ==
  /\ sock[id].timer
  /\ SocketDoes(id, Connected(sock[id])) /\ UNCHANGED left

\* Mutant of MayRetry: the banner's button does not look for a WebSocket.
MayRetryAlways(s) == s.made /\ ~s.closed

\* retryNow(): by the banner's button, or when the network is back.
MayRetry(s) == s.made /\ ~s.closed /\ s.ws = "none"
RetryNow(id) ==
  /\ id \in conns /\ MayRetry(sock[id])
  /\ SocketDoes(id, Connected(sock[id])) /\ UNCHANGED left

-----------------------------------------------------------------------------
(* The server: auth.rs.                                                      *)

\* Mutant of Taken: a challenge is looked up and stays until it expires.
TakenNever(n) == challenges

\* login, first section: DELETE of the challenge tells whether it was there.
Taken(n) == challenges \ {n}
Take(r) ==
  /\ r.pc = "take"
  /\ logins' = (logins \ {r}) \union {[r EXCEPT !.pc = IF r.n \in challenges THEN "grant" ELSE "refuse"]}
  /\ challenges' = Taken(r.n)
  /\ UNCHANGED <<granted, device, app, sock, made, left, history>>

\* The user's row never changes, so the second section and the signature make
\* no difference to the order; the last one stores the token.
Grant(r) ==
  /\ r.pc = "grant" /\ logins' = (logins \ {r}) \union {[r EXCEPT !.pc = "ok"]}
  /\ granted' = [granted EXCEPT ![r.n] = @ + 1]
  /\ UNCHANGED <<challenges, device, app, sock, made, left, history>>

\* 60 seconds: an expired challenge is as good as deleted.
Expire(n) ==
  /\ n \in challenges /\ challenges' = challenges \ {n}
  /\ UNCHANGED <<logins, granted, device, app, sock, made, left, history>>

\* A login gets to the server twice.
Repeat(r) ==
  /\ r.copy = 1 /\ r.pc = "take" /\ logins' = logins \union {[r EXCEPT !.copy = 2]}
  /\ logins' # logins /\ UNCHANGED <<challenges, granted, device, app, sock, made, left, history>>

-----------------------------------------------------------------------------
(* Flows of the store.                                                       *)

\* bootstrap: the legacy layout is migrated into an empty vault first.
Connecting(ids) ==
  /\ flow' = [id \in Ids |-> IF id \in ids THEN [Idle EXCEPT !.pc = "get"] ELSE flow[id]]
  /\ servers' = ids
Boot ==
  /\ phase = "off"
  /\ IF vault = {} /\ legacy = "there"
       THEN /\ NewId \in Ids /\ made' = [made EXCEPT !.ids = NewId] /\ phase' = "loading"
            /\ flow' = [flow EXCEPT ![NewId].pc = "migrate"] /\ keychain' = Call("set", NewId)
            /\ UNCHANGED servers
       ELSE /\ phase' = IF vault = {} THEN "onboarding" ELSE "loading"
            /\ Connecting(vault)
            /\ \E order \in [1..Cardinality(vault) -> vault] :
                 /\ \A i, j \in DOMAIN order : order[i] = order[j] => i = j
                 /\ keychain' = [j \in DOMAIN order |-> [op |-> "get", id |-> order[j]]]
            /\ UNCHANGED made
  /\ UNCHANGED <<server, legacy, vault, secrets, conns, sock, left, history>>

\* addServer registers first; importServer has its user.
AddServer ==
  /\ phase \in {"onboarding", "main"} /\ NewId \in Ids
  /\ made' = [made EXCEPT !.ids = NewId]
  /\ Goes(NewId, "register")
  /\ UNCHANGED <<server, device, phase, servers, conns, sock, left, history>>

\* Mutant of IndexedEarly: the account is listed before its secret is kept.
IndexedAtOnce(id) == vault \union {id}

\* What is in the vault before the secret of a new account is kept.
IndexedEarly(id) == vault

\* attachConn, up to the first write of the secret; a registration may fail.
Attach(id) ==
  /\ At(id, "register")
  /\ flow' = [flow EXCEPT ![id] = [pc |-> "keep", attach |-> TRUE, n |-> 0]]
  /\ servers' = servers \union {id} /\ conns' = conns \union {id}
  /\ keychain' = Call("set", id) /\ vault' = IndexedEarly(id)
  /\ UNCHANGED <<server, legacy, secrets, phase, sock, made, left, history>>

\* saveIndex, after the secret: of a migrated or attached account.
Indexed(id) ==
  IF At(id, "migrate") \/ flow[id].attach THEN vault \union {id} ELSE vault

\* bootstrap goes on when every account it connects has ended.
Loaded(flows) == IF phase = "loading" /\ \A id \in Ids : flows[id].pc = "idle" THEN "main" ELSE phase

\* The keychain answers its first call.
Saved(id) ==
  /\ secrets' = secrets \union {id} /\ vault' = Indexed(id)
  /\ IF At(id, "migrate")
       THEN /\ legacy' = "moved" /\ flow' = [flow EXCEPT ![id].pc = "get"]
            /\ servers' = {id} /\ keychain' = Append(Tail(keychain), [op |-> "get", id |-> id])
       ELSE /\ Goes(id, IF At(id, "keep") THEN "challenge" ELSE "spaces")
            /\ keychain' = Tail(keychain) /\ UNCHANGED <<legacy, servers>>
  /\ UNCHANGED <<phase, conns>>

\* connectAccount: a secret that is missing leaves the account offline.
Got(id) ==
  /\ Goes(id, IF id \in secrets THEN "challenge" ELSE "idle")
  /\ conns' = IF id \in secrets THEN conns \union {id} ELSE conns
  /\ phase' = Loaded(flow') /\ keychain' = Tail(keychain)
  /\ UNCHANGED <<legacy, vault, secrets, servers>>

\* removeServer, after its deletion.
Wiped(id) ==
  /\ secrets' = secrets \ {id} /\ keychain' = Tail(keychain)
  /\ phase' = IF servers = {} THEN "onboarding" ELSE phase
  /\ UNCHANGED <<legacy, vault, servers, flow, conns>>

Keychain ==
  /\ keychain # <<>>
  /\ LET c == Head(keychain) IN
       \/ c.op = "set" /\ Saved(c.id)
       \/ c.op = "get" /\ Got(c.id)
       \/ c.op = "del" /\ Wiped(c.id)
  /\ UNCHANGED <<server, sock, made, left, history>>

\* A keychain call fails: outside of connectAccount's try it rejects bootstrap.
KeychainFails ==
  /\ keychain # <<>> /\ Spend("fails") /\ keychain' = Tail(keychain)
  /\ LET id == Head(keychain).id
         op == Head(keychain).op
     IN /\ flow' = IF op = "del" THEN flow ELSE [flow EXCEPT ![id] = Idle]
        /\ phase' = IF op = "get" \/ At(id, "migrate") THEN "rejected" ELSE Loaded(flow')
        /\ spoiled' = IF op = "get" THEN spoiled ELSE spoiled \union {id}
  /\ UNCHANGED <<server, legacy, vault, secrets, servers, conns, sock, made, removed>>

\* relogin: a challenge, then a login with its signature.
Challenge(id) ==
  /\ At(id, "challenge") /\ made.nonces < MaxNonces
  /\ LET n == made.nonces + 1 IN
       /\ made' = [made EXCEPT !.nonces = n] /\ challenges' = challenges \union {n}
       /\ logins' = logins \union {[n |-> n, copy |-> 1, pc |-> "take"]}
       /\ flow' = [flow EXCEPT ![id].pc = "login", ![id].n = n]
  /\ UNCHANGED <<granted, device, phase, servers, conns, sock, left, history>>

\* persistSecret follows a login; a refusal ends the flow.
Ended(id) == flow' = [flow EXCEPT ![id] = Idle] /\ phase' = Loaded(flow')
LoggedIn(id) ==
  /\ At(id, "login")
  /\ \E r \in logins :
       /\ r.n = flow[id].n /\ r.copy = 1
       /\ \/ r.pc = "ok" /\ Goes(id, "persist") /\ keychain' = Call("set", id) /\ UNCHANGED phase
          \/ r.pc = "refuse" /\ Ended(id) /\ UNCHANGED keychain
       /\ logins' = logins \ {r}
  /\ UNCHANGED <<challenges, granted, legacy, vault, secrets, servers, conns, sock, made, left, history>>

\* refreshSpaces, then connectSocket: a socket that is there is closed.
Online(id) ==
  /\ At(id, "spaces") /\ flow' = [flow EXCEPT ![id] = Idle]
  /\ phase' = IF flow[id].attach THEN "main" ELSE Loaded(flow')
  /\ sock' = [sock EXCEPT ![id] = Connected([Closed(@) EXCEPT !.made = TRUE])]
  /\ UNCHANGED <<server, device, servers, conns, made, left, history>>

\* A call of the server fails; the error ends the flow.
Fails(id) ==
  /\ flow[id].pc \in {"register", "challenge", "login", "spaces"} /\ Spend("fails")
  /\ Ended(id)
  /\ UNCHANGED <<server, device, servers, conns, sock, made, history>>

\* removeServer, up to the deletion of the secret.
RemoveServer(id) ==
  /\ phase = "main" /\ id \in servers
  /\ sock' = [sock EXCEPT ![id] = Closed(@)]
  /\ conns' = conns \ {id} /\ servers' = servers \ {id} /\ vault' = vault \ {id}
  /\ keychain' = Call("del", id)
  /\ removed' = removed \union {id}
  /\ spoiled' = IF At(id, "idle") THEN spoiled ELSE spoiled \union {id}
  /\ UNCHANGED <<server, legacy, secrets, phase, flow, made, left>>

\* The app ends anywhere; what is in localStorage and the keychain stays.
Crash ==
  /\ phase # "off" /\ Spend("crashes")
  /\ phase' = "off" /\ servers' = {} /\ flow' = Each(Idle) /\ conns' = {} /\ sock' = Each(NoSocket)
  /\ keychain' = <<>>
  /\ spoiled' = spoiled \union {keychain[j].id : j \in {i \in DOMAIN keychain : keychain[i].op = "del"}}
  /\ UNCHANGED <<server, legacy, vault, secrets, made, removed>>

-----------------------------------------------------------------------------
Socket(id) == Opened(id) \/ Drop(id) \/ Retry(id) \/ RetryNow(id)
Login(r) == Take(r) \/ Grant(r) \/ Repeat(r)
Account(id) ==
  \/ Attach(id) \/ Challenge(id) \/ LoggedIn(id) \/ Online(id) \/ Fails(id)
  \/ RemoveServer(id)

Next ==
  \/ Boot \/ AddServer \/ Keychain \/ KeychainFails \/ Crash
  \/ \E id \in Ids : Account(id) \/ Socket(id)
  \/ \E r \in logins : Login(r)
  \/ \E n \in Nonces : Expire(n)

\* A timer fires and a WebSocket opens, unless something else happens to them.
Fairness == \A id \in Ids : WF_vars(Retry(id)) /\ WF_vars(Opened(id))
Spec == Init /\ [][Next]_vars /\ Fairness

-----------------------------------------------------------------------------
(* Properties.                                                               *)

ServerTyped ==
  /\ challenges \subseteq Nonces /\ granted \in [Nonces -> Nat]
  /\ \A r \in logins : r.n \in Nonces /\ r.pc \in {"take", "grant", "refuse", "ok"}
DeviceTyped ==
  /\ legacy \in {"none", "there", "moved"} /\ vault \subseteq Ids /\ secrets \subseteq Ids
  /\ \A j \in DOMAIN keychain : keychain[j].op \in {"get", "set", "del"} /\ keychain[j].id \in Ids
AppTyped ==
  /\ phase \in {"off", "loading", "rejected", "onboarding", "main"}
  /\ servers \subseteq Ids /\ conns \subseteq Ids
  /\ removed \subseteq Ids /\ spoiled \subseteq Ids
SocketsTyped ==
  \A id \in Ids : /\ sock[id].ws \in {"none", "connecting", "open"}
                  /\ sock[id].timer => sock[id].ws = "none" /\ sock[id].made

\* The variables keep their types, and a timer runs only where a socket was made
\* and has no WebSocket.
TypeOK == ServerTyped /\ DeviceTyped /\ AppTyped /\ SocketsTyped

\* A challenge is good for one login, however requests are repeated and their
\* sections interleave ("single-use, 60 s").
ChallengeOnce == \A n \in Nonces : granted[n] <= 1

\* Whenever the app ends, every account of the vault has its secret; an account
\* that is shown and not being connected is in the vault; and the identity of the
\* legacy layout is in one place or the other ("Persist identity immediately so a
\* later login failure doesn't lose the key").
KeysKept ==
  /\ vault \ spoiled \subseteq secrets
  /\ \A id \in servers \ spoiled : At(id, "idle") => id \in vault
  /\ (legacy = "moved" /\ removed = {}) => vault # {}

\* Once removed for good, an account has no trace on the device, and no timer
\* brings its WebSocket back ("Disconnect, forget, and wipe credentials").
Forgotten ==
  \A id \in removed \ spoiled :
    /\ id \notin vault \union servers \union conns
    /\ sock[id].ws = "none" /\ ~sock[id].timer
    /\ [op |-> "del", id |-> id] \in {keychain[j] : j \in DOMAIN keychain} \/ id \notin secrets

\* An account never has two WebSockets ("One connection per client").
OneConnection == \A id \in Ids : sock[id].strays = 0

\* A socket that is not closed comes to be open.
Reconnects ==
  \A id \in Ids : (sock[id].made /\ ~sock[id].closed) ~> (sock[id].ws = "open" \/ ~sock[id].made \/ sock[id].closed)
=============================================================================
