---------------------------- MODULE SessionProofs ----------------------------
(***************************************************************************)
(* Theorems about Session: a challenge is good for one login, an account     *)
(* has one WebSocket, saved accounts keep their keys, and removed ones stay  *)
(* forgotten.                                                                *)
(***************************************************************************)
EXTENDS Session, TLAPS, FiniteSetTheorems

PCs == {"idle", "register", "migrate", "keep", "get", "challenge", "login", "persist", "spaces"}
Flows == [pc : PCs, attach : BOOLEAN, n : Nat]
Socks == [made : BOOLEAN, closed : BOOLEAN, timer : BOOLEAN,
          ws : {"none", "connecting", "open"}, strays : Nat]
Logins == [n : Nat, copy : {1, 2}, pc : {"take", "grant", "refuse", "ok"}]
Calls == [op : {"get", "set", "del"}, id : Ids]

-----------------------------------------------------------------------------
(* The inductive invariants.                                                 *)

\* A nonce is a row of auth_challenges, or with one login between its two
\* sections, or granted, or none of them any more.
LoginInv ==
  /\ made \in [ids : Nat, nonces : Nat] /\ made.nonces <= MaxNonces
  /\ challenges \subseteq 1..made.nonces
  /\ logins \subseteq Logins /\ \A r \in logins : r.n \in 1..made.nonces
  /\ granted \in [Nonces -> Nat]
  /\ \A n \in Nonces : n \in challenges \/ n > made.nonces => granted[n] = 0
  /\ \A r \in logins : r.pc = "grant" => r.n \notin challenges /\ granted[r.n] = 0
  /\ \A r, q \in logins : r.pc = "grant" /\ q.pc = "grant" /\ r.n = q.n => r = q
  /\ \A n \in Nonces : granted[n] <= 1

\* A socket waits for its timer only without a WebSocket, and never has two.
Sound(s) ==
  /\ s \in Socks
  /\ s.timer => s.ws = "none"
  /\ ~s.made => s.ws = "none" /\ ~s.timer
  /\ s.strays = 0
SocketInv == sock \in [Ids -> Socks] /\ \A id \in Ids : Sound(sock[id])

\* Types of the device's and the app's variables.
TypeInv ==
  /\ made \in [ids : Nat, nonces : Nat]
  /\ flow \in [Ids -> Flows]
  /\ keychain \in Seq(Calls)
  /\ phase \in {"off", "loading", "rejected", "onboarding", "main"}
  /\ legacy \in {"none", "there", "moved"}
  /\ vault \subseteq Ids /\ secrets \subseteq Ids /\ servers \subseteq Ids /\ conns \subseteq Ids
  /\ removed \subseteq Ids /\ spoiled \subseteq Ids

\* A call of the keychain belongs to a flow that waits for it, one call to a
\* flow, or is the deletion of a removed account.
Belongs(c) ==
  /\ c.op = "set" => flow[c.id].pc \in {"migrate", "keep", "persist"}
  /\ c.op = "get" => flow[c.id].pc = "get"
  /\ c.op = "del" => c.id \in removed
CallsInv ==
  /\ \A j \in DOMAIN keychain : Belongs(keychain[j])
  /\ \A i, j \in DOMAIN keychain :
       keychain[i].id = keychain[j].id /\ keychain[i].op # "del" /\ keychain[j].op # "del" => i = j
  /\ phase = "off" => keychain = <<>> /\ flow = Each(Idle)

\* Ids that were not given out have no trace.
Fresh(id) ==
  /\ flow[id].pc = "idle" /\ sock[id].ws = "none" /\ ~sock[id].timer
  /\ id \notin vault \union secrets \union servers \union conns \union removed \union spoiled

\* Nothing was removed or cut short: the vault lists every account but a new one
\* whose secret is on its way, and has the secrets of those it lists.
Kept(id) ==
  /\ At(id, "register") => id \notin servers
  /\ At(id, "keep") => flow[id].attach
  /\ id \notin spoiled /\ flow[id].pc \in {"get", "challenge", "login", "persist", "spaces"} => id \in vault
  /\ id \in vault \ spoiled => id \in secrets
  /\ id \in servers \ spoiled /\ At(id, "idle") => id \in vault

\* The deletion of its secret is the last thing that is left of a removed account.
Gone(id) ==
  /\ flow[id].pc = "idle"
  /\ id \notin vault \union servers \union conns
  /\ sock[id].ws = "none" /\ ~sock[id].timer
  /\ id \in secrets => \E j \in DOMAIN keychain : keychain[j] = [op |-> "del", id |-> id]

LegacyInv == (legacy = "moved" /\ removed = {}) => vault # {}

AccountInv ==
  /\ TypeInv /\ SocketInv /\ CallsInv /\ LegacyInv
  /\ \A id \in Ids : /\ id > made.ids => Fresh(id)
                     /\ Kept(id)
                     /\ id \in removed \ spoiled => Gone(id)
-----------------------------------------------------------------------------
(* A challenge is good for one login.                                        *)

\* Steps that leave the server alone.
LEMMA ServerAlone ==
  ASSUME LoginInv, UNCHANGED server, made' \in [ids : Nat, nonces : Nat], made'.nonces = made.nonces
  PROVE  LoginInv'
  BY DEF LoginInv, server

LEMMA TakeLogin ==
  ASSUME LoginInv, NEW r \in logins, Take(r)
  PROVE  LoginInv'
<1> DEFINE q == [r EXCEPT !.pc = IF r.n \in challenges THEN "grant" ELSE "refuse"]
<1>1. /\ r \in Logins /\ q \in Logins /\ q.n = r.n
      /\ q.pc = "grant" => r.n \in challenges
  BY DEF LoginInv, Logins
<1>2. /\ logins' = (logins \ {r}) \union {q} /\ challenges' = challenges \ {r.n}
      /\ granted' = granted /\ made' = made
  BY DEF Take, Taken
<1> HIDE DEF q
<1>3. r.n \in Nonces
  BY ConstantsAssumption DEF LoginInv, Nonces
<1>4. \A p \in logins' : p \in Logins /\ p.n \in 1..made.nonces
  BY <1>1, <1>2 DEF LoginInv
<1>5. \A p \in logins' : p.pc = "grant" => p.n \notin challenges' /\ granted'[p.n] = 0
  BY <1>1, <1>2, <1>3 DEF LoginInv
<1>6. \A p, m \in logins' : p.pc = "grant" /\ m.pc = "grant" /\ p.n = m.n => p = m
  BY <1>1, <1>2, <1>3 DEF LoginInv
<1> QED BY <1>2, <1>4, <1>5, <1>6 DEF LoginInv

LEMMA GrantLogin ==
  ASSUME LoginInv, NEW r \in logins, Grant(r)
  PROVE  LoginInv'
<1> DEFINE q == [r EXCEPT !.pc = "ok"]
<1>1. r \in Logins /\ q \in Logins /\ q.n = r.n /\ q.pc = "ok" /\ r.pc = "grant"
  BY DEF LoginInv, Logins, Grant
<1>2. /\ logins' = (logins \ {r}) \union {q} /\ challenges' = challenges
      /\ granted' = [granted EXCEPT ![r.n] = @ + 1] /\ made' = made
  BY DEF Grant
<1> HIDE DEF q
<1>3. r.n \in Nonces /\ granted[r.n] = 0 /\ r.n \notin challenges /\ r.n \in 1..made.nonces
  BY <1>1, ConstantsAssumption DEF LoginInv, Nonces
<1>4. /\ granted' \in [Nonces -> Nat] /\ granted'[r.n] = 1
      /\ \A m \in Nonces : m # r.n => granted'[m] = granted[m]
  BY <1>2, <1>3 DEF LoginInv
<1>5. \A p \in logins' : p.pc = "grant" => p \in logins /\ p.n # r.n /\ p.n \in Nonces
  BY <1>1, <1>2, ConstantsAssumption DEF LoginInv, Nonces
<1>6. \A p \in logins' : p \in Logins /\ p.n \in 1..made.nonces
  BY <1>1, <1>2, <1>3 DEF LoginInv
<1>7. \A m \in Nonces : m \in challenges' \/ m > made.nonces => granted'[m] = 0
  BY <1>2, <1>3, <1>4 DEF LoginInv
<1> QED BY <1>2, <1>3, <1>4, <1>5, <1>6, <1>7 DEF LoginInv

LEMMA RepeatLogin ==
  ASSUME LoginInv, NEW r \in logins, Repeat(r)
  PROVE  LoginInv'
<1> DEFINE q == [r EXCEPT !.copy = 2]
<1>1. r \in Logins /\ q \in Logins /\ q.n = r.n /\ q.pc = "take"
  BY DEF LoginInv, Logins, Repeat
<1>2. logins' = logins \union {q} /\ UNCHANGED <<challenges, granted, made>>
  BY DEF Repeat
<1> HIDE DEF q
<1> QED BY <1>1, <1>2 DEF LoginInv

LEMMA NewChallenge ==
  ASSUME LoginInv, NEW id \in Ids, Challenge(id)
  PROVE  LoginInv'
<1> DEFINE n == made.nonces + 1
           q == [n |-> n, copy |-> 1, pc |-> "take"]
<1>1. /\ made' = [made EXCEPT !.nonces = n] /\ challenges' = challenges \union {n}
      /\ logins' = logins \union {q} /\ granted' = granted
  BY DEF Challenge
<1>2. /\ made' \in [ids : Nat, nonces : Nat] /\ made'.nonces = n /\ n \in Nat /\ n = made.nonces + 1
      /\ n <= MaxNonces
  BY <1>1, ConstantsAssumption DEF LoginInv, Challenge
<1>3. q \in Logins /\ q.n = n /\ q.pc = "take"
  BY <1>2 DEF Logins
<1>4. challenges' \subseteq 1..n /\ 1..made.nonces \subseteq 1..n
  BY <1>1, <1>2 DEF LoginInv
<1>5. \A r \in logins' : r \in Logins /\ r.n \in 1..n /\ (r.pc = "grant" => r \in logins)
  BY <1>1, <1>3, <1>4, <1>2 DEF LoginInv
<1>6. \A m \in Nonces : m \in challenges' \/ m > n => granted'[m] = 0
  <2> SUFFICES ASSUME NEW m \in Nonces, m \in challenges' \/ m > n PROVE granted[m] = 0
    BY <1>1
  <2>1. m \in Nat
    BY DEF Nonces
  <2> QED BY <1>1, <1>2, <2>1 DEF LoginInv
<1>7. \A r \in logins' : r.pc = "grant" => r.n \notin challenges' /\ granted'[r.n] = 0
  BY <1>1, <1>2, <1>5 DEF LoginInv
<1> QED BY <1>1, <1>2, <1>4, <1>5, <1>6, <1>7 DEF LoginInv

\* What the other actions leave alone.
LEMMA ElseServerAlone ==
  ASSUME LoginInv, Next, ~\E r \in logins : Login(r), ~\E n \in Nonces : Expire(n),
         ~\E id \in Ids : Challenge(id) \/ LoggedIn(id)
  PROVE  UNCHANGED server /\ made' \in [ids : Nat, nonces : Nat] /\ made'.nonces = made.nonces
<1>1. CASE Boot \/ AddServer
  <2>1. made.ids + 1 \in Nat /\ made \in [ids : Nat, nonces : Nat]
    BY DEF LoginInv
  <2> QED BY <1>1, <2>1 DEF Boot, AddServer, NewId
<1>2. CASE Keychain \/ KeychainFails \/ Crash
  BY <1>2 DEF Keychain, KeychainFails, Crash, LoginInv
<1>3. CASE \E id \in Ids : Account(id)
  BY <1>3 DEF Account, Attach, Online, Fails, RemoveServer, LoginInv, Ended
<1>4. CASE \E id \in Ids : Socket(id)
  BY <1>4 DEF Socket, Opened, Drop, Retry, RetryNow, SocketDoes, LoginInv
<1> QED BY <1>1, <1>2, <1>3, <1>4 DEF Next

LEMMA LoginStep == LoginInv /\ [Next]_vars => LoginInv'
<1> SUFFICES ASSUME LoginInv, [Next]_vars PROVE LoginInv'
  OBVIOUS
<1>1. CASE UNCHANGED vars
  BY <1>1, ServerAlone DEF vars, server, LoginInv
<1>2. CASE \E r \in logins : Login(r)
  BY <1>2, TakeLogin, GrantLogin, RepeatLogin DEF Login
<1>3. CASE \E n \in Nonces : Expire(n)
  BY <1>3 DEF Expire, LoginInv
<1>4. CASE \E id \in Ids : Challenge(id)
  BY <1>4, NewChallenge
<1>5. CASE \E id \in Ids : LoggedIn(id)
  BY <1>5 DEF LoggedIn, LoginInv
<1>6. CASE /\ Next /\ ~(\E r \in logins : Login(r)) /\ ~(\E n \in Nonces : Expire(n))
           /\ ~\E id \in Ids : Challenge(id) \/ LoggedIn(id)
  BY <1>6, ElseServerAlone, ServerAlone
<1> QED BY <1>1, <1>2, <1>3, <1>4, <1>5, <1>6

\* A challenge is good for one login, for any number of accounts, challenges,
\* repetitions and orders of the sections of login (auth.rs).
THEOREM ChallengeOnceHolds == Spec => []ChallengeOnce
<1>1. Init => LoginInv
  BY ConstantsAssumption DEF Init, LoginInv, Nonces
<1>2. LoginInv => ChallengeOnce
  BY DEF LoginInv, ChallengeOnce
<1> QED BY <1>1, <1>2, LoginStep, PTL DEF Spec

-----------------------------------------------------------------------------
(* An account has one WebSocket.                                             *)

LEMMA SoundConnected ==
  ASSUME NEW s, Sound(s), s.ws = "none"
  PROVE  Sound(Connected(s))
  BY DEF Sound, Socks, Connected

LEMMA SoundClosed ==
  ASSUME NEW s, Sound(s)
  PROVE  /\ Sound(Closed(s)) /\ Closed(s).ws = "none" /\ ~Closed(s).timer
         /\ Sound([Closed(s) EXCEPT !.made = TRUE]) /\ [Closed(s) EXCEPT !.made = TRUE].ws = "none"
  BY DEF Sound, Socks, Closed

LEMMA SoundLost ==
  ASSUME NEW s, Sound(s), s.ws # "none"
  PROVE  Sound(Lost(s))
  BY DEF Sound, Socks, Lost

LEMMA SoundOpened ==
  ASSUME NEW s, Sound(s), s.ws = "connecting"
  PROVE  Sound([s EXCEPT !.ws = "open"])
  BY DEF Sound, Socks

LEMMA SoundNew == Sound(NoSocket) /\ NoSocket \in Socks
  BY DEF Sound, Socks, NoSocket

\* One socket that changes to a sound one.
LEMMA OneSocket ==
  ASSUME SocketInv, NEW id \in Ids, NEW s, Sound(s), sock' = [sock EXCEPT ![id] = s]
  PROVE  SocketInv'
<1>1. s \in Socks
  BY DEF Sound
<1> QED BY <1>1 DEF SocketInv

LEMMA SocketStep == SocketInv /\ [Next]_vars => SocketInv'
<1> SUFFICES ASSUME SocketInv, [Next]_vars PROVE SocketInv'
  OBVIOUS
<1>1. CASE UNCHANGED sock
  BY <1>1 DEF SocketInv
<1>2. ASSUME NEW id \in Ids, Socket(id) PROVE SocketInv'
  <2>1. Sound(sock[id])
    BY DEF SocketInv
  <2>2. CASE Opened(id)
    BY <2>1, <2>2, SoundOpened, OneSocket DEF Opened, SocketDoes
  <2>3. CASE Drop(id)
    BY <2>1, <2>3, SoundLost, OneSocket DEF Drop, SocketDoes
  <2>4. CASE Retry(id)
    <3>1. sock[id].ws = "none"
      BY <2>1, <2>4 DEF Retry, Sound
    <3> QED BY <2>1, <2>4, <3>1, SoundConnected, OneSocket DEF Retry, SocketDoes
  <2>5. CASE RetryNow(id)
    BY <2>1, <2>5, SoundConnected, OneSocket DEF RetryNow, MayRetry, SocketDoes
  <2> QED BY <1>2, <2>2, <2>3, <2>4, <2>5 DEF Socket
<1>3. ASSUME NEW id \in Ids, Online(id) \/ RemoveServer(id) PROVE SocketInv'
  <2> DEFINE t == [Closed(sock[id]) EXCEPT !.made = TRUE]
  <2>1. Sound(Closed(sock[id])) /\ Sound(t) /\ t.ws = "none"
    BY SoundClosed DEF SocketInv
  <2>2. Sound(Connected(t))
    BY <2>1, SoundConnected
  <2>3. sock[id] = sock[id] /\ sock \in [Ids -> Socks]
    BY DEF SocketInv
  <2>4. sock' = [sock EXCEPT ![id] = Connected(t)] \/ sock' = [sock EXCEPT ![id] = Closed(sock[id])]
    BY <1>3, <2>3 DEF Online, RemoveServer
  <2> QED BY <2>1, <2>2, <2>4, OneSocket
<1>4. CASE Crash
  BY <1>4, SoundNew DEF Crash, Each, SocketInv
<1>5. CASE Boot \/ AddServer \/ Keychain \/ KeychainFails
  BY <1>1, <1>5 DEF Boot, AddServer, Keychain, KeychainFails
<1>6. ASSUME NEW id \in Ids, Account(id), ~(Online(id) \/ RemoveServer(id)) PROVE SocketInv'
  BY <1>1, <1>6 DEF Account, Attach, Challenge, LoggedIn, Fails
<1>7. ASSUME NEW r \in logins, Login(r) PROVE SocketInv'
  BY <1>1, <1>7 DEF Login, Take, Grant, Repeat
<1>8. ASSUME NEW n \in Nonces, Expire(n) PROVE SocketInv'
  BY <1>1, <1>8 DEF Expire
<1>9. CASE UNCHANGED vars
  BY <1>1, <1>9 DEF vars
<1> QED BY <1>2, <1>3, <1>4, <1>5, <1>6, <1>7, <1>8, <1>9 DEF Next

\* An account never has two WebSockets, whatever closes, is retried by timer, by
\* hand or when the network is back, and whatever logs in meanwhile (ws.ts).
THEOREM OneConnectionHolds == Spec => []OneConnection
<1>1. Init => SocketInv
  BY SoundNew DEF Init, SocketInv, Each
<1>2. SocketInv => OneConnection
  BY DEF SocketInv, Sound, OneConnection
<1> QED BY <1>1, <1>2, SocketStep, PTL DEF Spec

-----------------------------------------------------------------------------
(* Accounts are kept and forgotten.                                          *)

\* The first call is answered: the others move up.
LEMMA TailCalls ==
  ASSUME TypeInv, keychain # <<>>
  PROVE  /\ Tail(keychain) \in Seq(Calls) /\ Head(keychain) \in Calls /\ Head(keychain) = keychain[1]
         /\ 1 \in DOMAIN keychain
         /\ \A j \in DOMAIN Tail(keychain) : j + 1 \in DOMAIN keychain /\ j + 1 # 1
                                             /\ Tail(keychain)[j] = keychain[j + 1]
         /\ \A j \in DOMAIN keychain : j # 1 => j - 1 \in DOMAIN Tail(keychain)
                                             /\ Tail(keychain)[j - 1] = keychain[j]
  BY DEF TypeInv

\* A call goes to the end of a queue of them.
LEMMA AppendCall ==
  ASSUME NEW q \in Seq(Calls), NEW c \in Calls
  PROVE  /\ Append(q, c) \in Seq(Calls)
         /\ Append(q, c)[Len(q) + 1] = c /\ Len(q) + 1 \in DOMAIN Append(q, c) /\ Len(q) + 1 \notin DOMAIN q
         /\ \A j \in DOMAIN q : j \in DOMAIN Append(q, c) /\ Append(q, c)[j] = q[j]
         /\ \A j \in DOMAIN Append(q, c) : j \in DOMAIN q \/ j = Len(q) + 1
  OBVIOUS

\* Steps of the server and of sockets leave the accounts alone.
LEMMA AccountsAlone ==
  ASSUME AccountInv, SocketInv', made' \in [ids : Nat, nonces : Nat], made'.ids = made.ids,
         UNCHANGED <<device, phase, servers, flow, conns, history>>,
         \A id \in Ids : id \notin conns /\ sock[id].ws = "none" /\ ~sock[id].timer =>
                           sock'[id].ws = "none" /\ ~sock'[id].timer
  PROVE  AccountInv'
<1>1. UNCHANGED <<legacy, vault, secrets, keychain, phase, servers, flow, conns, removed, spoiled>>
  BY DEF device, history
<1>2. TypeInv' /\ CallsInv' /\ LegacyInv'
  BY <1>1 DEF AccountInv, TypeInv, CallsInv, Belongs, LegacyInv
<1>3. ASSUME NEW id \in Ids
      PROVE  /\ id > made'.ids => Fresh(id)'
             /\ Kept(id)'
             /\ id \in removed' \ spoiled' => Gone(id)'
  BY <1>1, <1>3 DEF AccountInv, Fresh, Kept, Gone, At
<1> QED BY <1>2, <1>3 DEF AccountInv

\* What is in the queue.
LEMMA QueuedCalls ==
  ASSUME TypeInv, NEW j \in DOMAIN keychain
  PROVE  /\ keychain[j] \in Calls /\ keychain[j].id \in Ids
         /\ keychain[j].op \in {"get", "set", "del"}
<1>1. keychain[j] \in Calls
  BY DEF TypeInv
<1> QED BY <1>1 DEF Calls

\* AddServer gives out an id, which has no trace yet.
LEMMA NewAccount ==
  ASSUME AccountInv, SocketInv', AddServer
  PROVE  AccountInv'
<1> DEFINE new == NewId
<1>1. /\ new \in Ids /\ new = made.ids + 1 /\ made' = [made EXCEPT !.ids = new]
      /\ flow' = [flow EXCEPT ![new].pc = "register"] /\ phase # "off"
      /\ UNCHANGED <<legacy, vault, secrets, keychain, phase, servers, conns, sock, removed, spoiled>>
  BY DEF AddServer, Goes, NewId, device, history
<1> HIDE DEF new
<1>2. Fresh(new) /\ made'.ids = new /\ made' \in [ids : Nat, nonces : Nat] /\ made.ids \in Nat
  BY <1>1 DEF AccountInv, TypeInv
<1>3. flow' \in [Ids -> Flows] /\ flow'[new].pc = "register" /\ \A id \in Ids : id # new => flow'[id] = flow[id]
  BY <1>1 DEF AccountInv, TypeInv, Flows, PCs
<1>4. TypeInv' /\ LegacyInv'
  BY <1>1, <1>2, <1>3 DEF AccountInv, TypeInv, LegacyInv
<1>5. CallsInv'
  <2>1. \A j \in DOMAIN keychain : keychain[j].id \in Ids /\ keychain[j].op \in {"get", "set", "del"}
    BY QueuedCalls DEF AccountInv
  <2>2. \A j \in DOMAIN keychain : keychain[j].id # new
    BY <1>2, <2>1 DEF AccountInv, CallsInv, Belongs, Fresh
  <2> QED BY <1>1, <1>3, <2>1, <2>2 DEF AccountInv, CallsInv, Belongs
<1>6. ASSUME NEW id \in Ids
      PROVE  /\ id > made'.ids => Fresh(id)'
             /\ Kept(id)'
             /\ id \in removed' \ spoiled' => Gone(id)'
  <2>1. CASE id = new
    BY <1>1, <1>2, <1>3, <2>1 DEF Fresh, Kept, Gone, At
  <2>2. CASE id # new
    BY <1>1, <1>2, <1>3, <2>2 DEF AccountInv, Fresh, Kept, Gone, At, Ids
  <2> QED BY <2>1, <2>2
<1> QED BY <1>4, <1>5, <1>6 DEF AccountInv

\* An account that does something was given out, and is not gone.
LEMMA BusyAccount ==
  ASSUME AccountInv, NEW id \in Ids, flow[id].pc # "idle"
  PROVE  id <= made.ids /\ id \notin removed \ spoiled /\ phase # "off"
<1>1. id <= made.ids
  <2>1. made.ids \in Nat /\ id \in Nat
    BY DEF AccountInv, TypeInv, Ids
  <2> QED BY <2>1 DEF AccountInv, Fresh
<1>2. id \notin removed \ spoiled
  BY DEF AccountInv, Gone
<1>3. phase # "off"
  BY DEF AccountInv, CallsInv, Each, Idle
<1> QED BY <1>1, <1>2, <1>3

\* The queue as it is, when no call in it waits for the flow that moves.
LEMMA CallsStay ==
  ASSUME AccountInv, NEW id \in Ids, flow[id].pc \notin {"migrate", "keep", "persist", "get"},
         \A k \in Ids : k # id => flow'[k] = flow[k],
         keychain' = keychain, removed' = removed, phase' # "off"
  PROVE  CallsInv'
<1>1. \A j \in DOMAIN keychain : keychain[j].id \in Ids /\ keychain[j].op \in {"get", "set", "del"}
  BY QueuedCalls DEF AccountInv
<1>2. ASSUME NEW j \in DOMAIN keychain PROVE Belongs(keychain[j])'
  BY <1>1, <1>2 DEF AccountInv, CallsInv, Belongs
<1> QED BY <1>2 DEF AccountInv, CallsInv

\* The first call is answered, and its flow moves.
LEMMA CallsTail ==
  ASSUME AccountInv, keychain # <<>>, NEW id \in Ids, id = Head(keychain).id,
         \A k \in Ids : k # id => flow'[k] = flow[k],
         Head(keychain).op = "del" => flow' = flow,
         keychain' = Tail(keychain), removed' = removed, phase' # "off"
  PROVE  CallsInv'
<1>1. \A j \in DOMAIN keychain : keychain[j].id \in Ids /\ keychain[j].op \in {"get", "set", "del"}
  BY QueuedCalls DEF AccountInv
<1>2. /\ 1 \in DOMAIN keychain /\ Head(keychain) = keychain[1]
      /\ \A j \in DOMAIN keychain' : j + 1 \in DOMAIN keychain /\ j + 1 # 1
                                      /\ keychain'[j] = keychain[j + 1]
  BY TailCalls DEF AccountInv
<1>3. ASSUME NEW j \in DOMAIN keychain' PROVE Belongs(keychain[j])'
  BY <1>1, <1>2, <1>3 DEF AccountInv, CallsInv, Belongs
<1>4. ASSUME NEW i \in DOMAIN keychain', NEW j \in DOMAIN keychain',
             keychain'[i].id = keychain'[j].id, keychain'[i].op # "del", keychain'[j].op # "del"
      PROVE  i = j
  <2>1. i + 1 = j + 1
    BY <1>2, <1>4 DEF AccountInv, CallsInv
  <2>2. i \in Nat /\ j \in Nat
    BY <1>4, TailCalls DEF AccountInv
  <2> QED BY <2>1, <2>2
<1> QED BY <1>3, <1>4 DEF CallsInv

\* A call is made for a flow that waited for none.
LEMMA CallsAppend ==
  ASSUME AccountInv, NEW c \in Calls, keychain' = Append(keychain, c),
         \A k \in Ids : k # c.id => flow'[k] = flow[k],
         c.op = "del" => flow' = flow,
         c.op # "del" => flow[c.id].pc \notin {"migrate", "keep", "persist", "get"},
         Belongs(c)', removed \subseteq removed', phase' # "off"
  PROVE  CallsInv'
<1>1. \A j \in DOMAIN keychain : keychain[j].id \in Ids /\ keychain[j].op \in {"get", "set", "del"}
  BY QueuedCalls DEF AccountInv
<1>2. /\ \A j \in DOMAIN keychain : keychain'[j] = keychain[j]
      /\ keychain'[Len(keychain) + 1] = c
      /\ \A j \in DOMAIN keychain' : j \in DOMAIN keychain \/ j = Len(keychain) + 1
  BY AppendCall DEF AccountInv, TypeInv
<1>3. ASSUME NEW j \in DOMAIN keychain PROVE Belongs(keychain[j])'
  BY <1>1, <1>3 DEF AccountInv, CallsInv, Belongs
<1>4. ASSUME NEW j \in DOMAIN keychain, c.op # "del", keychain[j].id = c.id
      PROVE  keychain[j].op = "del"
  BY <1>1, <1>4 DEF AccountInv, CallsInv, Belongs
<1>5. \A j \in DOMAIN keychain' : Belongs(keychain[j])'
  BY <1>2, <1>3
<1>6. ASSUME NEW i \in DOMAIN keychain', NEW j \in DOMAIN keychain',
             keychain'[i].id = keychain'[j].id, keychain'[i].op # "del", keychain'[j].op # "del"
      PROVE  i = j
  BY <1>2, <1>4, <1>6 DEF AccountInv, CallsInv
<1> QED BY <1>5, <1>6 DEF CallsInv

\* A step that concerns one account leaves the other ones as they were.
LEMMA OneAccount ==
  ASSUME AccountInv, TypeInv', SocketInv', CallsInv', LegacyInv', NEW id \in Ids,
         made.ids <= made'.ids, id <= made'.ids,
         Kept(id)', id \in removed' \ spoiled' => Gone(id)',
         \A k \in Ids : k # id =>
           /\ flow'[k] = flow[k] /\ sock'[k] = sock[k]
           /\ k \in vault' <=> k \in vault
           /\ k \in secrets' <=> k \in secrets
           /\ k \in removed' <=> k \in removed
           /\ k \in spoiled' <=> k \in spoiled
           /\ k \in servers' => k \in servers
           /\ k \in conns' => k \in conns
           /\ (\E j \in DOMAIN keychain : keychain[j] = [op |-> "del", id |-> k]) =>
                (\E j \in DOMAIN keychain' : keychain'[j] = [op |-> "del", id |-> k])
  PROVE  AccountInv'
<1>1. made.ids \in Nat /\ made'.ids \in Nat /\ \A k \in Ids : k \in Nat
  BY DEF AccountInv, TypeInv, Ids
<1>2. ASSUME NEW k \in Ids, k # id
      PROVE  /\ k > made'.ids => Fresh(k)'
             /\ Kept(k)'
             /\ k \in removed' \ spoiled' => Gone(k)'
  <2>1. k > made'.ids => k > made.ids
    BY <1>1
  <2>2. k > made'.ids => Fresh(k)'
    BY <1>2, <2>1 DEF AccountInv, Fresh
  <2>3. Kept(k)'
    BY <1>2 DEF AccountInv, Kept, At
  <2>4. k \in removed' \ spoiled' => Gone(k)'
    BY <1>2 DEF AccountInv, Gone
  <2> QED BY <2>2, <2>3, <2>4
<1>3. ~(id > made'.ids)
  BY <1>1
<1> QED BY <1>2, <1>3 DEF AccountInv

\* A deletion that waits in the queue goes on waiting.
Deleting(id) == \E j \in DOMAIN keychain : keychain[j] = [op |-> "del", id |-> id]

LEMMA DeletingTail ==
  ASSUME TypeInv, keychain # <<>>, keychain' = Tail(keychain),
         NEW k \in Ids, k # Head(keychain).id, Deleting(k)
  PROVE  Deleting(k)'
<1>1. PICK j \in DOMAIN keychain : keychain[j] = [op |-> "del", id |-> k]
  BY DEF Deleting
<1>2. j # 1
  BY <1>1, TailCalls
<1>3. j - 1 \in DOMAIN keychain' /\ keychain'[j - 1] = keychain[j]
  BY <1>2, TailCalls
<1> QED BY <1>1, <1>3 DEF Deleting

LEMMA DeletingAppend ==
  ASSUME TypeInv, NEW c \in Calls, keychain' = Append(keychain, c),
         NEW k \in Ids, Deleting(k)
  PROVE  Deleting(k)'
  BY AppendCall DEF Deleting, TypeInv

LEMMA AttachedAccount ==
  ASSUME AccountInv, SocketInv', NEW id \in Ids, Attach(id)
  PROVE  AccountInv'
<1> DEFINE c == [op |-> "set", id |-> id]
           f == [pc |-> "keep", attach |-> TRUE, n |-> 0]
<1>1. /\ flow[id].pc = "register" /\ flow' = [flow EXCEPT ![id] = f]
      /\ servers' = servers \union {id} /\ conns' = conns \union {id}
      /\ keychain' = Append(keychain, c)
      /\ UNCHANGED <<legacy, vault, secrets, phase, sock, made, removed, spoiled>>
  BY DEF Attach, At, Call, IndexedEarly, history
<1>2. c \in Calls /\ c.op = "set" /\ c.id = id /\ f \in Flows /\ f.pc = "keep" /\ f.attach
  BY DEF Calls, Flows, PCs
<1> HIDE DEF c, f
<1>3. id <= made.ids /\ id \notin removed \ spoiled /\ phase # "off"
  BY <1>1, BusyAccount
<1>4. flow' \in [Ids -> Flows] /\ flow'[id] = f /\ \A k \in Ids : k # id => flow'[k] = flow[k]
  BY <1>1, <1>2 DEF AccountInv, TypeInv
<1>5. TypeInv'
  BY <1>1, <1>2, <1>4, AppendCall DEF AccountInv, TypeInv
<1>6. Belongs(c)'
  BY <1>2, <1>4 DEF Belongs
<1>7. CallsInv'
  BY <1>1, <1>2, <1>3, <1>4, <1>6, CallsAppend
<1>8. Kept(id)' /\ LegacyInv'
  BY <1>1, <1>2, <1>4 DEF AccountInv, Kept, LegacyInv, At
<1>9. \A k \in Ids : Deleting(k) => Deleting(k)'
  BY <1>1, <1>2, DeletingAppend DEF AccountInv
<1>10. made.ids \in Nat
  BY DEF AccountInv, TypeInv
<1> QED BY <1>1, <1>3, <1>4, <1>5, <1>7, <1>8, <1>9, <1>10, OneAccount DEF Deleting

\* One flow moves.
LEMMA FlowMoves ==
  ASSUME TypeInv, NEW id \in Ids, NEW f \in Flows, flow' = [flow EXCEPT ![id] = f]
  PROVE  /\ flow' \in [Ids -> Flows] /\ flow'[id] = f
         /\ \A k \in Ids : k # id => flow'[k] = flow[k]
  BY DEF TypeInv

LEMMA FlowGoes ==
  ASSUME TypeInv, NEW id \in Ids, NEW pc \in PCs, Goes(id, pc)
  PROVE  /\ flow' \in [Ids -> Flows] /\ flow'[id].pc = pc /\ flow'[id].attach = flow[id].attach
         /\ \A k \in Ids : k # id => flow'[k] = flow[k]
<1> DEFINE f == [flow[id] EXCEPT !.pc = pc]
<1>1. f \in Flows /\ f.pc = pc /\ f.attach = flow[id].attach
  BY DEF Flows, TypeInv
<1>2. flow' = [flow EXCEPT ![id] = f]
  BY DEF Goes
<1> QED BY <1>1, <1>2, FlowMoves

LEMMA IdleFlow == Idle \in Flows /\ Idle.pc = "idle"
  BY DEF Idle, Flows, PCs

\* connectAccount and relogin: steps that call no keychain.
LEMMA QuietStep ==
  ASSUME AccountInv, SocketInv', NEW id \in Ids, Challenge(id) \/ Fails(id) \/ Online(id)
  PROVE  AccountInv'
<1>1. /\ flow[id].pc \in {"register", "challenge", "login", "spaces"}
      /\ UNCHANGED <<legacy, vault, secrets, keychain, servers, conns, removed, spoiled>>
      /\ \A k \in Ids : k # id => flow'[k] = flow[k] /\ sock'[k] = sock[k]
  BY DEF Challenge, Fails, Online, Ended, At, device, history, AccountInv, TypeInv, SocketInv
<1>2. flow' \in [Ids -> Flows] /\ made' \in [ids : Nat, nonces : Nat] /\ made'.ids = made.ids
  <2>1. CASE Challenge(id)
    <3> DEFINE n == made.nonces + 1
               f == [flow[id] EXCEPT !.pc = "login", !.n = n]
    <3>1. n \in Nat /\ f \in Flows
      <4>1. n \in Nat /\ flow[id] \in Flows
        BY DEF AccountInv, TypeInv
      <4> HIDE DEF n
      <4> QED BY <4>1 DEF Flows, PCs
    <3>2. flow' = [flow EXCEPT ![id] = f] /\ made' = [made EXCEPT !.nonces = n]
      BY <2>1 DEF Challenge
    <3> QED BY <3>1, <3>2, FlowMoves DEF AccountInv, TypeInv
  <2>2. CASE Fails(id) \/ Online(id)
    BY <2>2, FlowMoves, IdleFlow DEF Fails, Online, Ended, AccountInv, TypeInv
  <2> QED BY <2>1, <2>2
<1>3. id <= made.ids /\ id \notin removed \ spoiled /\ phase # "off"
  BY <1>1, BusyAccount
<1>4. phase' # "off" /\ phase' \in {"off", "loading", "rejected", "onboarding", "main"}
  BY <1>3 DEF Challenge, Fails, Online, Ended, Loaded, AccountInv, TypeInv
<1>5. TypeInv' /\ LegacyInv'
  BY <1>1, <1>2, <1>4 DEF AccountInv, TypeInv, LegacyInv
<1>6. CallsInv'
  BY <1>1, <1>4, CallsStay
<1>7. \/ flow[id].pc \in {"challenge", "login", "spaces"} /\ flow'[id].pc \in {"idle", "login"}
      \/ flow[id].pc = "register" /\ flow'[id].pc = "idle"
  <2>1. CASE Challenge(id)
    BY <2>1 DEF Challenge, At, AccountInv, TypeInv, Flows
  <2>2. CASE Fails(id) \/ Online(id)
    BY <1>1, <2>2, FlowMoves, IdleFlow DEF Fails, Online, Ended, AccountInv
  <2> QED BY <2>1, <2>2
<1>8. Kept(id)'
  BY <1>1, <1>7 DEF AccountInv, Kept, At
<1>9. made.ids \in Nat
  BY DEF AccountInv, TypeInv
<1> QED BY <1>1, <1>2, <1>3, <1>5, <1>6, <1>8, <1>9, OneAccount

\* A login is granted, and the secret is written again, or it is refused.
LEMMA LoggedInStep ==
  ASSUME AccountInv, SocketInv', NEW id \in Ids, LoggedIn(id)
  PROVE  AccountInv'
<1> DEFINE c == [op |-> "set", id |-> id]
<1>1. /\ flow[id].pc = "login"
      /\ UNCHANGED <<legacy, vault, secrets, servers, conns, sock, made, removed, spoiled>>
      /\ \/ flow' = [flow EXCEPT ![id].pc = "persist"] /\ keychain' = Append(keychain, c) /\ phase' = phase
         \/ flow' = [flow EXCEPT ![id] = Idle] /\ phase' = Loaded(flow') /\ keychain' = keychain
  BY DEF LoggedIn, Goes, Ended, Call, At, history
<1>2. c \in Calls /\ c.op = "set" /\ c.id = id
  BY DEF Calls
<1> HIDE DEF c
<1>3. id <= made.ids /\ id \notin removed \ spoiled /\ phase # "off"
  BY <1>1, BusyAccount
<1>4. flow' \in [Ids -> Flows] /\ (\A k \in Ids : k # id => flow'[k] = flow[k]) /\ flow'[id].pc \in {"persist", "idle"}
  <2>1. CASE flow' = [flow EXCEPT ![id].pc = "persist"]
    BY <2>1, FlowGoes DEF Goes, PCs, AccountInv
  <2>2. CASE flow' = [flow EXCEPT ![id] = Idle]
    BY <2>2, FlowMoves, IdleFlow DEF AccountInv
  <2> QED BY <1>1, <2>1, <2>2
<1>5. phase' # "off" /\ phase' \in {"off", "loading", "rejected", "onboarding", "main"}
  BY <1>1, <1>3 DEF Loaded, AccountInv, TypeInv
<1>6. keychain' \in Seq(Calls)
  BY <1>1, <1>2, AppendCall DEF AccountInv, TypeInv
<1>7. TypeInv' /\ LegacyInv'
  BY <1>1, <1>4, <1>5, <1>6 DEF AccountInv, TypeInv, LegacyInv
<1>8. CallsInv'
  <2>1. CASE keychain' = keychain
    BY <1>1, <1>4, <1>5, <2>1, CallsStay
  <2>2. CASE flow' = [flow EXCEPT ![id].pc = "persist"] /\ keychain' = Append(keychain, c)
    <3>1. flow'[id].pc = "persist"
      BY <2>2 DEF AccountInv, TypeInv, Flows
    <3>2. Belongs(c)'
      BY <1>2, <3>1 DEF Belongs
    <3> QED BY <1>1, <1>2, <1>4, <1>5, <2>2, <3>2, CallsAppend
  <2> QED BY <1>1, <2>1, <2>2
<1>9. Kept(id)'
  BY <1>1, <1>4 DEF AccountInv, Kept, At
<1>10. \A k \in Ids : Deleting(k) => Deleting(k)'
  BY <1>1, <1>2, DeletingAppend DEF AccountInv, Deleting
<1>11. made.ids \in Nat
  BY DEF AccountInv, TypeInv
<1> QED BY <1>1, <1>3, <1>4, <1>7, <1>8, <1>9, <1>10, <1>11, OneAccount DEF Deleting

\* removeServer: what is left of the account is the deletion of its secret.
LEMMA RemovedAccount ==
  ASSUME AccountInv, SocketInv', NEW id \in Ids, RemoveServer(id)
  PROVE  AccountInv'
<1> DEFINE c == [op |-> "del", id |-> id]
<1>1. /\ phase = "main" /\ id \in servers /\ sock' = [sock EXCEPT ![id] = Closed(@)]
      /\ conns' = conns \ {id} /\ servers' = servers \ {id} /\ vault' = vault \ {id}
      /\ keychain' = Append(keychain, c) /\ removed' = removed \union {id}
      /\ spoiled' = IF flow[id].pc = "idle" THEN spoiled ELSE spoiled \union {id}
      /\ UNCHANGED <<legacy, secrets, phase, flow, made>>
  BY DEF RemoveServer, At, Call
<1>2. c \in Calls /\ c.op = "del" /\ c.id = id
  BY DEF Calls
<1>3. made.ids \in Nat /\ id <= made.ids
  BY <1>1 DEF AccountInv, TypeInv, Fresh, Ids
<1>4. Belongs(c)'
  BY <1>1, <1>2 DEF Belongs
<1>5. /\ sock'[id].ws = "none" /\ ~sock'[id].timer
      /\ \A k \in Ids : k # id => sock'[k] = sock[k]
  <2>1. Closed(sock[id]).ws = "none" /\ ~Closed(sock[id]).timer
    BY SoundClosed DEF AccountInv, SocketInv
  <2> QED BY <1>1, <2>1 DEF AccountInv, SocketInv
<1>6. Deleting(id)' /\ keychain' \in Seq(Calls)
  BY <1>1, <1>2, AppendCall DEF AccountInv, TypeInv, Deleting
<1> HIDE DEF c
<1>7. TypeInv' /\ LegacyInv'
  BY <1>1, <1>6 DEF AccountInv, TypeInv, LegacyInv
<1>8. CallsInv'
  BY <1>1, <1>2, <1>4, CallsAppend
<1>9. Kept(id)' /\ (id \in removed' \ spoiled' => Gone(id)')
  BY <1>1, <1>5, <1>6 DEF AccountInv, Kept, Gone, At, Deleting
<1>10. \A k \in Ids : Deleting(k) => Deleting(k)'
  BY <1>1, <1>2, DeletingAppend DEF AccountInv
<1> QED BY <1>1, <1>3, <1>5, <1>7, <1>8, <1>9, <1>10, OneAccount DEF Deleting

\* The keychain has kept a secret: now the vault may list its account.
LEMMA SavedStep ==
  ASSUME AccountInv, SocketInv', keychain # <<>>, NEW id \in Ids,
         Head(keychain) = [op |-> "set", id |-> id], Saved(id),
         UNCHANGED <<sock, made, removed, spoiled>>
  PROVE  AccountInv'
<1>1. keychain[1] = [op |-> "set", id |-> id] /\ 1 \in DOMAIN keychain
  BY TailCalls DEF AccountInv
<1>2. flow[id].pc \in {"migrate", "keep", "persist"}
  BY <1>1 DEF AccountInv, CallsInv, Belongs
<1>3. id <= made.ids /\ id \notin removed \ spoiled /\ phase # "off"
  BY <1>2, BusyAccount
<1>4. /\ secrets' = secrets \union {id} /\ vault' = Indexed(id) /\ phase' = phase /\ conns' = conns
      /\ vault \subseteq vault' /\ vault' \subseteq vault \union {id}
      /\ flow[id].pc = "migrate" \/ flow[id].attach => id \in vault'
  BY DEF Saved, Indexed, At
<1>5. made.ids \in Nat /\ id \in Nat /\ Tail(keychain) \in Seq(Calls)
  BY TailCalls DEF AccountInv, TypeInv, Ids
<1>6. CASE flow[id].pc = "migrate"
  <2> DEFINE c == [op |-> "get", id |-> id]
             q == Tail(keychain)
  <2>1. /\ legacy' = "moved" /\ flow' = [flow EXCEPT ![id].pc = "get"] /\ servers' = {id}
        /\ keychain' = Append(q, c) /\ c \in Calls /\ q \in Seq(Calls)
    BY <1>5, <1>6 DEF Saved, At, Calls
  <2>2. /\ flow' \in [Ids -> Flows] /\ flow'[id].pc = "get" /\ flow'[id].attach = flow[id].attach
        /\ \A k \in Ids : k # id => flow'[k] = flow[k]
    BY <2>1, FlowGoes DEF Goes, PCs, AccountInv
  <2> HIDE DEF q
  <2>3. /\ keychain' \in Seq(Calls) /\ keychain'[Len(q) + 1] = c
        /\ \A j \in DOMAIN q : j \in DOMAIN keychain' /\ keychain'[j] = q[j]
        /\ \A j \in DOMAIN keychain' : j \in DOMAIN q \/ j = Len(q) + 1
    BY <2>1, AppendCall
  <2>4. TypeInv'
    BY <1>4, <2>1, <2>2, <2>3 DEF AccountInv, TypeInv
  <2>5. /\ \A j \in DOMAIN q : j + 1 \in DOMAIN keychain /\ j + 1 # 1 /\ q[j] = keychain[j + 1]
        /\ \A j \in DOMAIN keychain : j # 1 => j - 1 \in DOMAIN q /\ q[j - 1] = keychain[j]
        /\ \A j \in DOMAIN q : j \in Nat
    BY <2>1, TailCalls DEF AccountInv, q
  <2>6. \A j \in DOMAIN keychain : keychain[j].id \in Ids /\ keychain[j].op \in {"get", "set", "del"}
    BY QueuedCalls DEF AccountInv
  <2>7. \A j \in DOMAIN q : q[j].id = id => q[j].op = "del"
    BY <1>1, <2>5, <2>6 DEF AccountInv, CallsInv
  <2>8. ASSUME NEW j \in DOMAIN keychain' PROVE Belongs(keychain[j])'
    <3>1. CASE j \in DOMAIN q
      BY <2>2, <2>3, <2>5, <2>6, <2>7, <3>1 DEF AccountInv, CallsInv, Belongs
    <3>2. CASE j = Len(q) + 1
      BY <2>2, <2>3, <3>2 DEF Belongs
    <3> QED BY <2>3, <2>8, <3>1, <3>2
  <2>9. ASSUME NEW i \in DOMAIN keychain', NEW j \in DOMAIN keychain',
               keychain'[i].id = keychain'[j].id, keychain'[i].op # "del", keychain'[j].op # "del"
        PROVE  i = j
    <3>1. CASE i \in DOMAIN q /\ j \in DOMAIN q
      <4>1. i + 1 = j + 1
        BY <2>3, <2>5, <2>9, <3>1 DEF AccountInv, CallsInv
      <4> QED BY <2>5, <3>1, <4>1
    <3>2. CASE i = Len(q) + 1 \/ j = Len(q) + 1
      BY <2>3, <2>7, <2>9, <3>2
    <3> QED BY <2>3, <2>9, <3>1, <3>2
  <2>10. CallsInv'
    BY <1>3, <1>4, <2>8, <2>9 DEF CallsInv
  <2>11. Kept(id)' /\ LegacyInv'
    BY <1>4, <1>6, <2>1, <2>2 DEF AccountInv, Kept, LegacyInv, At
  <2>12. \A k \in Ids : k # id /\ Deleting(k) => Deleting(k)'
    <3> SUFFICES ASSUME NEW k \in Ids, k # id, Deleting(k) PROVE Deleting(k)'
      OBVIOUS
    <3>1. PICK j \in DOMAIN keychain : keychain[j] = [op |-> "del", id |-> k]
      BY DEF Deleting
    <3>2. j # 1
      BY <1>1, <3>1
    <3> QED BY <2>3, <2>5, <3>1, <3>2 DEF Deleting
  <2>13. servers' = {id}
    BY <2>1
  <2> QED BY <1>3, <1>4, <1>5, <2>2, <2>4, <2>10, <2>11, <2>12, <2>13, OneAccount DEF Deleting
<1>7. CASE flow[id].pc \in {"keep", "persist"}
  <2>1. /\ Goes(id, IF flow[id].pc = "keep" THEN "challenge" ELSE "spaces")
        /\ keychain' = Tail(keychain) /\ UNCHANGED <<legacy, servers>>
    BY <1>7 DEF Saved, At
  <2>2. /\ flow' \in [Ids -> Flows] /\ flow'[id].pc \in {"challenge", "spaces"}
        /\ flow'[id].attach = flow[id].attach
        /\ \A k \in Ids : k # id => flow'[k] = flow[k]
    BY <2>1, FlowGoes DEF PCs, AccountInv
  <2>3. TypeInv'
    BY <1>4, <1>5, <2>1, <2>2 DEF AccountInv, TypeInv
  <2>4. CallsInv'
    BY <1>3, <1>4, <2>1, <2>2, CallsTail
  <2>5. Kept(id)' /\ LegacyInv'
    BY <1>4, <1>7, <2>1, <2>2 DEF AccountInv, Kept, LegacyInv, At
  <2>6. \A k \in Ids : k # id /\ Deleting(k) => Deleting(k)'
    BY <2>1, DeletingTail DEF AccountInv
  <2> QED BY <1>3, <1>4, <1>5, <2>1, <2>2, <2>3, <2>4, <2>5, <2>6, OneAccount DEF Deleting
<1> QED BY <1>2, <1>6, <1>7

\* The keychain has answered a query, or refused one of its calls.
LEMMA AnsweredStep ==
  ASSUME AccountInv, SocketInv', keychain # <<>>, NEW id \in Ids, Head(keychain).id = id,
         keychain' = Tail(keychain), UNCHANGED <<legacy, vault, secrets, servers, sock, made, removed>>,
         Head(keychain).op = "del" => flow' = flow, phase' # "off", TypeInv',
         \A k \in Ids : k # id => flow'[k] = flow[k] /\ (k \in conns' <=> k \in conns)
                                                   /\ (k \in spoiled' <=> k \in spoiled),
         id <= made.ids, Kept(id)', id \in removed' \ spoiled' => Gone(id)'
  PROVE  AccountInv'
<1>1. CallsInv'
  BY CallsTail
<1>2. LegacyInv'
  BY DEF AccountInv, LegacyInv
<1>3. \A k \in Ids : k # id /\ Deleting(k) => Deleting(k)'
  BY DeletingTail DEF AccountInv
<1>4. made.ids \in Nat
  BY DEF AccountInv, TypeInv
<1> QED BY <1>1, <1>2, <1>3, <1>4, OneAccount DEF Deleting

LEMMA KeychainStep ==
  ASSUME AccountInv, SocketInv', Keychain
  PROVE  AccountInv'
<1>1. keychain # <<>> /\ UNCHANGED <<sock, made, removed, spoiled>>
  BY DEF Keychain, history
<1>call. PICK c \in Calls : c = Head(keychain)
  BY <1>1, TailCalls DEF AccountInv
<1>2. c = keychain[1] /\ 1 \in DOMAIN keychain /\ Tail(keychain) \in Seq(Calls)
  BY <1>1, <1>call, TailCalls DEF AccountInv
<1>3. c.id \in Ids /\ Belongs(c)
  BY <1>2 DEF AccountInv, CallsInv, Calls
<1>4. phase # "off"
  BY <1>1 DEF AccountInv, CallsInv
<1>5. CASE c.op = "set" /\ Saved(c.id)
  <2>1. c = [op |-> "set", id |-> c.id]
    BY <1>5 DEF Calls
  <2> QED BY <1>1, <1>call, <1>3, <1>5, <2>1, SavedStep
<1>6. CASE c.op = "get" /\ Got(c.id)
  <2> DEFINE id == c.id
  <2>1. flow[id].pc = "get"
    BY <1>3, <1>6 DEF Belongs
  <2>2. id <= made.ids /\ id \notin removed \ spoiled
    BY <1>3, <2>1, BusyAccount
  <2>3. /\ Goes(id, IF id \in secrets THEN "challenge" ELSE "idle")
        /\ conns' = IF id \in secrets THEN conns \union {id} ELSE conns
        /\ phase' = Loaded(flow') /\ keychain' = Tail(keychain)
        /\ UNCHANGED <<legacy, vault, secrets, servers>>
    BY <1>6 DEF Got
  <2>4. /\ flow' \in [Ids -> Flows] /\ flow'[id].pc \in {"challenge", "idle"}
        /\ flow'[id].attach = flow[id].attach
        /\ \A k \in Ids : k # id => flow'[k] = flow[k]
    BY <1>3, <2>3, FlowGoes DEF PCs, AccountInv
  <2>5. phase' # "off" /\ phase' \in {"off", "loading", "rejected", "onboarding", "main"}
    BY <1>4, <2>3 DEF Loaded, AccountInv, TypeInv
  <2>6. TypeInv'
    BY <1>1, <1>2, <1>3, <2>3, <2>4, <2>5 DEF AccountInv, TypeInv
  <2>7. Kept(id)'
    BY <1>1, <1>3, <2>1, <2>3, <2>4 DEF AccountInv, Kept, At
  <2> HIDE DEF id
  <2>8. id \in Ids /\ id = c.id
    BY <1>3 DEF id
  <2> QED BY <1>1, <1>call, <1>6, <2>2, <2>3, <2>4, <2>5, <2>6, <2>7, <2>8, AnsweredStep
<1>7. CASE c.op = "del" /\ Wiped(c.id)
  <2> DEFINE id == c.id
  <2>1. id \in removed
    BY <1>3, <1>7 DEF Belongs
  <2>2. /\ secrets' = secrets \ {id} /\ keychain' = Tail(keychain)
        /\ phase' = IF servers = {} THEN "onboarding" ELSE phase
        /\ UNCHANGED <<legacy, vault, servers, flow, conns>>
    BY <1>7 DEF Wiped
  <2>3. id <= made.ids /\ made.ids \in Nat
    BY <1>3, <2>1 DEF AccountInv, TypeInv, Fresh, Ids
  <2>4. TypeInv' /\ LegacyInv'
    BY <1>1, <1>2, <2>2 DEF AccountInv, TypeInv, LegacyInv
  <2>5. Kept(id)'
    BY <1>1, <1>3, <2>1, <2>2 DEF AccountInv, Kept, Gone, At
  <2>6. id \in removed' \ spoiled' => Gone(id)'
    BY <1>1, <1>3, <2>2 DEF AccountInv, Gone
  <2>7. phase' # "off"
    BY <1>4, <2>2
  <2> HIDE DEF id
  <2>8. id \in Ids /\ id = c.id
    BY <1>3 DEF id
  <2>9. CallsInv'
    BY <1>1, <1>call, <1>7, <2>2, <2>7, <2>8, CallsTail
  <2>10. \A k \in Ids : k # id /\ Deleting(k) => Deleting(k)'
    BY <1>1, <1>call, <2>2, <2>8, DeletingTail DEF AccountInv
  <2> QED BY <1>1, <2>2, <2>3, <2>4, <2>5, <2>6, <2>8, <2>9, <2>10, OneAccount DEF Deleting
<1> QED BY <1>call, <1>5, <1>6, <1>7 DEF Keychain

LEMMA KeychainFailsStep ==
  ASSUME AccountInv, SocketInv', KeychainFails
  PROVE  AccountInv'
<1>queue. keychain # <<>>
  BY DEF KeychainFails
<1>call. PICK c \in Calls : c = Head(keychain)
  BY <1>queue, TailCalls DEF AccountInv
<1> DEFINE id == c.id
<1>1. /\ keychain # <<>> /\ keychain' = Tail(keychain)
      /\ flow' = IF c.op = "del" THEN flow ELSE [flow EXCEPT ![id] = Idle]
      /\ phase' = IF c.op = "get" \/ At(id, "migrate") THEN "rejected" ELSE Loaded(flow')
      /\ spoiled' = IF c.op = "get" THEN spoiled ELSE spoiled \union {id}
      /\ UNCHANGED <<legacy, vault, secrets, servers, conns, sock, made, removed>>
  BY <1>call DEF KeychainFails
<1>2. c = keychain[1] /\ 1 \in DOMAIN keychain /\ Tail(keychain) \in Seq(Calls)
  BY <1>call, <1>queue, TailCalls DEF AccountInv
<1>3. id \in Ids /\ c.op \in {"get", "set", "del"} /\ Belongs(c)
  BY <1>2 DEF AccountInv, CallsInv, Calls
<1>4. phase # "off"
  BY <1>1 DEF AccountInv, CallsInv
<1>5. phase' # "off" /\ phase' \in {"off", "loading", "rejected", "onboarding", "main"}
  BY <1>1, <1>4 DEF Loaded, AccountInv, TypeInv
<1>6. /\ flow' \in [Ids -> Flows]
      /\ \A k \in Ids : k # id => flow'[k] = flow[k]
      /\ c.op # "del" => flow'[id].pc = "idle"
  BY <1>1, <1>3, FlowMoves, IdleFlow DEF AccountInv, TypeInv
<1>7. TypeInv'
  BY <1>1, <1>2, <1>3, <1>5, <1>6 DEF AccountInv, TypeInv
<1>8. id <= made.ids
  <2>1. CASE c.op = "del"
    BY <1>3, <2>1 DEF Belongs, AccountInv, TypeInv, Fresh, Ids
  <2>2. CASE c.op # "del"
    BY <1>3, <2>2, BusyAccount DEF Belongs
  <2> QED BY <2>1, <2>2
<1>9. Kept(id)'
  BY <1>1, <1>3, <1>6 DEF AccountInv, Kept, At, Belongs
<1>10. id \notin removed' \ spoiled'
  <2>1. CASE c.op = "get"
    BY <1>1, <1>3, <2>1, BusyAccount DEF Belongs
  <2>2. CASE c.op # "get"
    BY <1>1, <2>2
  <2> QED BY <2>1, <2>2
<1>11. \A k \in Ids : k # id => (k \in spoiled' <=> k \in spoiled)
  BY <1>1
<1> HIDE DEF id
<1>12. id = c.id
  BY DEF id
<1> QED BY <1>call, <1>1, <1>3, <1>5, <1>6, <1>7, <1>8, <1>9, <1>10, <1>11, <1>12, AnsweredStep

\* The app ends: accounts that were being removed are spoiled.
LEMMA CrashStep ==
  ASSUME AccountInv, SocketInv', Crash
  PROVE  AccountInv'
<1>1. /\ phase' = "off" /\ servers' = {} /\ flow' = Each(Idle) /\ conns' = {} /\ sock' = Each(NoSocket)
      /\ keychain' = <<>>
      /\ spoiled' = spoiled \union {keychain[j].id : j \in {i \in DOMAIN keychain : keychain[i].op = "del"}}
      /\ UNCHANGED <<legacy, vault, secrets, made, removed>>
  BY DEF Crash
<1>2. \A id \in Ids : flow'[id] = Idle /\ sock'[id] = NoSocket
  BY <1>1 DEF Each
<1>3. \A j \in DOMAIN keychain : keychain[j].id \in Ids
  BY QueuedCalls DEF AccountInv
<1>4. TypeInv'
  BY <1>1, <1>3, IdleFlow DEF AccountInv, TypeInv, Each
<1>5. CallsInv' /\ LegacyInv'
  BY <1>1 DEF AccountInv, CallsInv, LegacyInv, Each, Idle
<1>6. ASSUME NEW id \in Ids, id \in spoiled' \ spoiled PROVE id \in removed
  BY <1>1, <1>6 DEF AccountInv, CallsInv, Belongs
<1>7. ASSUME NEW id \in Ids
      PROVE  /\ id > made'.ids => Fresh(id)'
             /\ Kept(id)'
             /\ id \in removed' \ spoiled' => Gone(id)'
  <2>1. id > made'.ids => Fresh(id)'
    BY <1>1, <1>2, <1>6, IdleFlow DEF AccountInv, Fresh, NoSocket
  <2>2. Kept(id)'
    BY <1>1, <1>2, IdleFlow DEF AccountInv, Kept, At
  <2>3. id \in removed' \ spoiled' => ~Deleting(id)
    BY <1>1 DEF Deleting
  <2>4. id \in removed' \ spoiled' => Gone(id)'
    BY <1>1, <1>2, <2>3, IdleFlow DEF AccountInv, Gone, NoSocket, Deleting
  <2> QED BY <2>1, <2>2, <2>4
<1> QED BY <1>4, <1>5, <1>7 DEF AccountInv

\* bootstrap: the legacy layout is migrated, or every account of the vault is
\* connected.
LEMMA BootStep ==
  ASSUME AccountInv, SocketInv', Boot
  PROVE  AccountInv'
<1>1. keychain = <<>> /\ flow = Each(Idle) /\ \A id \in Ids : flow[id] = Idle
  BY DEF Boot, AccountInv, CallsInv, Each
<1>2. UNCHANGED <<legacy, vault, secrets, conns, sock, removed, spoiled>>
  BY DEF Boot, history
<1>3. made.ids \in Nat
  BY DEF AccountInv, TypeInv
<1>4. CASE vault = {} /\ legacy = "there"
  <2>new. PICK id \in Ids : id = NewId
    BY <1>4 DEF Boot
  <2> DEFINE c == [op |-> "set", id |-> id]
  <2>1. /\ id \in Ids /\ id = made.ids + 1 /\ made' = [made EXCEPT !.ids = id] /\ phase' = "loading"
        /\ Goes(id, "migrate") /\ keychain' = Append(keychain, c) /\ servers' = servers
    BY <1>4, <2>new DEF Boot, Call, NewId, Goes
  <2>2. c \in Calls /\ c.op = "set" /\ c.id = id
    BY <2>1 DEF Calls
  <2> HIDE DEF c
  <2>3. Fresh(id) /\ made'.ids = id /\ made' \in [ids : Nat, nonces : Nat]
    BY <1>3, <2>1 DEF AccountInv, TypeInv
  <2>4. /\ flow' \in [Ids -> Flows] /\ flow'[id].pc = "migrate"
        /\ \A k \in Ids : k # id => flow'[k] = flow[k]
    BY <2>1, FlowGoes DEF PCs, AccountInv
  <2>5. TypeInv' /\ LegacyInv'
    BY <1>2, <2>1, <2>2, <2>3, <2>4, AppendCall DEF AccountInv, TypeInv, LegacyInv
  <2>6. Belongs(c)'
    BY <2>2, <2>4 DEF Belongs
  <2>7. CallsInv'
    BY <1>1, <1>2, <2>1, <2>2, <2>4, <2>6, CallsAppend, IdleFlow
  <2>8. Kept(id)' /\ id \notin removed' \ spoiled'
    BY <1>2, <2>1, <2>3, <2>4 DEF Kept, Fresh, At
  <2>9. \A k \in Ids : Deleting(k) => Deleting(k)'
    BY <1>1 DEF Deleting
  <2> QED BY <1>2, <1>3, <2>1, <2>3, <2>4, <2>5, <2>7, <2>8, <2>9, OneAccount DEF Deleting
<1>5. CASE ~(vault = {} /\ legacy = "there")
  <2>1. PICK order \in [1..Cardinality(vault) -> vault] :
          /\ \A i, j \in DOMAIN order : order[i] = order[j] => i = j
          /\ keychain' = [j \in DOMAIN order |-> [op |-> "get", id |-> order[j]]]
    BY <1>5 DEF Boot
  <2>2. /\ phase' = IF vault = {} THEN "onboarding" ELSE "loading"
        /\ flow' = [id \in Ids |-> IF id \in vault THEN [Idle EXCEPT !.pc = "get"] ELSE flow[id]]
        /\ servers' = vault /\ made' = made
    BY <1>5 DEF Boot, Connecting
  <2>3. \A id \in Ids : IF id \in vault THEN flow'[id] = [Idle EXCEPT !.pc = "get"] ELSE flow'[id] = Idle
    BY <1>1, <2>2
  <2>4. [Idle EXCEPT !.pc = "get"] \in Flows /\ [Idle EXCEPT !.pc = "get"].pc = "get"
    BY DEF Idle, Flows, PCs
  <2>5. vault \subseteq Ids
    BY DEF AccountInv, TypeInv
  <2>6. /\ keychain' \in Seq(Calls)
        /\ \A j \in DOMAIN keychain' : /\ keychain'[j] \in Calls /\ keychain'[j].op = "get"
                                         /\ keychain'[j].id \in vault
    <3>1. Cardinality(vault) \in Nat
      <4>1. IsFiniteSet(Ids)
        BY ConstantsAssumption, FS_Interval DEF Ids
      <4> QED BY <2>5, <4>1, FS_Subset, FS_CardinalityType
    <3>2. \A j \in DOMAIN order : [op |-> "get", id |-> order[j]] \in Calls
      BY <2>5 DEF Calls
    <3> DEFINE n == Cardinality(vault)
               q == [j \in 1..n |-> [op |-> "get", id |-> order[j]]]
    <3>3. keychain' = q /\ n \in Nat /\ \A j \in 1..n : [op |-> "get", id |-> order[j]] \in Calls
      BY <2>1, <3>1, <3>2
    <3> HIDE DEF n
    <3>4. q \in Seq(Calls)
      BY <3>3
    <3>5. ASSUME NEW j \in DOMAIN q
          PROVE  q[j] \in Calls /\ q[j].op = "get" /\ q[j].id \in vault
      BY <2>1, <3>3, <3>5
    <3> QED BY <3>3, <3>4, <3>5
  <2>7. TypeInv' /\ LegacyInv'
    BY <1>2, <2>2, <2>4, <2>5, <2>6, IdleFlow, <1>1 DEF AccountInv, TypeInv, LegacyInv
  <2>8. CallsInv'
    <3>1. \A j \in DOMAIN keychain' : Belongs(keychain[j])'
      BY <2>3, <2>4, <2>5, <2>6 DEF Belongs
    <3>2. \A i, j \in DOMAIN keychain' : keychain'[i].id = keychain'[j].id => i = j
      BY <2>1
    <3> QED BY <2>2, <3>1, <3>2 DEF CallsInv
  <2>9. ASSUME NEW id \in Ids
        PROVE  /\ id > made'.ids => Fresh(id)'
               /\ Kept(id)'
               /\ id \in removed' \ spoiled' => Gone(id)'
    <3>1. id > made'.ids => Fresh(id)'
      BY <1>2, <2>2, <2>3, IdleFlow DEF AccountInv, Fresh
    <3>2. Kept(id)'
      BY <1>2, <2>2, <2>3, <2>4, IdleFlow DEF AccountInv, Kept, At
    <3>3. id \in removed' \ spoiled' => Gone(id)'
      BY <1>1, <1>2, <2>2, <2>3, IdleFlow DEF AccountInv, Gone
    <3> QED BY <3>1, <3>2, <3>3
  <2> QED BY <2>7, <2>8, <2>9 DEF AccountInv
<1> QED BY <1>4, <1>5

\* Sockets do not come back to an account that is not connected.
LEMMA SocketsStay ==
  ASSUME AccountInv, SocketInv', NEW id \in Ids, Socket(id)
  PROVE  AccountInv'
<1>1. /\ UNCHANGED <<device, phase, servers, flow, conns, made, history>>
      /\ \A k \in Ids : k # id => sock'[k] = sock[k]
  BY DEF Socket, Opened, Drop, Retry, RetryNow, SocketDoes, app, AccountInv, SocketInv
<1>2. id \in conns \/ sock[id].ws # "none" \/ sock[id].timer
  BY DEF Socket, Opened, Drop, Retry, RetryNow
<1>3. made' \in [ids : Nat, nonces : Nat] /\ made'.ids = made.ids
  BY <1>1 DEF AccountInv, TypeInv
<1> QED BY <1>1, <1>2, <1>3, AccountsAlone

LEMMA AccountStep == AccountInv /\ [Next]_vars => AccountInv'
<1> SUFFICES ASSUME AccountInv, [Next]_vars PROVE AccountInv'
  OBVIOUS
<1>1. SocketInv'
  BY SocketStep DEF AccountInv
<1>2. CASE UNCHANGED vars
  BY <1>1, <1>2, AccountsAlone DEF vars, app, AccountInv, TypeInv
<1>3. CASE Boot
  BY <1>1, <1>3, BootStep
<1>4. CASE AddServer
  BY <1>1, <1>4, NewAccount
<1>5. CASE Keychain
  BY <1>1, <1>5, KeychainStep
<1>6. CASE KeychainFails
  BY <1>1, <1>6, KeychainFailsStep
<1>7. CASE Crash
  BY <1>1, <1>7, CrashStep
<1>8. ASSUME NEW id \in Ids, Account(id) PROVE AccountInv'
  BY <1>1, <1>8, AttachedAccount, QuietStep, LoggedInStep, RemovedAccount DEF Account
<1>9. ASSUME NEW id \in Ids, Socket(id) PROVE AccountInv'
  BY <1>1, <1>9, SocketsStay
<1>10. ASSUME NEW r \in logins, Login(r) PROVE AccountInv'
  <2>1. UNCHANGED <<device, app, sock, made, history>>
    BY <1>10 DEF Login, Take, Grant, Repeat
  <2> QED BY <1>1, <2>1, AccountsAlone DEF app, AccountInv, TypeInv
<1>11. ASSUME NEW n \in Nonces, Expire(n) PROVE AccountInv'
  BY <1>1, <1>11, AccountsAlone DEF Expire, app, AccountInv, TypeInv
<1> QED BY <1>2, <1>3, <1>4, <1>5, <1>6, <1>7, <1>8, <1>9, <1>10, <1>11 DEF Next

LEMMA AccountInit == Init => AccountInv
<1> SUFFICES ASSUME Init PROVE AccountInv
  OBVIOUS
<1>1. SocketInv
  BY SoundNew DEF Init, SocketInv, Each
<1>2. TypeInv /\ CallsInv /\ LegacyInv
  BY IdleFlow DEF Init, TypeInv, CallsInv, LegacyInv, Each
<1>3. ASSUME NEW id \in Ids PROVE Fresh(id) /\ Kept(id) /\ id \notin removed
  BY IdleFlow DEF Init, Fresh, Kept, At, Each, NoSocket
<1> QED BY <1>1, <1>2, <1>3 DEF AccountInv

\* Whenever the app ends, the vault lists accounts with their secrets, whatever
\* is added, removed and logged in at the time (credentials.ts, store.svelte.ts).
THEOREM KeysKeptHolds == Spec => []KeysKept
<1>1. AccountInv => KeysKept
  BY DEF AccountInv, KeysKept, Kept, LegacyInv, TypeInv
<1> QED BY <1>1, AccountInit, AccountStep, PTL DEF Spec

\* An account that was removed leaves no trace, and no timer or answer that comes
\* late brings it back (removeServer, EventSocket.close).
THEOREM ForgottenHolds == Spec => []Forgotten
<1>1. ASSUME AccountInv PROVE Forgotten
  <2>1. ASSUME NEW id \in removed \ spoiled, id \in secrets
        PROVE  [op |-> "del", id |-> id] \in {keychain[j] : j \in DOMAIN keychain}
    BY <1>1, <2>1 DEF AccountInv, TypeInv, Gone
  <2> QED BY <1>1, <2>1 DEF AccountInv, TypeInv, Forgotten, Gone
<1> QED BY <1>1, AccountInit, AccountStep, PTL DEF Spec

\* Type correctness, from both invariants.
THEOREM TypesKept == Spec => []TypeOK
<1>1. Init => LoginInv
  BY ConstantsAssumption DEF Init, LoginInv, Nonces
<1>2. ASSUME AccountInv, LoginInv PROVE TypeOK
  <2>1. ServerTyped
    BY <1>2, ConstantsAssumption DEF LoginInv, Logins, Nonces, ServerTyped
  <2>2. DeviceTyped
    BY <1>2, QueuedCalls DEF AccountInv, TypeInv, DeviceTyped
  <2>3. AppTyped
    BY <1>2 DEF AccountInv, TypeInv, AppTyped
  <2>4. SocketsTyped
    BY <1>2 DEF AccountInv, SocketInv, Sound, Socks, SocketsTyped
  <2> QED BY <2>1, <2>2, <2>3, <2>4 DEF TypeOK
<1> QED BY <1>1, <1>2, LoginStep, AccountInit, AccountStep, PTL DEF Spec

=============================================================================
