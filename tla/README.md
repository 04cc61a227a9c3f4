# A verification of malguem

malguem is a small self-hosted chat and voice application: a Rust server
(`server/`, axum and SQLite), a Svelte client in a Tauri shell (`client/`),
end-to-end encrypted channels, and peer-to-peer calls whose screen shares can
travel through a tree of viewers that relay them. This directory holds TLA+
models of its parts, TLC configurations that check them on small instances, and
TLAPS proofs of what holds for every instance.

Source paths below are relative to `src/`; `relay/` stands for
`client/src/lib/relay/`. Which definition models which lines is in
`PROJECT.json` under `map`.

## 1. Inventory

| Component | State it keeps | Operations | Talks to |
|---|---|---|---|
| Call hub, `server/src/ws.rs` | connections per user, participants per channel, LIVE sets, all under one mutex | register, unregister, call_join, call_leave, call_streaming, signal, presence and snapshots | database (membership), every client socket (unbounded queues) |
| Spaces and keys, `server/src/spaces.rs`, `db.rs` | spaces, members, invites, channels, wrapped keys, `current_epoch`, messages | create, invite, accept, remove, upload and fetch keys, post and fetch messages | hub (events to members) |
| Auth, `server/src/auth.rs` | users, challenges, tokens | register, challenge, login, lookup of a token | every handler |
| Stickers, `server/src/stickers.rs` | encrypted images of a space | create, list, fetch, delete | hub (events) |
| Store, `client/src/lib/store.svelte.ts` | one session per server: spaces, members, keys, messages, stickers, presence, the one call | flows that await REST answers, handlers of server events | REST, event socket, call manager |
| Event socket, `client/src/lib/ws.ts` | one WebSocket, back-off, status | connect, retry, close, send | hub |
| Call manager, `client/src/lib/call.ts` | peer connections, watchers, the broadcast | join, leave, roster, perfect negotiation, watch, start and stop sharing | event socket, relay hub |
| Relay hub, `relay/hub.ts` | broadcaster: viewers, plan, bans; viewer: parent, epoch, children | watch, unwatch, assign, orphan, reports, re-plan, keyframe requests | data channels of every peer |
| Planner, `relay/planner.ts` | none (a function) | `planTree` | relay hub |
| Data plane, `relay/forwarder.ts`, `receiver.ts`, `protocol.ts` | per child: frames skipped, ceiling; per stream: frames complete and delivered | decide, adapt, push, drain | two data channels per link |
| Measurements, `relay/load.ts`, `owd.ts` | windows of samples, hysteresis | sample, report | relay hub |
| Credentials, `client/src/lib/credentials.ts` | vault of accounts (localStorage), secrets (keychain) | load, save, migrate, get, set, delete | desktop shell |
| Audio, `client/src/lib/mic.ts`, `gate.ts`, `mixer.ts` | the captured microphone, gates, gains | open, apply, mute, close | media devices |
| Hotkeys, helpers, views, desktop shell | local | local | platform APIs |

What is hard, and what correctness means, by component:

- **Call hub.** Handlers run on several threads and take the hub's lock and the
  database's lock several times each. Correct: nobody is shown in a call without
  being connected, LIVE only in a call, ghosts disappear, and what clients were
  last told is true.
- **Space keys.** The server cannot read keys; members wrap them for each other,
  from answers that may be old, over sockets that close and clients that restart.
  Correct: a key never reaches somebody removed before it was made, wraps are
  never replaced, members end up with every key and write with the newest.
- **Lists, messages and stickers.** A list is replaced by an answer and changed by
  events that travel on another connection. Correct: once all has arrived, what is
  shown is what the server has; nothing twice; no object URL leaked or used after
  it is revoked; old messages become readable with the key.
- **Accounts.** An account lives in the vault, the keychain, the store, a socket
  and a token, written one after the other. Correct: a challenge is good for one
  login, no account without its key, a removed one leaves no trace, one WebSocket
  each, which comes back.
- **Calls.** Awaits stand between reading and using state: two joins, a stop during
  a start, offers that cross, signals lost while the socket is down. Correct: a
  captured microphone or screen is always one that a button can stop; the muted are
  silent; two participants hear each other; what is watched is sent.
- **Planner.** A greedy loop with capacities, bans, depth and stickiness.
  Correct: a tree, within slots, overflow and banned edges as last resorts only,
  no degradation while there is room, no flapping.
- **Relay hub.** Every node applies its place in the tree in its own time, over
  links whose two ends close at different times, for streams that end and begin
  again. Correct: all ends agree once messages have arrived; who watches is fed.
- **Relay evidence.** Capacities are guessed from reports that are late, lost or
  caused by somebody else. Correct: who cannot or will not carry is spared soon,
  estimates grow back, a bad path is left.
- **Data plane.** Frames depend on each other, layers are shed, channels fill up,
  the lossy one loses and reorders. Correct: dropped frames go with all that
  depends on them, a cut base layer is noticed, releasing frames early loses
  nothing that is needed, a keyframe always gets the decoder going again.

`PROJECT.json` lists the components with their status, and the hazards with the
line where each bites and the properties that watch it.

## 2. Modules

| Module | Models | Extended or used by |
|---|---|---|
| `CallRoster` | what the hub promises about calls, one step per operation | `CallHub` (INSTANCE, refinement) |
| `CallHub` | the hub, one step per locked section of a handler | `MCCallHub`, `CallProofs` |
| `SpaceKeys` | membership, wraps and epochs on the server with the client's flows | `MCSpaceKeys`, `SpaceKeysProofs` |
| `SpaceViews` | messages, channels, members and stickers on the server and as clients show them | `MCSpaceViews`, `SpaceViewsProofs` |
| `Session` | accounts of a device: login, vault, keychain, start of the app, WebSockets | itself, `SessionProofs` |
| `PeerLink` | two participants: roster, negotiation, who shares and who watches | `MCPeerLink`, `PeerLinkProofs` |
| `ClientCall` | one client: joins, the microphone, mute and deafen, the broadcast | `MCClientCall`, `CallProofs` |
| `RelayPlanner` | `planTree`, one step per turn of its loop, and the re-plan | `MCRelayPlanner`, `RelayProofs` |
| `RelayTree` | the control plane of relayed broadcasts | `MCRelayTree`, `RelayTreeProofs` |
| `RelayLoad` | reports and what the broadcaster believes of capacities, second by second | `MCRelayLoad`, `RelayLoadProofs` |
| `RelayStream` | the data plane over one link | `MCRelayStream`, `RelayProofs` |

The `MC` modules hold the instances. No module declares a RECURSIVE operator.
Every module states its type invariant (`TypeOK`, with a prefix where two modules
are proved about in one); it is proved for each of them and is not among the
properties of the runs. Definitions named after a definition with something added,
commented "Mutant of ...", are plausible bugs against which the properties are
tested; no specification uses them.

The modules meet at the events of the server. `CallHub` says which rosters are
sent; `PeerLink` takes a roster with every join and leave, in order, and goes on
from there. `ClientCall` is one client in any call, `PeerLink` two in one call.
`RelayTree` and `RelayLoad` choose any tree that has the properties proved of
`RelayPlanner`; `RelayStream` is one edge of it.

### CallHub and CallRoster

`conns`, `calls` and `live` are the three maps of `HubInner`. Each connection has
a task with a program counter; the values are the gaps between two locked
sections. A join is `RecvJoin` (membership looked up), `CallJoin` (the hub's
lock), `SendRoster`, `ReadMembers`, `ReadPresence`, `SendPresence`. Handlers do
not await, so a task inside one occupies a worker thread and at most `Workers`
are inside a handler. The queue to a client is a FIFO without limit, so what the
client finally believes is the last event sent: `lastRoster` and `lastPresence`.
`AcceptInvite` and `RemoveMember` change membership underneath. `CallRoster` is
the abstract specification; under the mapping, a user counts as online until its
`leave_all` has run. Four history variables name what may go wrong: of which
channels a roster or a presence was made while another handler still owed one
(`rosterCrossed`, `presenceCrossed`), what a new member was never told
(`untold`), and which connections never had another of their user beside them
(`alone`).

### SpaceKeys

The server's part is `members`, `wraps` (`space_keys`), `current`
(`current_epoch`) and `invited`; the client's is `holds` and `loaded` (the key
map), `cur` (the epoch it believes). A call of an async method of the store is a
record in `flows` whose `pc` names the await at which it stands, so answers
arrive in any order; events are flows at `pc = "event"` and vanish if the socket
closes. `upload_keys` is three sections: role, current epoch, and the loop of
inserts; `UploadPartial` is that loop aborting at a target that is no member,
with the rows before it kept. `KickDelete` deletes the wraps and the membership
under one lock, but each statement is committed on its own: `Crash` may stop the
server between the two, and inside the loop of inserts. Cryptography is
abstract: keys are numbers in the order they are made, a wrap is opened by its
addressee only. `since[k]` is a history variable: who was a member at some time
since key `k` was made.

### SpaceViews

Four kinds of things (`messages`, `channels`, `members`, `stickers`) have a table
on the server and a list on each client. A REST call is a record in `reqs` that
goes from "read" or "write" over "fan" (the fan-out after the lock) to "reply",
each a step; events to a client stand in `wire`. A read takes the table as it is
then and its answer replaces the list as it is when it arrives (`LoadReply`), as
`loadHistory` does. `ver`, `heard` and `behind` record who missed news: through a
closed socket, by not having the list yet, or by applying an answer older than
the news. `ViewsAgree` excludes those, and section 6 lists them.

### Session

`flow[id]` is `connectAccount` or `attachConn` of an account, at an await.
Keychain calls are answered in the order of the calls, network calls in any
order, and each may fail. `login` on the server is two sections, `Take` and
`Grant`; `Repeat` delivers a request twice. `Crash` ends the app between any two
steps; what is in localStorage and the keychain stays. `sock[id]` is the
`EventSocket`: its timer, whether `close()` was called, its WebSocket, and
`strays`, WebSockets superseded without being closed.

### PeerLink

Each of two sides has `joined`, `screen`, `watchers`, `watching`, what it knows of
the other, and at most one peer connection `pc`. The browser's operations chain is
`pc.chain`: `setLocalDescription` and `setRemoteDescription` are queued and
applied one after the other (`Apply`) while further messages arrive, which is
where perfect negotiation is decided (`Ignores`, `makingOffer`). Each offer has a
number, so that an answer can be compared with the offer it meets. Sockets close
and come back; signals meanwhile are dropped. So is, without a word, a signal from
somebody who is not in the member list yet, and whose signing key is therefore
unknown (`Dropped`); a side in `Strangers` begins without the other in its list
(`knows`) and gets it at any time (`Learn`). `unheeded` records that it happened.

### ClientCall

`flow[i]` is a `joinCall` or `startMicTest`, `mgr[i]` the `CallManager` of that
join, `mics[i]` its `MicInput` with the devices captured and the `apply` calls
under way. A start of a broadcast stands at the picker, the encoder or the sender
settings, and the queue of `applySenderSettings` is kept. `screens` are captures
whose tracks run. The server's roster and LIVE sets are those that concern us.

### RelayPlanner

`planTree` sorts the viewers, then attaches one at a time. The sort is the choice
of the first of `waiting` under `Before`; `Attach` is one turn: the usable
parents, those not banned, those with a slot left, the cheapest of them, or the
least loaded one with the child marked degraded. `Replan` calls it again with the
plan as `prev`. Delays are in half milliseconds because the code halves round
trips, so all numbers are exact.

### RelayTree

The broadcaster's `stream`, `known`, `plan`, `epoch` and `banned`, each viewer's
`heard`, `watching`, `parent` and `seen`, what it chose (`wants`), the `ChildSet`
of every node (`active`, `draining`), and the control messages on their way, each
with its stream number: those of an old stream are dropped (`RecvOld`). A channel
that opens late gets the announcement then (`Opens`). A re-plan picks any tree
that keeps off the banned edges, which covers whatever the planner chooses; only
the changes against the previous plan are sent, as in the code. Viewers leave
(`Leave`), connections between two viewers fail (`Cut`), and so do those to the
broadcaster, with both ends staying (`CutRoot`). `Dead` links are noticed by each
end in a step of its own (`DetachRoot`, `LoseRoot`, `DetachViewer`): a viewer
without its connection to the broadcaster (`apart`) deletes the stream. `twice`
records a viewer that loses its parent in the second in which it lost another.
`Forwarding` and `Fed` say from whom chunks reach a viewer at this moment.

### RelayLoad

`Second` is `everySecond` with the `tick` after it, `Report` is `onReport` of a
report that was sent this second. `cap` holds `CapState` and `view` holds
`ViewerState`, with times as seconds passed or left. The world turns bad and good
again: a machine is busy, an uplink has a queue that is slow or full, a path
loses layers, reports stop. A viewer on a bad path is moved, and so planned for
again; one that was moved before is believed weak and a plan is made with the next
second; one that has no other parent to try is believed weak without a plan
(`Verdict`). A broadcaster that gets busy plans again at once (`SignalOn`).

### RelayStream

`frames` is the stream as its headers describe it, with the references that
`LayerDeps` computes for any pattern of layers. `Send` is `ChildLink.decide` in
any state of the queue, below `Top`, the lower of the ceiling the child asks for
(any) and of `maxLayer`, which `adapt` moves (`Adapt`). `base` is the reliable
channel and `enh` the lossy one. A frame may find the channel open, not open, in
which case it is not decided on and nothing is remembered of it, or throwing, in
which case it is remembered as sent and lost (`Offer`). The two channels are sets,
since neither keeps an order (the base channel is created with `ordered: false`
unless streams are not split); what the lossy one loses simply stays. `SetBitrate`
configures the encoder anew. The receiver's `drain` is modelled turn by turn:
`scan` is the rest of the list it goes through, and `Discard`, `Deliver`, `GiveUp`
and `Wait` are the four ways a turn ends. `wanted` and `forced` are a keyframe on
request and on order.

## 3. Runs

| Run | Question | Instance |
|---|---|---|
| `CallHub_told` | is what clients were last told true? | 2 users with a connection each, 2 workers and 2 membership changes in one channel; or one handler at a time in 2 channels |
| `CallHub_threads` | does the hub implement the one-step roster, do ghosts go away, do joins last? | 2 connections of one user, 2 workers, 2 membership changes |
| `SpaceKeys_scenes` | do keys stay with members, and does everybody get them? | 3 users, five beginnings |
| `SpaceViews_scenes` | do lists agree with the server in the end? | 2 users, four beginnings |
| `SpaceViews_history` | (violation) can a newcomer read the history once it has the key? | 2 users |
| `Session_life` | are accounts kept, forgotten and reconnected as they should? | 2 accounts, one crash, failure and drop |
| `PeerLink_call` | do two participants hear and see each other in the end? | 5 actions, 1 closed socket, one side without the other in its member list at first |
| `ClientCall_life` | is every capture owned, mute obeyed and the share told of? | 3 joins or tests, 5 actions, 2 shares |
| `RelayPlanner_plan` | are plans trees within slots, with last resorts last, and stable? | 3 viewers, 93 312 inputs |
| `RelayTree_leave` | do all ends agree, and is everybody fed in the end? | 2 viewers, 3 clicks, 2 streams or 1 upset; or fewer clicks and a failing connection to the broadcaster |
| `RelayLoad_evidence` | is who cannot carry spared, do estimates grow back, are bad paths left? | 2 viewers, 2 upsets |
| `RelayStream_link` | delivery, dropping and keyframes | 4 frames on any layers, the channel open or not for each |

Scenes. Where bounds that are large together are out of reach, a run starts from
one of several initial states, in which part of the bounds is already spent: what
one scene does not look at does not happen in it. `CallHub_told`: handlers overlap
and membership changes, in one channel; one handler at a time and settled
membership, in all channels. `SpaceKeys_scenes`: two people join; one of three is
removed; a removal against a join; two removals and a failed request or crash; a
removal with a failure, a closed socket and a restart. The properties named
`...Calm` speak of behaviours without faults and with one rotation at most
(`Calm`), which all of the first three scenes are and the faulty ones until
something goes wrong; every scene starts where `Init` of `SpaceKeys` does, or with
fewer members, and with less left of the bounds, so the theorems about `Spec`,
which take any `FirstMembers`, are about all of them. `SpaceViews_scenes`:
somebody joins with a message and perhaps a removal; joins with a new channel and
a closed socket; two write and a socket closes; stickers are added, shown and
deleted. Its theorems too take any first members and any bounds, and so every
scene. `RelayTree_leave`: one stream with an upset; two streams without one, with
a channel that may open late; and with a connection to the broadcaster that fails,
one stream with an upset and two clicks, or two streams and one click. A restart
of the broadcast together with a departure is therefore left to the proof of
`EndsAgree`.

Bounds and why they suffice. One user with two connections is where the hub's
per-user state and per-connection tasks disagree; a second user only sees what is
sent, which `CallHub_told` checks with two. Keys need three users: one who
rotates, one removed, one who must be told. Two removals give two rotations, the
least at which an answer can be older than the newest epoch. One client of
`SpaceViews` writes while the other loads; a third would be another reader. Two
accounts suffice for one account's failure to meet another's success, and the
legacy migration. Five actions in `PeerLink` are two joins and any three of
leave, rejoin, share, stop and watch; in `ClientCall` they hold a join, a second
one, a share, its stop and a leave. Three viewers are the fewest among which one
can be relayed in two hops, overflow a parent and be moved. In the control plane
and in `RelayLoad` two viewers already relay to each other in both directions.
The times of `RelayLoad` are scaled down keeping their order: what is compared in
the code is compared in the same way, and each timer can run out before or after
the others it meets. Four frames hold a keyframe, a broken chain, its repair and
frames of every layer that depend on both. The constants whose comment says
"bound" (`MaxKicks`, `MaxJoins`, `MaxToggles`, `MaxUpsets`, `MaxActs`, ...) limit
what people and the network do; nothing limits what the program does in return.

Deadlock is not checked (`CHECK_DEADLOCK FALSE`) in `SpaceKeys_scenes`,
`SpaceViews_*`, `Session_life`, `PeerLink_call`, `ClientCall_life`,
`RelayTree_leave` and `RelayStream_link`: people and the network have used up
their bounds, all answers have arrived, and nothing is left to do. `Settles`,
`EveryoneFed`, `Reconnects` and `KeyframeGetsThrough` say that the system does not
stop before. In `CallHub`, `RelayPlanner` and `RelayLoad` there is always a step.

`SpaceKeys_scenes` uses symmetry among the members other than the owner; no
definition of `SpaceKeys` names one of them, and the run checks no liveness.

Some properties carry the condition under which they are true, as a history
variable that names what may have gone wrong: `rosterCrossed`, `presenceCrossed`,
`untold` and `alone` in `CallHub`, `lostOffer`, `rushed` and `unheeded` in
`PeerLink`, `odd` in `ClientCall`, `behind` in `SpaceViews`, `spoiled` in
`Session`, `twice` in `RelayTree`, `JoinMetRotation` in `SpaceKeys`. Each
condition stands for one entry of section 6; without it the property is false in
the code.

### Fairness

- `CallHub`: weak fairness of each task's handler. A thread inside a handler
  goes through it; it waits only for two mutexes that are held briefly. Nothing
  is assumed of clients: they may never send, leave or close.
- `Session`: weak fairness of the retry timer, which fires, and of a WebSocket
  that is connecting, which opens unless it fails. Failures are bounded.
- `PeerLink`: weak fairness of each side's own work: messages on a TCP connection
  arrive, operations of the peer connection end, a needed negotiation is begun.
- `RelayTree`: weak fairness of what happens by itself at each viewer: reliable
  channels deliver, intervals and timers fire, closings are noticed. People and
  evidence from reports owe nothing.
- `RelayLoad`: weak fairness of the clock: seconds pass, and a report that is not
  lost arrives before the next one. What turns bad or good owes nothing.
- `RelayStream`: weak fairness of the reliable channel, which delivers every frame
  it took in some order, and of a pass of `drain`, which is a loop without await.
  The lossy channel, timers and requests for keyframes owe nothing.

## 4. Proofs

All for every value of the constants that satisfies the named assumptions
(`ConstantsAssumption` and the like: sets of users and nodes with the owner or
root in place, bounds that are natural numbers, the order of the timers; nothing
about sizes except that the viewers of a broadcast are finitely many). All are
about the specification, without hypotheses of their own. Each module's main
invariant is inductive, and the properties of the runs are parts or consequences
of it.

### The server

`CallProofs`
- `HubTypeCorrect`, and `HubCorrect`, the inductive invariant: the registry equals the
  set of connections whose task is between register and unregister, a user on a
  roster has a connection or a task about to run `leave_all`, and LIVE is part of
  the roster. The middle part is not inductive without the first: a join is only
  known to come from a registered user because its task stands between register
  and unregister. From it `NoGhostHolds` and `LiveInCallHolds`.
- `RosterImplemented` maps every section to a step of `CallRoster` or a stutter.
- `RosterFreshHolds`, `PresenceFreshHolds`, for any number of workers, connections
  of a user and changes of membership. They speak of the moments at which no
  handler runs; in between, what a client was told differs from what is true exactly
  where a running handler still owes it a roster (`RosterOwes`) or a presence
  (`PresenceOwes`), and what that handler has read is still so unless the channel's
  events crossed. Which channels those are is part of the state: `rosterCrossed`
  and `presenceCrossed` hold a channel from the moment at which one is made while
  another handler still has one to send. What a new member was never told stays in
  `untold` until its connection is opened anew or the channel's presence is sent
  again.
- `JoinedIsOnRosterHolds`, for any number of workers and connections, about each
  connection that had no other of its user beside it (`alone`), whatever the other
  users do: only the join of its own handler can be outstanding. With two
  connections the leave of one undoes the join of the other.

`SpaceKeysProofs`
- `TypeCorrect` needs that epochs never run ahead of the keys made.
  `WrapsForMembersHold` follows from the membership check inside the locked
  section of the inserts. `FirstWrapWinsHolds` is an action property: a stored
  wrap is never replaced, and it disappears only in a removal of its user under
  way, with all others of that user and then with the membership, unless the
  server stops between the two deletions.
- `KeysStayHolds` rests on `KeysInv`: the property alone is not inductive, since
  keys also travel in answers and whoever is a member now must have been one
  since any key made so far.
- `OneKeyHolds`, whatever fails: up to the first rotation the key of an epoch is
  that epoch's, in every table, client and flow (`EpochInv`). A removal numbers
  its key after the client's own epoch; the client knows one as long as the removal
  goes on (`FlowsInv`), so before the first rotation it is the first.
- `MembersKeptUpHolds` and `RotatedAfterRemovalHolds`, without faults and up to the
  first rotation. The invariant `CalmInv` says by which flow each key still comes:
  `FirstInv`, before the rotation, that a member without the first key is about to
  be announced, wrapped for, or loading it; `QuietInv`, with no invite out, that
  the removal's list of members is still right when it is used; `SecondInv`, after
  the rotation, that the upload is either still to write or wrote the second key
  for every member, each of whom holds it or loads it. `PeaceInv` has what all
  three share: sockets open, one removal at a time, what each flow has read.

### The client

`SessionProofs`
- `ChallengeOnceHolds` from `LoginInv`: a nonce is a row, or with one login between
  its two sections, or granted, or gone.
- `OneConnectionHolds` from `SocketInv`: a socket waits for its timer only while it
  has no WebSocket, so what the timer opens supersedes none.
- `KeysKeptHolds` and `ForgottenHolds` from `AccountInv`: every call of the keychain
  belongs to a flow that waits for it or deletes a removed account, one each; an
  account in use is in the vault with its secret (`Kept`); of a removed one only
  the deletion of its secret is left (`Gone`), since nothing goes on for it. The
  calls are part of the invariant because they are answered after the step that
  made them.

`CallProofs`: `ClientInvHolds`, one invariant for the whole client, and from it
`ScreenOwnedHolds`, `MutedIsSilentHolds`, `MicsOwnedHolds` and `ShareIsToldHolds`.
A captured screen is the screen of one manager in its call, which needs that a
start has exactly one run in the queue of `applySenderSettings` while it waits
(`MgrOK`). That the muted are silent, and that microphones are owned, needs that
without two crossing joins there is one call and its microphone is the store's
(`CallInv`). `ShareInv` goes through the stages of a start: while the encoder
starts, peers are not told yet, and it is the only stage at which they differ.

`SpaceViewsProofs`
- Every step is one of a few kinds (`Step`), in which the handlers are told apart
  only by what they do to requests, events, tables and lists; each part of the
  invariant is then shown for the kinds.
- `ViewsTypeCorrect` is not a matter of sets alone: that a list shows and a
  client remembers as unreadable only messages that have a sender needs that no
  answer, event or request is about another (`Real`).
- `ListsShowOnce` and `ObjectUrlsOwned`: an event and an answer may tell of the same
  item in either order, two fetches of the same sticker may overlap, and a sticker
  may be deleted while it is fetched.
- `ViewsSettle` rests on `Invariant`. `Numbered`: what is still to be written is
  nobody else's. `Honest`: an event that is still due about the newest change of an
  item says what the table says, and an answer that is newer than an event agrees
  with it. `Following`, of who missed no news: what a list lacks or has too much is
  in an event still to come, or in an answer that will replace the list
  (`Followed`). The list of members is followed apart (`Warning`), since whoever
  is removed stops hearing: that it has missed news was marked by the removal, or
  the removal is still to do so. `OwnersStickers` and `Newcomers` are what the
  others need to know of who has no list.

`PeerLinkProofs`: `TypesKept`; then
- `PeersMatchRosterHolds`: the last roster on its way to a side is the server's, and
  if none is, a side has a connection iff the roster names the other (`RosterInv`).
- `AnswerMatchesHolds` and `VoiceConnectsHolds`, while both are of the same
  connections and no signal of theirs was dropped for want of the sender's key
  (`SameConnections`; `rushed` and `unheeded` are section 6's). The invariant has
  three layers. `Hearing`: no roster under way can make a side drop the other.
  `Matching`: the operations chain of a connection has one of a few shapes, one
  offer at most is outstanding in a direction, and an answer is on the wire only
  while its offer waits. `Dialogue`, while both have connections: an offer that is
  under way or applied is the one that its maker waits with, unless the polite
  side gave way; what a description names is what is sent; and whoever waits will
  get an answer, or has one (`HiWaits`, `LoWaits`). The last is what excludes that
  both wait for each other, and it needs the rest: an ignored offer of the polite
  side must have met one of the impolite side, which rolls it back.
- `WatchedIsSentHolds` adds `ShareInv`, in two parts. `Tracked`, of each side by
  itself: the screen is among the tracks exactly while it is shared and the other
  watches, and only what is shared is watched. `Sharing`, while both are in the
  call: the last state on the way to a side says whether the other shares, the last
  request says whether it watches, and where none is under way the side knows
  already. A request may be out of date in one case only, when its sender has still
  to read that the share has ended; that is what lets `startScreenShare` forget its
  viewers. At rest nothing is under way, and `CallInv` says that the tracks are then
  the ones negotiated, except at a polite side whose offer was lost (`Settled`).

### The relay

`RelayProofs`, of the planner
- `PlanCorrect`, the inductive invariant `PlanInv` (turns order the nodes, `used`
  counts the children), and from it that plans are trees within the depth, slots
  are exceeded for degraded children only, and degradation and banned edges are
  last resorts.
- `RoomForAllHolds`: who is attached comes before who waits, and the places filled
  are as many as the viewers attached (`RoomInv`). Suppose nobody has a
  place left for the next viewer. If that viewer has no slots, nobody who waits
  has, so all slots are filled, by fewer than all viewers; if it has, all nodes
  attached have slots too and at least one child each, which is a child too many.
- `StableHolds`: a complete plan is described without the loop, by what each viewer
  chose among the nodes before it (`Made`); the second run repeats it turn by turn
  (`Repeats`), because staying gets cheaper by `StickyMs` and nothing else changes,
  also among the full parents.

`RelayLoadProofs`: `SparedFeedNobodyHolds`, for any viewers and timers: nobody is
believed to carry more than it declared, so a busy viewer nothing; a plan gives no
child to who is believed to carry nothing or is missed at that moment, and who has
been missed for more than a second has met such a plan (`LoadInv`).
`LoadTypeCorrect`: estimates and timers stay in their ranges. Quiet periods double
with every further cut; the five that there are stand in a table (`Doubled`),
because no backend knows powers of two.

`RelayTreeProofs`: `EndsAgree`, for any viewers, broadcasts, re-plans, departures
and failures, those of connections to the broadcaster among them. Both ends of a
link tell each other only what changes, so agreement at rest is not inductive. The
invariant (`TreeInv`) says that what one end believes, followed by what is on its
way to it, ends at what the other believes: of the stream there is (`Hearsay`), of
who watches (`Toggled`, whose messages alternate), and of a viewer's place
(`Dated`, epochs rise along the channel; `Synced`, the last place on its way is
the plan's, and if none is, the viewer has it but for dead links). The rest,
`Numbered`, `Choosing`, `Planned` and `Linked`, is about each end by itself. All
of it speaks of viewers with a connection to the broadcaster; one without it has
deleted the stream as soon as it noticed, and hears of none (`Parted`). A viewer's
old stream may still be spoken of while the new one runs, and everything but
`Hearsay` is therefore about messages of the present stream only. Types are part
of it (`TreeTypeCorrect`).

`RelayProofs`, of the stream: `StreamCorrect`, for streams of any length, in
whatever order frames arrive. The heart of it is `Leans`: between a frame and its
reference there are only frames of its own layer or above, so no keyframe lies
between them. With it the sender's memory of skipped frames, which a keyframe
clears, is enough for what the link decided against (`ForwardedWholeHolds`;
`missed` is what it ever skipped), and the decoder always has every frame that is
still needed at the newest one it was given (`ChainOK`), which gives
`NothingNeededSkippedHolds`, the claim in the head comment of `receiver.ts`.
`AskedWhenCutHolds` is proved with them.

### Only model-checked

Every invariant of the passing runs is a theorem, and so is every module's type
invariant. Left to TLC are the liveness properties (`GhostsGoAway`, `EveryoneFed`,
`GrowsBack`, `BadPathLeft`, `Settles`, `Reconnects`, `KeyframeGetsThrough`): what
fairness brings about is beyond the prover.

Two mistakes of the models came to light in proofs, not in runs.
`ViewsAgree` was false for more users and invites: who is offline when its removal
begins, is inserted once more by an accept that was pending, and is then deleted by
that removal hears of nothing; `behind` is therefore marked at the deletion.
`RelayStream` had an ordered base channel, which the code does not ask for; the
proof of `StreamInv` does not need the order, and nor does any property.

## 5. Findings

`SpaceViews_history`: `docs/CRYPTO.md:149` says "new members read full history".
`acceptInvite` selects the first channel, and so loads its history, before any
member can have wrapped the key for the newcomer
(`client/src/lib/store.svelte.ts:631`). Each message is stored as "[no key for
this message]", `keys_updated` loads the keys and nothing else, and
`selectChannel` never loads a history that it has. The history stays unreadable
until the app is restarted.

## 6. Known limits of the program that the models show

No text of the repository says otherwise of these, or it says it of the ordinary
case only; they are why some properties carry a condition or are checked on the
instances they are.

Call hub:
- With two workers, rosters and presences may be sent in another order than they
  were read, and the last one a client hears may be the older (`rosterCrossed`,
  `presenceCrossed`).
- `unregister` and `leave_all` are two sections (`ws.rs:244`): what a new
  connection of the same user joins in between is undone, and its client not told
  (`alone`).
- Somebody who becomes a member while connected gets no presence of running calls
  until the next change (`untold`).
- Rosters are per user: with two connections, a user stays on the roster for a
  connection that is gone.

Space keys:
- `keys_updated` is lost while a socket is closed, and reopening loads no keys.
- A `key_request` reaches whoever is online; if nobody is, or the server stops
  between the membership and the request, the newcomer waits until the next one.
- `remove_member` deletes the wraps and then the membership without a transaction
  (`spaces.rs:215`): a server that stops in between leaves a member without wraps,
  who cannot load its keys after a restart and has wraps again only from the next
  rotation on.
- Removal and rotation are two requests; the second may never come. Two rotations
  after a lost answer can leave two members with different keys for one epoch: the
  first wrap stays for each.
- A join that races with a removal can leave the newcomer with the old epoch only
  (`JoinMetRotation`).
- `loadSpaceKeys` (`store.svelte.ts:608`) assigns the epoch of whichever answer
  arrives last; an answer read before a rotation sets it back, and messages are
  then written with a key a removed member holds. It takes two removals.
- A space whose `createSpace` fails after the space exists stays locked: only a
  client with the first key could upload it (`store.svelte.ts:539`).

Lists, messages, stickers:
- Messages posted while a socket is closed are loaded only with the app's next
  start, as `loadHistory` runs once per channel; the gap between `refreshSpaces`
  and `connectSocket` at login loses events in the same way.
- `remove_member` reads whom to tell and deletes in separate sections, and answers
  in an order of their own; an accept that completes before the removal's deletion
  is undone by it.
- A `message_new` for a channel whose history is not loaded is ignored, and an
  answer read before it replaces the list later: the message is shown by neither.
- A sticker fetched before its removal is cached after it; a `sticker_removed`
  that overtakes `sticker_added` leaves the sticker listed.
- After a removal and a new membership the lists from before are kept.

Accounts:
- `removeServer` while the account is being attached (`spoiled`): the flow goes
  on and puts it back.
- An account whose login failed at the start has no socket, so "Retry now" does
  nothing for it; an attach that fails leaves "connecting" and the account saved.
- "online" is set before the WebSocket is open.
- A crash between the registration and the first write of the secret loses the
  identity and a user slot of the server; one between the vault and the keychain
  of a removal leaves the secret behind.
- `getSecret` is awaited outside the try (`store.svelte.ts:305`): a keychain that
  refuses leaves the app at "connecting...".

Calls:
- A socket that closes during the first negotiation loses the offer; the impolite
  side then keeps its own pending and ignores every later one.
- A signal is dropped when its sender is not in the member list yet
  (`call.ts:744`, `749`), and never repeated: a description leaves the offer pending
  and the microphones not negotiated, a watch request or a state is not followed
  (`unheeded`).
- After a reconnect, `watching` and `watchers` may differ: watch requests are not
  repeated.
- A rejoin before the leave is noticed mixes descriptions of two connections
  (`rushed`); an offer that an impolite side ignores while it applies an answer is
  lost (`lostOffer`).
- Two joins at once leave a manager that nobody can leave and whose microphone
  stays open ("twoJoins"); a microphone test that opens while a join awaits its
  own is never closed ("testWhileJoining"); a microphone closed while `apply` waits
  captures the new device ("closedWhileApplying").
- A share that is stopped, or whose call ends, while its encoder starts or its
  settings are applied is announced as running all the same
  ("startOutlivesShare"); so is one that is stopped while it is encoded anew for
  other settings (`call.ts:486`), whose encoder then runs for no share. A re-encode
  that fails leaves the share shown without a working encoder.

Relay:
- A viewer that loses two parents within one second can be left without one: the
  second report is suppressed by the limit and only a viewer with a parent sends
  further ones (`twice`).
- When the connection of a viewer and the broadcaster fails while both stay in the
  call, the viewer deletes the stream (`relay/hub.ts:455`), the broadcaster forgets
  the viewer, and the data channels are made once per peer and never again
  (`relay/hub.ts:421`): it hears of no stream until one of them rejoins (`apart`).
- A frame that meets a channel not open yet, or a `send` that throws, is neither
  sent nor remembered as skipped (`relay/forwarder.ts:96`, `112`): frames that
  depend on it are sent all the same, and wait at the receiver for a keyframe.
- A degraded viewer with no other parent to try is believed weak without a new plan
  (`relay/hub.ts:878`): it keeps its children until the next one.
- Chunks may be forwarded through a draining child for a while after a switch. A
  re-plan that puts a relay under its own former descendants interrupts its old
  children (`relay/hub.ts:776`).
- `setWatching(false)` when a peer says that it stopped streaming counts as a
  choice, also for its next broadcast if the signal is late (`OptOut`).
- A queue between the two thresholds on a parent's uplink blocks the judgement of
  its children, though it is never cut (`relay/hub.ts:868`): `BadPath` speaks of
  clear uplinks.
- An alternative parent needs an estimate of the bitrate, a slot a quarter more:
  a move may leave a viewer where it is, and it is then a leaf for being weak
  "under two parents".
- `setUploadCapacity` forgets what the broadcaster was cut to.
- A viewer whose decoder fails asks nobody for a keyframe: `call.ts:562` passes
  `() => {}` as `onNeedKeyframe`. The picture stands until somebody else asks.
- `decode` skips delta frames while more than three are queued (`relay/codec.ts:284`),
  though later ones that it does decode depend on them.
- `sentCap` is set before the message is sent (`relay/hub.ts:366`), so a layer cap
  that meets a channel not yet open is not sent again.

## 7. Not modelled, and limits of the models

- `CallHub`: pings, and `call_peer_joined` (it repeats the roster).
- `SpaceKeys`: one space, rotation by the owner only (as the server demands),
  message contents. Cryptographic primitives are taken to work.
- `SpaceViews`: one space; the lists of a second one do not depend on it. Pages of
  a history beyond the first are never asked for by the client. A key is there or
  not: epochs are `SpaceKeys`.
- `Session`: the length of the back-off (any delay), the lookup of tokens, the
  transfer of an identity by its text (`importServer` has its user).
- `PeerLink`: two participants, since every pair negotiates by itself; ICE
  candidates and restarts, bitrates, statistics.
- `ClientCall`: what leaves the machine; the gate, the mixer and sounds; hotkeys,
  which call the operations that are modelled.
- `RelayPlanner`: `planStar`, the baseline of the experiments.
- `RelayTree` and `RelayLoad` split the hub: the first has any re-plan at any time,
  the second settled membership. Layer caps (`rxcap`, hidden windows, degraded
  viewers) are in neither; `RelayStream` takes any ceiling instead.
- `RelayLoad`: windows, percentiles and the clock filter of `load.ts` and `owd.ts`
  (any outcome instead).
- `RelayStream`: chunks and their reassembly, audio and the rule that missing
  video with audio flowing asks for a keyframe, the hysteresis of `adapt` (one
  layer up or down at any time instead), the decoder after the receiver, the caps
  of the remembered sets (256 and 512 frames), a chain of links.
- TURN credentials (one stateless HMAC), server plumbing, the choice of a codec,
  capture and decoder, preferences, cryptographic primitives, links, emoji and
  images, views, platform code, simulation and deployment: no protocol state.

## 8. Plan

What would come next:

1. `RelayStream` over two links, with the relay's own receiver between them, and the
   decoder behind the last.
2. The handshake of the layer caps (`rxcap`) between a child and its parent.
3. The audio path: the mixer, the noise gate and the hotkeys that open it.
