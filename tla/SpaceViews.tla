----------------------------- MODULE SpaceViews -----------------------------
(***************************************************************************)
(* What clients show of a space against what the server has: the handlers of *)
(* server/src/spaces.rs and stickers.rs for messages, channels, members and  *)
(* stickers, and the flows of client/src/lib/store.svelte.ts that load, hear *)
(* and show them.                                                            *)
(*                                                                           *)
(* A client loads a list by a request whose answer replaces what it shows,   *)
(* and hears of changes by events.  Answers and events travel on different   *)
(* connections, so a client may get them in any order.  Each locked section  *)
(* of a handler is a step; a request of somebody who is no member changes    *)
(* nothing and is left out, unless membership is lost meanwhile.             *)
(*                                                                           *)
(* Items are numbers: users among the members, the order of creation for the *)
(* rest, with 0 for the channel every space has.  Channels are loaded with   *)
(* the spaces, so "channels" \in loaded[u] says that the client lists the    *)
(* space.                                                                    *)
(***************************************************************************)
EXTENDS Naturals, Sequences, SequencesExt, FiniteSets

CONSTANTS Users,        \* 1 is the owner
          Stickers,     \* bound: stickers that may be made, 1..n
          Bounds        \* bound: changes asked for of each kind, "loads" that
                        \*   users ask for, WebSocket "drops"

Owner == 1
Kinds == {"messages", "channels", "members", "stickers"}

ASSUME ConstantsAssumption ==
  /\ Users \subseteq Nat /\ Owner \in Users /\ Stickers \subseteq Nat
  /\ Bounds \in [Kinds \union {"loads", "drops"} -> Nat]

VARIABLES table,        \* server: kind -> items
          from,         \* senders of the messages, by item
          reqs,         \* REST calls under way
          wire,         \* events sent to a client and not yet handled
          online,       \* users whose WebSocket is open
          view, loaded, \* client: kind -> list shown; the kinds it has a list of
          holds,        \* users who have the key of the space
          blind,        \* messages shown as "[no key for this message]"
          urls,         \* stickerUrls: stickers with a cached object URL
          objects,      \* object URLs made and not revoked, per sticker
          made, left,   \* items made so far; what is left of the bounds
          ver, heard,   \* history: changes of a table; the newest sent to a client
          behind        \* history: <<user, kind>> that missed news or applied
                        \*   an answer that was older than the news
client == <<view, loaded, holds, blind, urls, objects>>
history == <<ver, heard, behind>>
vars == <<table, from, reqs, wire, online, client, made, left, history>>

Each(f) == [u \in Users |-> f]

\* The items of a finite set of numbers in order; a list without an item.
Sorted(is) == [n \in 1..Cardinality(is) |-> CHOOSE i \in is : Cardinality({j \in is : j <= i}) = n]
Without(q, i) == LET kept == Sorted({n \in DOMAIN q : q[n] # i})
                 IN [n \in DOMAIN kept |-> q[kept[n]]]

Lists(members, channels, rest) ==
  [messages |-> rest, channels |-> channels, members |-> members, stickers |-> rest]

\* The first members know each other and the key; nothing is chosen yet.
StartWith(first, bounds) ==
  /\ table = Lists(first, {0}, {}) /\ from = <<>>
  /\ reqs = {} /\ wire = Each(<<>>) /\ online = Users
  /\ view = [u \in Users |-> IF u \in first THEN Lists(Sorted(first), <<0>>, <<>>)
                                            ELSE Lists(<<>>, <<>>, <<>>)]
  /\ loaded = [u \in Users |-> IF u \in first THEN {"channels", "members"} ELSE {}]
  /\ holds = first /\ blind = Each({})
  /\ urls = Each({}) /\ objects = Each([s \in Stickers |-> 0])
  /\ made = [k \in Kinds |-> 0] /\ left = bounds
  /\ ver = [k \in Kinds |-> 0] /\ heard = Each(ver) /\ behind = {}

Init == \E first \in SUBSET Users :
          Owner \in first /\ IsFiniteSet(first) /\ StartWith(first, Bounds)

Members == table["members"]
Listed(u) == "channels" \in loaded[u]
Shows(u, k, i) == i \in ToSet(view[u][k])
Pending(u, op, k, i) == \E r \in reqs : r.u = u /\ r.op = op /\ r.kind = k /\ r.item = i

-----------------------------------------------------------------------------
(* Requests.                                                                 *)

\* op: "load" (of a kind), "add" or "del" (of an item), "fetch" (a sticker).
\* pc: the section of the handler that is next; equal requests that are under
\* way together differ in n.
Request(u, op, k, i, pc) ==
  [u |-> u, op |-> op, kind |-> k, item |-> i, pc |-> pc, ans |-> {}, ver |-> 0, n |-> 0]
Load(u, k) == Request(u, "load", k, 0, "read")

With(rs, q) ==
  LET same == {r \in rs : [r EXCEPT !.n = 0, !.pc = q.pc, !.ans = {}, !.ver = 0] = q}
  IN rs \union {[q EXCEPT !.n = CHOOSE n \in 0..Cardinality(same) : \A r \in same : r.n # n]}

Spend(b) == left[b] > 0 /\ left' = [left EXCEPT ![b] = @ - 1]

Ask(q) ==
  /\ Spend(IF q.op \in {"add", "del"} THEN q.kind ELSE "loads")
  /\ reqs' = With(reqs, q)
  /\ UNCHANGED <<table, wire, online, client, history>>

Make(u, k) ==
  /\ u \in Members /\ Listed(u)
  /\ made' = [made EXCEPT ![k] = @ + 1]
  /\ Ask(Request(u, "add", k, made[k] + 1, "write"))

SendMessage(u) == u \in holds /\ Make(u, "messages") /\ from' = Append(from, u)
CreateChannel == Make(Owner, "channels") /\ UNCHANGED from
AddSticker == made["stickers"] + 1 \in Stickers /\ Make(Owner, "stickers") /\ UNCHANGED from

\* acceptInvite: by somebody who does not list the space.
AcceptInvite(u) ==
  /\ ~Listed(u) /\ ~Pending(u, "add", "members", u)
  /\ Ask(Request(u, "add", "members", u, "write")) /\ UNCHANGED <<made, from>>

\* removeMember and deleteSticker: the event of a removed member goes out first.
RemoveMember(i) ==
  /\ Shows(Owner, "members", i) /\ i # Owner
  /\ Ask(Request(Owner, "del", "members", i, "fan")) /\ UNCHANGED <<made, from>>

DeleteSticker(s) ==
  /\ Shows(Owner, "stickers", s)
  /\ Ask(Request(Owner, "del", "stickers", s, "write")) /\ UNCHANGED <<made, from>>

\* selectChannel loads a history once; the picker loads the stickers each time.
Open(u, k) ==
  /\ u \in Members /\ Listed(u) /\ (k = "stickers" \/ (k = "messages" /\ k \notin loaded[u]))
  /\ Ask(Load(u, k)) /\ UNCHANGED <<made, from>>

\* Mutant of Cached: concurrent renders fetch one by one.
CachedOnly(u, s) == s \in urls[u]

\* stickerUrl: the sticker is fetched unless it is cached or being fetched.
Cached(u, s) == s \in urls[u] \/ Pending(u, "fetch", "stickers", s)

\* A sticker is rendered in the picker or in a message that names it.
Show(u, s) ==
  /\ u \in Members /\ Listed(u) /\ s <= made["stickers"] /\ ~Cached(u, s)
  /\ Ask(Request(u, "fetch", "stickers", s, "read")) /\ UNCHANGED <<made, from>>

-----------------------------------------------------------------------------
(* The server.                                                               *)

Became(r, q) == reqs' = (reqs \ {r}) \union {q}
Removal(r) == r.op = "del" /\ r.kind = "members"

\* Mutant of Written: the event of a new item goes out before the item is there.
WrittenLate(r) == IF r.op = "del" THEN "fan" ELSE "reply"

\* What a handler does after its INSERT or DELETE.
Written(r) == IF Removal(r) THEN "reply" ELSE "fan"

\* The table becomes now, and the event is due.
Wrote(r, now) ==
  /\ table' = [table EXCEPT ![r.kind] = now]
  /\ ver' = [ver EXCEPT ![r.kind] = @ + 1]
  /\ Became(r, [r EXCEPT !.pc = Written(r), !.ver = ver[r.kind] + 1])

Insert(r, k) == r.op = "add" /\ r.kind = k /\ Wrote(r, table[k] \union {r.item})

\* Nothing to delete is an error.
Delete(r, k) ==
  /\ r.op = "del" /\ r.kind = k
  /\ IF r.item \in table[k] THEN Wrote(r, table[k] \ {r.item})
     ELSE reqs' = reqs \ {r} /\ UNCHANGED <<table, ver>>

\* One for each handler that writes.
PostMessage(r) == Insert(r, "messages")
InsertChannel(r) == Insert(r, "channels")
InsertSticker(r) == Insert(r, "stickers")
DeleteMember(r) == Delete(r, "members")
DeleteStickerRow(r) == Delete(r, "stickers")

\* Somebody who is a member already is answered without an event.
InsertMember(r) ==
  IF r.op = "add" /\ r.kind = "members" /\ r.item \in Members
    THEN Became(r, [r EXCEPT !.pc = "reply"]) /\ UNCHANGED <<table, ver>>
    ELSE Insert(r, "members")

\* To be removed leaves lists behind.
Write(r) ==
  /\ r.pc = "write"
  /\ \/ PostMessage(r) \/ InsertChannel(r) \/ InsertMember(r) \/ InsertSticker(r)
     \/ DeleteMember(r) \/ DeleteStickerRow(r)
  /\ behind' = IF Removal(r) THEN behind \union ({r.item} \X Kinds) ELSE behind
  /\ UNCHANGED <<from, wire, online, client, made, left, heard>>

Later(u, k, v) == [heard EXCEPT ![u][k] = IF v > @ THEN v ELSE @]

\* fanout: to every member, of whom those without a WebSocket miss it.
Fan(r) ==
  /\ r.pc = "fan"
  /\ LET v == IF Removal(r) THEN ver["members"] ELSE r.ver
         e == [kind |-> r.kind, op |-> r.op, item |-> r.item, ver |-> v]
     IN /\ wire' = [u \in Users |-> IF u \in Members \intersect online THEN Append(wire[u], e) ELSE wire[u]]
        /\ behind' = behind \union {<<u, r.kind>> : u \in Members \ online}
  /\ Became(r, [r EXCEPT !.pc = IF Removal(r) THEN "write" ELSE "reply"])
  /\ UNCHANGED <<table, from, online, client, made, left, ver, heard>>

\* A list read after the event of a removal and before the removal is behind.
BeforeRemoval(r) ==
  r.kind = "members" /\ \E q \in reqs : Removal(q) /\ q.pc = "write"

Answers(r, is) == Became(r, [r EXCEPT !.pc = "reply", !.ver = ver[r.kind], !.ans = is])

\* The list of spaces is anybody's to ask; a member finds this one in it.
ListSpaces(r) == r.kind = "channels" /\ Answers(r, IF r.u \in Members THEN table["channels"] ELSE {})

\* The rest is refused to those who are not members any more.
Refused(r) == r.kind # "channels" /\ r.u \notin Members /\ reqs' = reqs \ {r}
ToMember(r, op, k) == r.op = op /\ r.kind = k /\ r.u \in Members

ListMembers(r) == ToMember(r, "load", "members") /\ Answers(r, Members)
FetchMessages(r) == ToMember(r, "load", "messages") /\ Answers(r, table["messages"])
ListStickers(r) == ToMember(r, "load", "stickers") /\ Answers(r, table["stickers"])
FetchSticker(r) == ToMember(r, "fetch", "stickers") /\ Answers(r, table["stickers"] \intersect {r.item})

Read(r) ==
  /\ r.pc = "read"
  /\ \/ ListSpaces(r) \/ ListMembers(r) \/ FetchMessages(r) \/ ListStickers(r) \/ FetchSticker(r)
     \/ Refused(r)
  /\ behind' = IF BeforeRemoval(r) THEN behind \union {<<r.u, r.kind>>} ELSE behind
  /\ UNCHANGED <<table, from, wire, online, client, made, left, ver, heard>>

-----------------------------------------------------------------------------
(* The client.                                                               *)

Shown(u, k, is) == view' = [view EXCEPT ![u][k] = is]

\* decryptWire: a message needs the key and the sender among the members.
Unread(u, ms) ==
  IF u \in holds /\ Listed(u) THEN {m \in ms : ~Shows(u, "members", from[m])} ELSE ms

\* revokeSticker.
Revoked(u, s) ==
  /\ urls' = [urls EXCEPT ![u] = @ \ {s}]
  /\ objects' = IF s \in urls[u] THEN [objects EXCEPT ![u][s] = @ - 1] ELSE objects

\* The answer of loadHistory, loadStickers, refreshMembers or refreshSpaces,
\* which goes on to load the members of the spaces it got.
LoadReply(r) ==
  LET u == r.u
      out == r.kind = "channels" /\ r.ans = {}
  IN /\ r.op = "load"
     /\ Shown(u, r.kind, Sorted(r.ans))
     /\ loaded' = [loaded EXCEPT ![u] = IF out THEN @ \ {r.kind} ELSE @ \union {r.kind}]
     /\ blind' = IF r.kind = "messages" THEN [blind EXCEPT ![u] = Unread(u, r.ans)] ELSE blind
     /\ reqs' = IF r.kind = "channels" /\ ~out THEN With(reqs \ {r}, Load(u, "members"))
                ELSE reqs \ {r}
     /\ UNCHANGED <<holds, urls, objects>>

\* decryptSticker: without the sticker or the key there is no URL.
FetchReply(r) ==
  /\ r.op = "fetch" /\ reqs' = reqs \ {r}
  /\ IF r.ans = {} \/ r.u \notin holds THEN UNCHANGED <<urls, objects>>
     ELSE /\ urls' = [urls EXCEPT ![r.u] = @ \union {r.item}]
          /\ objects' = [objects EXCEPT ![r.u][r.item] = @ + 1]
  /\ UNCHANGED <<view, loaded, holds, blind>>

\* What a flow loads again after its write.
Reloads(r) ==
  IF Removal(r) THEN {"members"}
  ELSE IF r.kind \in {"members", "channels"} THEN {"channels"} ELSE {}

\* addSticker and deleteSticker change the list that is shown by themselves.
WriteReply(r) ==
  LET u == r.u  s == r.item
  IN /\ r.op \in {"add", "del"}
     /\ reqs' = (reqs \ {r}) \union UNION {With(reqs \ {r}, Load(u, k)) : k \in Reloads(r)}
     /\ \/ r.kind # "stickers" /\ UNCHANGED <<view, loaded, urls, objects>>
        \/ /\ r.kind = "stickers" /\ r.op = "add"
           /\ IF Shows(u, "stickers", s) THEN UNCHANGED view
              ELSE Shown(u, "stickers", Append(view[u]["stickers"], s))
           /\ loaded' = [loaded EXCEPT ![u] = @ \union {"stickers"}]
           /\ UNCHANGED <<urls, objects>>
        \/ /\ r.kind = "stickers" /\ r.op = "del"
           /\ Shown(u, "stickers", Without(view[u]["stickers"], s))
           /\ Revoked(u, s) /\ UNCHANGED loaded
     /\ UNCHANGED <<holds, blind>>

Reply(r) ==
  /\ r.pc = "reply"
  /\ LoadReply(r) \/ FetchReply(r) \/ WriteReply(r)
  /\ behind' = IF (r.op \in {"load", "fetch"} \/ r.kind = "stickers") /\ r.ver < heard[r.u][r.kind]
                 THEN behind \union {<<r.u, r.kind>>} ELSE behind
  /\ heard' = Later(r.u, r.kind, r.ver)
  /\ UNCHANGED <<table, from, wire, online, made, left, ver>>

\* Mutant of Fresh: the event is pushed without a look at the list.
FreshAlways(u, k, i) == k \in loaded[u]

\* A list that does not exist hears of nothing.
Fresh(u, k, i) == k \in loaded[u] /\ ~Shows(u, k, i)

\* message_new, channel_created and sticker_added.
Added(u, k, i) ==
  /\ IF Fresh(u, k, i)
       THEN /\ Shown(u, k, Append(view[u][k], i))
            /\ blind' = IF k = "messages" THEN [blind EXCEPT ![u] = @ \union Unread(u, {i})] ELSE blind
       ELSE UNCHANGED <<view, blind>>
  /\ UNCHANGED <<loaded, holds, urls, objects, reqs>>

\* sticker_removed.
StickerRemoved(u, s) ==
  /\ Shown(u, "stickers", Without(view[u]["stickers"], s))
  /\ Revoked(u, s) /\ UNCHANGED <<loaded, holds, blind, reqs>>

\* member_joined and member_removed: somebody else is a reason to load again,
\* oneself to unlist the space and forget its keys.
MemberChanged(u, e) ==
  IF e.op = "del" /\ e.item = u
    THEN /\ loaded' = [loaded EXCEPT ![u] = @ \ {"channels"}] /\ holds' = holds \ {u}
         /\ UNCHANGED <<view, blind, urls, objects, reqs>>
    ELSE reqs' = With(reqs, Load(u, "members")) /\ UNCHANGED client

\* handleEvent.  To hear of a sticker's removal before its creation leaves the
\* list behind.
Receive(u) ==
  LET e == Head(wire[u])
  IN /\ wire[u] # <<>> /\ wire' = [wire EXCEPT ![u] = Tail(@)]
     /\ \/ e.kind = "members" /\ MemberChanged(u, e)
        \/ e.kind # "members" /\ e.op = "add" /\ Added(u, e.kind, e.item)
        \/ e.kind = "stickers" /\ e.op = "del" /\ StickerRemoved(u, e.item)
     /\ heard' = Later(u, e.kind, e.ver)
     /\ behind' = IF e.kind = "stickers" /\ e.ver < heard[u][e.kind]
                    THEN behind \union {<<u, e.kind>>} ELSE behind
     /\ UNCHANGED <<table, from, online, made, left, ver>>

\* A member wraps the key for the newcomer, who loads it (SpaceKeys): the
\* messages already shown are not looked at again.
KeysUpdated(u) ==
  /\ u \in Members \ holds /\ Listed(u) /\ holds' = holds \union {u}
  /\ UNCHANGED <<table, from, reqs, wire, online, view, loaded, blind, urls, objects, made, left, history>>

\* The WebSocket closes with what was on it; on reopening nothing is loaded.
Drop(u) ==
  /\ u \in online /\ Spend("drops")
  /\ online' = online \ {u} /\ wire' = [wire EXCEPT ![u] = <<>>]
  /\ behind' = behind \union {<<u, wire[u][j].kind>> : j \in DOMAIN wire[u]}
  /\ UNCHANGED <<table, from, reqs, client, made, ver, heard>>

Reopen(u) ==
  /\ u \notin online /\ online' = online \union {u}
  /\ UNCHANGED <<table, from, reqs, wire, client, made, left, history>>

-----------------------------------------------------------------------------
User(u) ==
  \/ SendMessage(u) \/ AcceptInvite(u)
  \/ \E k \in {"messages", "stickers"} : Open(u, k)
  \/ \E s \in Stickers : Show(u, s)
OwnerOnly ==
  \/ CreateChannel \/ AddSticker
  \/ \E i \in Users : RemoveMember(i)
  \/ \E s \in Stickers : DeleteSticker(s)
Client(u) == Receive(u) \/ KeysUpdated(u) \/ Drop(u) \/ Reopen(u)
Call(r) == Write(r) \/ Fan(r) \/ Read(r) \/ Reply(r)

Next == \/ OwnerOnly
        \/ \E u \in Users : User(u) \/ Client(u)
        \/ \E r \in reqs : Call(r)

Spec == Init /\ [][Next]_vars

-----------------------------------------------------------------------------
(* Properties.                                                               *)

\* The variables keep their types.
TypeOK ==
  /\ table \in [Kinds -> SUBSET Nat] /\ from \in Seq(Users)
  /\ \A r \in reqs : r.u \in Users /\ r.kind \in Kinds /\ r.pc \in {"read", "write", "fan", "reply"}
  /\ \A u \in Users : \A j \in DOMAIN wire[u] : wire[u][j].kind \in Kinds
  /\ online \subseteq Users /\ holds \subseteq Users
  /\ view \in [Users -> [Kinds -> Seq(Nat)]] /\ loaded \in [Users -> SUBSET Kinds]
  /\ urls \in [Users -> SUBSET Stickers] /\ objects \in [Users -> [Stickers -> Nat]]
  /\ \A u \in Users : blind[u] \subseteq DOMAIN from
  /\ behind \subseteq Users \X Kinds

\* No list shows an item twice, however answers, events and the client's own
\* changes of the list are ordered.
NoDuplicates == \A u \in Users, k \in Kinds : IsInjective(view[u][k])

\* Every object URL made for a sticker is the one in the cache: none is leaked
\* by a second fetch, and none is in use after it is revoked ("In-flight sticker
\* decrypts, deduped so concurrent renders share one fetch").
UrlsOwned == \A u \in Users, s \in Stickers : objects[u][s] = IF s \in urls[u] THEN 1 ELSE 0

\* When nothing is under way, a member who lists the space and did not miss news
\* of a kind shows what the server has of it, and caches no removed sticker.
Quiet == reqs = {} /\ \A u \in Users : wire[u] = <<>>
UpToDate(u, k) == u \in Members /\ Listed(u) /\ k \in loaded[u] /\ <<u, k>> \notin behind
ViewsAgree ==
  Quiet => \A u \in Users, k \in Kinds :
    UpToDate(u, k) => /\ ToSet(view[u][k]) = table[k]
                      /\ k = "stickers" => urls[u] \subseteq table[k]

\* When nothing is under way, a member who has the key and an up-to-date list of
\* the members can read the whole history ("new members read full history").
HistoryReadable ==
  Quiet => \A u \in holds : UpToDate(u, "members") => blind[u] = {}
=============================================================================
