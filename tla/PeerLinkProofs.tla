---------------------------- MODULE PeerLinkProofs ----------------------------
(***************************************************************************)
(* Theorems about PeerLink: whoever is in the call has a connection to the   *)
(* other once everything is said, an answer meets the very offer it answers, *)
(* and in the end the voices of both are negotiated and the screen is sent   *)
(* to who watches it.                                                        *)
(*                                                                           *)
(* RosterInv: the last roster on its way to a side is the server's.  CallInv,*)
(* between the same connections: who may speak to whom (Hearing), what the   *)
(* operations chain and the wire can hold (Matching), and, while both are in *)
(* the call, whose turn it is (Dialogue).  ShareInv: the tracks follow the   *)
(* viewers, and what each side knows of the other's share and of its wish to *)
(* watch is right once its wire is read (Sharing).                           *)
(***************************************************************************)
EXTENDS PeerLink, SequenceTheorems, TLAPS

-----------------------------------------------------------------------------
(* Types.                                                                    *)

\* The connections there are: their gen is never that of NoPeer.
Conns == [gen : Nat \ {0}, far : Nat, sig : {"stable", "have-local", "have-remote"},
          chain : Seq(Ops), makingOffer : BOOLEAN, tracks : SUBSET Tracks,
          sent : SUBSET Tracks, lines : SUBSET Tracks, local : Descs, remote : Descs,
          offers : Nat]

\* What a side knows goes with its call and its connection.
Owned(s) ==
  /\ HasPeer(s) \/ screen[s] => joined[s]
  /\ watchers[s] \/ watching[s] \/ seesLive[s] => HasPeer(s)
  /\ HasPeer(s) => ((pc[s].sig = "have-local") <=> (pc[s].local # NoOffer))

TypeInv ==
  /\ roster \in SUBSET Sides /\ wire \in [Sides -> Seq(Msgs)]
  /\ pc \in [Sides -> Conns \union {NoPeer}]
  /\ online \in [Sides -> BOOLEAN] /\ joined \in [Sides -> BOOLEAN]
  /\ screen \in [Sides -> BOOLEAN] /\ watchers \in [Sides -> BOOLEAN]
  /\ watching \in [Sides -> BOOLEAN] /\ seesLive \in [Sides -> BOOLEAN]
  /\ acts \in 0..MaxActs /\ drops \in 0..MaxDrops
  /\ made \in [Sides -> Nat] /\ lostOffer \in BOOLEAN /\ rushed \in BOOLEAN
  /\ \A s \in Sides : Owned(s)

LEMMA TheSides ==
  /\ \A s \in Sides : Other(s) \in Sides /\ Other(s) # s /\ Other(Other(s)) = s
  /\ \A s, u \in Sides : u = s \/ u = Other(s)
BY DEF Sides, Other

LEMMA ConnsArePeers ==
  /\ \A p \in Conns : p # NoPeer
  /\ \A s \in Sides : made \in [Sides -> Nat] => NewPeer(s) \in Conns
<1>1. \A p \in Conns : p # NoPeer
  BY DEF Conns, NoPeer
<1>2. \A s \in Sides : made \in [Sides -> Nat] => NewPeer(s) \in Conns
  BY DEF NewPeer, Conns, NoOffer, Descs, Tracks
<1> QED BY <1>1, <1>2

LEMMA Messages ==
  /\ NoOffer \in Descs
  /\ \A us \in SUBSET Sides : Roster(us) \in Msgs /\ Roster(us).t = "roster" /\ Roster(us).who = us
  /\ \A on \in BOOLEAN : Watch(on) \in Msgs /\ Watch(on).t = "watch" /\ Watch(on).who = {}
  /\ \A on \in BOOLEAN : LET m == [Msg("state") EXCEPT !.on = on]
                         IN m \in Msgs /\ m.t = "state" /\ m.who = {}
  /\ Msg("state") \in Msgs /\ Msg("state").t = "state" /\ Msg("state").who = {}
  /\ \A t \in {"offer", "answer"}, d \in Descs :
       LET m == [Msg(t) EXCEPT !.d = d] IN m \in Msgs /\ m.t = t /\ m.d = d /\ m.who = {}
<1>1. NoOffer \in Descs
  BY DEF NoOffer, Descs, Tracks
<1> QED BY <1>1 DEF Roster, Watch, Msg, Msgs

\* What is taken from a wire and what is put on it.
LEMMA Tails ==
  ASSUME NEW S, NEW q \in Seq(S), q # <<>>
  PROVE  /\ Tail(q) \in Seq(S) /\ Head(q) \in S /\ Head(q) = q[1] /\ 1 \in DOMAIN q
         /\ \A i \in DOMAIN q : i # 1 => i - 1 \in DOMAIN Tail(q) /\ Tail(q)[i - 1] = q[i]
         /\ \A i \in DOMAIN Tail(q) : i + 1 \in DOMAIN q /\ Tail(q)[i] = q[i + 1] /\ i + 1 # 1
         /\ DOMAIN q \subseteq Nat
OBVIOUS

LEMMA Appends ==
  ASSUME NEW S, NEW q \in Seq(S), NEW m \in S
  PROVE  /\ Append(q, m) \in Seq(S) /\ Append(q, m) # <<>> /\ q \o <<m>> = Append(q, m)
         /\ q \o <<>> = q
         /\ \A i \in DOMAIN q : i \in DOMAIN Append(q, m) /\ Append(q, m)[i] = q[i]
         /\ \A i \in DOMAIN Append(q, m) : i \in DOMAIN q \/ i = Len(q) + 1
         /\ Append(q, m)[Len(q) + 1] = m /\ Len(q) + 1 \in DOMAIN Append(q, m)
         /\ \A i \in DOMAIN q : i < Len(q) + 1
         /\ DOMAIN q \subseteq Nat /\ Len(q) \in Nat
<1>1. q \o <<m>> = Append(q, m) /\ q \o <<>> = q
  BY AppendIsConcat, ConcatEmptySeq
<1> QED BY <1>1

-----------------------------------------------------------------------------
(* Every step keeps the types.                                               *)

\* A message of s, sent or lost.
LEMMA Sending ==
  ASSUME wire \in [Sides -> Seq(Msgs)], NEW s \in Sides, NEW m \in Msgs
  PROVE  /\ Sent(s, <<m>>) = IF Up(s) THEN [wire EXCEPT ![Other(s)] = Append(@, m)] ELSE wire
         /\ Sent(s, <<>>) = wire
         /\ Sent(s, <<m>>) \in [Sides -> Seq(Msgs)]
<1>1. /\ wire[Other(s)] \in Seq(Msgs) /\ Other(s) \in Sides
  BY TheSides
<1>2. /\ wire[Other(s)] \o <<m>> = Append(wire[Other(s)], m) /\ wire[Other(s)] \o <<>> = wire[Other(s)]
      /\ Append(wire[Other(s)], m) \in Seq(Msgs)
  BY <1>1, Appends
<1> QED BY <1>1, <1>2 DEF Sent

LEMMA Asking ==
  ASSUME wire \in [Sides -> Seq(Msgs)], NEW s \in Sides, NEW on \in BOOLEAN
  PROVE  /\ Asks(s, on) = <<>> \/ Asks(s, on) = <<Watch(on)>>
         /\ Sent(s, Asks(s, on)) \in [Sides -> Seq(Msgs)]
<1>1. Asks(s, on) = <<>> \/ Asks(s, on) = <<Watch(on)>>
  BY DEF Asks
<1>2. Watch(on) \in Msgs
  BY Messages
<1> QED BY <1>1, <1>2, Sending

\* What no step but its own changes.
LEMMA TypesFrame ==
  ASSUME TypeInv, wire' \in [Sides -> Seq(Msgs)], roster' \in SUBSET Sides, 
         online' \in [Sides -> BOOLEAN], acts' \in 0..MaxActs, drops' \in 0..MaxDrops,
         made' \in [Sides -> Nat], lostOffer' \in BOOLEAN, rushed' \in BOOLEAN,
         joined' \in [Sides -> BOOLEAN], screen' \in [Sides -> BOOLEAN],
         watchers' \in [Sides -> BOOLEAN], watching' \in [Sides -> BOOLEAN],
         seesLive' \in [Sides -> BOOLEAN], pc' \in [Sides -> Conns \union {NoPeer}],
         NEW s \in Sides, Owned(s)',
         LET u == Other(s)
         IN /\ pc'[u] = pc[u] /\ joined'[u] = joined[u] /\ screen'[u] = screen[u]
            /\ watchers'[u] = watchers[u] /\ watching'[u] = watching[u] /\ seesLive'[u] = seesLive[u]
  PROVE  TypeInv'
<1>1. Owned(Other(s))'
  BY TheSides DEF TypeInv, Owned, HasPeer
<1> QED BY <1>1, TheSides DEF TypeInv

LEMMA ActTypes ==
  ASSUME TypeInv, Act PROVE acts' \in 0..MaxActs /\ drops' \in 0..MaxDrops
BY ConstantsAssumption DEF TypeInv, Act

LEMMA Untracking ==
  ASSUME TypeInv, NEW s \in Sides
  PROVE  /\ Untracked(s)[s] \in Conns \union {NoPeer}
         /\ Untracked(s)[s] # NoPeer <=> HasPeer(s)
         /\ HasPeer(s) => Untracked(s)[s] = [pc[s] EXCEPT !.tracks = @ \ {"screen"}]
         /\ Untracked(s)[s].sig = pc[s].sig /\ Untracked(s)[s].local = pc[s].local
<1>1. CASE ~HasPeer(s)
  <2>1. Untracked(s)[s] = pc[s] /\ pc[s] \in Conns \union {NoPeer}
    BY <1>1 DEF HasPeer, Untracked, TypeInv
  <2> QED BY <1>1, <2>1 DEF HasPeer
<1>2. CASE HasPeer(s)
  <2>1. pc[s] \in Conns /\ Untracked(s)[s] = [pc[s] EXCEPT !.tracks = @ \ {"screen"}]
    BY <1>2 DEF HasPeer, Untracked, TypeInv
  <2>2. [pc[s] EXCEPT !.tracks = @ \ {"screen"}] \in Conns
    BY <2>1 DEF Conns
  <2> QED BY <1>2, <2>1, <2>2, ConnsArePeers DEF Conns
<1> QED BY <1>1, <1>2

LEMMA UserTypes ==
  ASSUME TypeInv, NEW s \in Sides, User(s) PROVE TypeInv'
<1> USE TheSides DEF call, history, bounds, vars, Forget
<1>1. CASE Join(s)
  <2>1. \A u \in Sides : Roster(roster \union {s}) \in Msgs /\ wire[u] \in Seq(Msgs)
    BY Messages DEF TypeInv
  <2>2. \A u \in Sides : Append(wire[u], Roster(roster \union {s})) \in Seq(Msgs)
    BY <2>1, Appends
  <2>3. wire' \in [Sides -> Seq(Msgs)] /\ roster' \in SUBSET Sides
    BY <1>1, <2>1, <2>2 DEF Join, Enter, TypeInv
  <2>4. Owned(s)'
    BY <1>1 DEF Join, TypeInv, Owned, HasPeer
  <2> QED BY <1>1, <2>3, <2>4, ActTypes, TypesFrame DEF Join, TypeInv
<1>2. CASE Leave(s)
  <2>1. \A u \in Sides : Roster(roster \ {s}) \in Msgs /\ wire[u] \in Seq(Msgs)
    BY Messages DEF TypeInv
  <2>2. \A u \in Sides : Append(wire[u], Roster(roster \ {s})) \in Seq(Msgs)
    BY <2>1, Appends
  <2>3. wire' \in [Sides -> Seq(Msgs)] /\ roster' \in SUBSET Sides
    <3>1. CASE online[s]
      <4>1. roster' \in SUBSET Sides
        BY <1>2, <3>1 DEF Leave, Exit, TypeInv
      <4>2. wire' = [u \in Sides |-> IF u \in roster \ {s} /\ s \in roster /\ online[u]
                                      THEN Append(wire[u], Roster(roster \ {s})) ELSE wire[u]]
        BY <1>2, <3>1 DEF Leave, Exit
      <4> QED BY <2>1, <2>2, <4>1, <4>2
    <3>2. CASE ~online[s]
      BY <1>2, <3>2 DEF Leave, TypeInv
    <3> QED BY <3>1, <3>2
  <2>4. Owned(s)'
    BY <1>2 DEF Leave, TypeInv, Owned, HasPeer
  <2> QED BY <1>2, <2>3, <2>4, ActTypes, TypesFrame DEF Leave, TypeInv
<1>3. CASE StartShare(s)
  <2>1. wire' \in [Sides -> Seq(Msgs)]
    BY <1>3, Messages, Sending DEF StartShare, TypeInv
  <2>2. Owned(s)'
    BY <1>3 DEF StartShare, TypeInv, Owned, HasPeer
  <2> QED BY <1>3, <2>1, <2>2, ActTypes, TypesFrame DEF StartShare, TypeInv
<1>4. CASE StopShare(s)
  <2>1. wire' \in [Sides -> Seq(Msgs)]
    BY <1>4, Messages, Sending DEF StopShare, TypeInv
  <2>2. /\ Untracked(s)[s] \in Conns \union {NoPeer}
        /\ Untracked(s)[s] # NoPeer <=> HasPeer(s)
        /\ HasPeer(s) => Untracked(s)[s].sig = pc[s].sig /\ Untracked(s)[s].local = pc[s].local
    BY Untracking
  <2>3. Owned(s)'
    BY <1>4, <2>2 DEF StopShare, TypeInv, Owned, HasPeer
  <2>4. pc' \in [Sides -> Conns \union {NoPeer}] /\ pc'[Other(s)] = pc[Other(s)]
    BY <1>4, <2>2 DEF StopShare, TypeInv, Untracked
  <2> QED BY <1>4, <2>1, <2>3, <2>4, ActTypes, TypesFrame DEF StopShare, TypeInv
<1>5. CASE Click(s)
  <2>1. wire' \in [Sides -> Seq(Msgs)]
    BY <1>5, Asking DEF Click, SetWatching, TypeInv
  <2>2. Owned(s)'
    BY <1>5 DEF Click, SetWatching, TypeInv, Owned, HasPeer
  <2> QED BY <1>5, <2>1, <2>2, ActTypes, TypesFrame DEF Click, SetWatching, TypeInv
<1> QED BY <1>1, <1>2, <1>3, <1>4, <1>5 DEF User

LEMMA SocketTypes ==
  ASSUME TypeInv, NEW s \in Sides, Drop(s) \/ Reopen(s) PROVE TypeInv'
<1> USE TheSides DEF call, history, bounds, vars
<1> SUFFICES wire' \in [Sides -> Seq(Msgs)] /\ roster' \in SUBSET Sides
  <2>1. Owned(s)'
    BY DEF Drop, Reopen, TypeInv, Owned, HasPeer
  <2>2. acts' \in 0..MaxActs /\ drops' \in 0..MaxDrops /\ online' \in [Sides -> BOOLEAN]
    <3>1. CASE Drop(s)
      BY <3>1, ConstantsAssumption DEF Drop, TypeInv
    <3>2. CASE Reopen(s)
      BY <3>2 DEF Reopen, TypeInv
    <3> QED BY <3>1, <3>2
  <2> QED BY <2>1, <2>2, TypesFrame DEF Drop, Reopen, TypeInv
<1>1. \A u \in Sides : /\ Roster(roster \union {s}) \in Msgs /\ Roster(roster \ {s}) \in Msgs
                       /\ wire[u] \in Seq(Msgs)
  BY Messages DEF TypeInv
<1>2. \A u \in Sides : /\ Append(wire[u], Roster(roster \union {s})) \in Seq(Msgs)
                       /\ Append(wire[u], Roster(roster \ {s})) \in Seq(Msgs)
  BY <1>1, Appends
<1>0. <<>> \in Seq(Msgs)
  BY EmptySeq
<1>3. CASE Drop(s)
  <2> DEFINE w == [wire EXCEPT ![s] = <<>>]
  <2>1. \A u \in Sides \ {s} : w[u] = wire[u]
    BY DEF TypeInv
  <2>2. w[s] = <<>>
    BY DEF TypeInv
  <2>3. wire' = [u \in Sides |-> IF u \in roster \ {s} /\ s \in roster /\ online[u]
                                THEN Append(w[u], Roster(roster \ {s})) ELSE w[u]]
    BY <1>3 DEF Drop, Exit
  <2>4. \A u \in Sides : u \in roster \ {s} => w[u] = wire[u]
    BY <2>1
  <2>5. \A u \in Sides : w[u] \in Seq(Msgs)
    BY <1>0, <1>1, <2>1, <2>2
  <2>6. roster' \in SUBSET Sides
    BY <1>3 DEF Drop, Exit, TypeInv
  <2> HIDE DEF w
  <2> QED BY <1>2, <2>3, <2>4, <2>5, <2>6
<1>4. CASE Reopen(s)
  <2>1. CASE joined[s]
    <3>1. roster' \in SUBSET Sides
      BY <1>4, <2>1 DEF Reopen, TypeInv
    <3>2. wire' = [u \in Sides |-> IF u = s \/ u \in roster
                          THEN Append(wire[u], Roster(roster \union {s})) ELSE wire[u]]
      BY <1>4, <2>1 DEF Reopen
    <3> QED BY <1>1, <1>2, <3>1, <3>2
  <2>2. CASE ~joined[s]
    BY <1>4, <2>2 DEF Reopen, TypeInv
  <2> QED BY <2>1, <2>2
<1> QED BY <1>3, <1>4

LEMMA Resting ==
  ASSUME wire \in [Sides -> Seq(Msgs)], NEW s \in Sides, wire[s] # <<>>
  PROVE  /\ Rest(s) \in [Sides -> Seq(Msgs)] /\ Head(wire[s]) \in Msgs
         /\ Rest(s)[s] = Tail(wire[s]) /\ Rest(s)[Other(s)] = wire[Other(s)]
<1>1. wire[s] \in Seq(Msgs)
  OBVIOUS
<1>2. Tail(wire[s]) \in Seq(Msgs) /\ Head(wire[s]) \in Msgs
  BY <1>1, Tails
<1> QED BY <1>1, <1>2, TheSides DEF Rest

\* What s makes of a message of the other, with its own message in return.
LEMMA Creating ==
  ASSUME TypeInv, NEW s \in Sides, NEW w \in [Sides -> Seq(Msgs)], Create(s, w)
  PROVE  /\ pc' = [pc EXCEPT ![s] = NewPeer(s)] /\ pc'[s] = NewPeer(s) /\ NewPeer(s) \in Conns
         /\ pc' \in [Sides -> Conns \union {NoPeer}] /\ made' \in [Sides -> Nat]
         /\ wire' = IF Up(s) THEN [w EXCEPT ![Other(s)] = Append(@, State(s))] ELSE w
         /\ wire' \in [Sides -> Seq(Msgs)]
<1>1. State(s) \in Msgs /\ w[Other(s)] \in Seq(Msgs)
  BY Messages, TheSides DEF State, TypeInv
<1>2. Append(w[Other(s)], State(s)) \in Seq(Msgs)
  BY <1>1, Appends
<1>3. NewPeer(s) \in Conns
  BY ConnsArePeers DEF TypeInv
<1> QED BY <1>2, <1>3, TheSides DEF Create, TypeInv

LEMMA Answering ==
  ASSUME TypeInv, NEW s \in Sides, wire[s] # <<>>, NEW on \in BOOLEAN,
         wire' = [Rest(s) EXCEPT ![Other(s)] = IF Up(s) THEN @ \o Asks(s, on) ELSE @]
  PROVE  /\ wire' \in [Sides -> Seq(Msgs)]
         /\ wire'[s] = Tail(wire[s])
         /\ wire'[Other(s)] = wire[Other(s)] \/ (Up(s) /\ wire'[Other(s)] = Append(wire[Other(s)], Watch(on)))
<1>1. /\ wire[Other(s)] \in Seq(Msgs) /\ Watch(on) \in Msgs
      /\ Rest(s) \in [Sides -> Seq(Msgs)] /\ Rest(s)[Other(s)] = wire[Other(s)] /\ Rest(s)[s] = Tail(wire[s])
  BY Messages, Resting, TheSides DEF TypeInv
<1>2. Asks(s, on) = <<>> \/ Asks(s, on) = <<Watch(on)>>
  BY Asking DEF TypeInv
<1>3. /\ wire[Other(s)] \o <<>> = wire[Other(s)]
      /\ wire[Other(s)] \o <<Watch(on)>> = Append(wire[Other(s)], Watch(on))
      /\ Append(wire[Other(s)], Watch(on)) \in Seq(Msgs)
  BY <1>1, Appends
<1>4. /\ wire'[Other(s)] = IF Up(s) THEN wire[Other(s)] \o Asks(s, on) ELSE wire[Other(s)]
      /\ \A u \in Sides : u # Other(s) => wire'[u] = Rest(s)[u]
      /\ wire' = [u \in Sides |-> wire'[u]]
  BY <1>1, TheSides
<1>5. wire'[Other(s)] = wire[Other(s)] \/ (Up(s) /\ wire'[Other(s)] = Append(wire[Other(s)], Watch(on)))
  BY <1>2, <1>3, <1>4
<1>6. wire'[s] = Tail(wire[s])
  BY <1>1, <1>4, TheSides
<1>7. \A u \in Sides : wire'[u] \in Seq(Msgs)
  BY <1>1, <1>3, <1>4, <1>5, TheSides
<1> QED BY <1>4, <1>5, <1>6, <1>7

\* The operation a description adds to the chain.
LEMMA Chaining ==
  ASSUME NEW p \in Conns, NEW o \in Ops
  PROVE  /\ [p EXCEPT !.chain = Append(@, o)] \in Conns
         /\ [p EXCEPT !.chain = Append(@, o)].chain = Append(p.chain, o)
         /\ p.chain # <<>> => [p EXCEPT !.chain = Tail(@)] \in Conns
<1>1. p.chain \in Seq(Ops)
  BY DEF Conns
<1>2. Append(p.chain, o) \in Seq(Ops) /\ (p.chain # <<>> => Tail(p.chain) \in Seq(Ops))
  BY <1>1, Appends, Tails
<1> QED BY <1>2 DEF Conns

LEMMA ReceiveTypes ==
  ASSUME TypeInv, NEW s \in Sides, Receive(s) PROVE TypeInv'
<1> USE TheSides DEF call, history, bounds, vars, Forget
<1> DEFINE m == Head(wire[s])
<1>0. /\ wire[s] # <<>> /\ UNCHANGED <<roster, online, bounds>>
      /\ Rest(s) \in [Sides -> Seq(Msgs)] /\ m \in Msgs
  BY Resting DEF Receive, TypeInv
<1> HIDE DEF m
\* What is left to show for a message.
<1>w. ASSUME wire' \in [Sides -> Seq(Msgs)], made' \in [Sides -> Nat], UNCHANGED <<joined, screen, rushed>>,
             lostOffer' \in BOOLEAN, pc' \in [Sides -> Conns \union {NoPeer}], Owned(s)',
             watchers' \in [Sides -> BOOLEAN], watching' \in [Sides -> BOOLEAN], seesLive' \in [Sides -> BOOLEAN],
             LET u == Other(s)
             IN /\ pc'[u] = pc[u]
                /\ watchers'[u] = watchers[u] /\ watching'[u] = watching[u] /\ seesLive'[u] = seesLive[u]
      PROVE  TypeInv'
  BY <1>0, <1>w, TypesFrame DEF TypeInv
<1>1. CASE Unheard(s)
  BY <1>0, <1>1, <1>w DEF Unheard, TypeInv, Owned, HasPeer
<1>2. CASE joined[s] /\ OnRoster(s, m)
  <2>1. CASE Other(s) \notin m.who
    <3>1. Owned(s)' /\ pc' = [pc EXCEPT ![s] = NoPeer] /\ wire' = Rest(s)
      BY <1>2, <2>1 DEF OnRoster, DropPeer, TypeInv, Owned, HasPeer
    <3>2. /\ Forget(watchers, s) /\ Forget(watching, s) /\ Forget(seesLive, s) /\ UNCHANGED <<joined, screen, made, history>>
      BY <1>2, <2>1 DEF OnRoster, DropPeer
    <3>3. /\ pc' \in [Sides -> Conns \union {NoPeer}] /\ pc'[Other(s)] = pc[Other(s)]
      BY <3>1 DEF TypeInv
    <3> QED BY <1>0, <1>w, <3>1, <3>2, <3>3 DEF TypeInv
  <2>2. CASE Other(s) \in m.who /\ HasPeer(s)
    BY <1>0, <1>2, <1>w, <2>2 DEF OnRoster, TypeInv, Owned, HasPeer
  <2>3. CASE Other(s) \in m.who /\ ~HasPeer(s)
    <3>1. Create(s, Rest(s))
      BY <1>2, <2>3 DEF OnRoster
    <3>2. /\ pc' = [pc EXCEPT ![s] = NewPeer(s)] /\ pc'[s] = NewPeer(s) /\ made' \in [Sides -> Nat]
          /\ pc' \in [Sides -> Conns \union {NoPeer}] /\ wire' \in [Sides -> Seq(Msgs)]
      BY <1>0, <3>1, Creating
    <3>3. Owned(s)'
      BY <1>2, <2>3, <3>2 DEF OnRoster, TypeInv, Owned, HasPeer, NewPeer
    <3> QED BY <1>0, <1>2, <1>w, <2>3, <3>2, <3>3 DEF OnRoster, TypeInv
  <2> QED BY <2>1, <2>2, <2>3
<1>3. CASE joined[s] /\ OnState(s, m)
  <2>1. PICK on \in BOOLEAN : on = (IF m.on THEN watching[s] \/ (~seesLive[s] /\ AutoWatch[s]) ELSE FALSE)
    BY ConstantsAssumption DEF TypeInv
  <2>2. /\ seesLive' = [seesLive EXCEPT ![s] = m.on] /\ watching' = [watching EXCEPT ![s] = on] /\ HasPeer(s)
        /\ wire' = [Rest(s) EXCEPT ![Other(s)] = IF Up(s) THEN @ \o Asks(s, on) ELSE @]
        /\ UNCHANGED <<joined, screen, watchers, pc, made, history>>
    BY <1>3, <2>1 DEF OnState
  <2>3. wire' \in [Sides -> Seq(Msgs)]
    BY <1>0, <2>2, Answering
  <2>4. m.on \in BOOLEAN
    BY <1>0 DEF Msgs
  <2>5. Owned(s)'
    BY <2>2, <2>4 DEF TypeInv, Owned, HasPeer
  <2> QED BY <1>w, <2>2, <2>3, <2>4, <2>5 DEF TypeInv
<1>4. CASE joined[s] /\ OnWatch(s, m)
  <2>1. m.on \in BOOLEAN /\ HasPeer(s) /\ pc[s] \in Conns /\ wire' = Rest(s)
    BY <1>0, <1>4 DEF OnWatch, Msgs, TypeInv, HasPeer
  <2>2. /\ pc'[s] \in Conns /\ pc'[s].sig = pc[s].sig /\ pc'[s].local = pc[s].local
        /\ pc' = [pc EXCEPT ![s] = pc'[s]]
    <3>1. CASE pc' = pc
      BY <2>1, <3>1 DEF TypeInv
    <3>2. CASE pc' = Untracked(s)
      BY <2>1, <3>2, Untracking, ConnsArePeers DEF TypeInv, Untracked
    <3>3. CASE pc' = [pc EXCEPT ![s].tracks = @ \union {"screen"}]
      <4>1. [pc[s] EXCEPT !.tracks = @ \union {"screen"}] \in Conns
        BY <2>1 DEF Conns, Tracks
      <4> QED BY <2>1, <3>3, <4>1 DEF TypeInv, Conns
    <3> QED BY <1>4, <3>1, <3>2, <3>3 DEF OnWatch
  <2>3. Owned(s)'
    BY <1>4, <2>1, <2>2, ConnsArePeers DEF OnWatch, TypeInv, Owned, HasPeer
  <2> QED BY <1>0, <1>4, <1>w, <2>1, <2>2, <2>3 DEF OnWatch, TypeInv
<1>5. CASE joined[s] /\ OnSdp(s, m)
  <2>1. HasPeer(s) /\ pc[s] \in Conns /\ wire' = Rest(s) /\ m.t \in {"offer", "answer"}
        /\ UNCHANGED <<call, made, rushed>>
    BY <1>5 DEF OnSdp, TypeInv, HasPeer
  <2>2. CASE Ignores(s, m.t)
    <3>1. lostOffer' \in BOOLEAN /\ UNCHANGED pc
      BY <1>5, <2>2 DEF OnSdp, Applying
    <3> QED BY <1>0, <1>w, <2>1, <3>1 DEF TypeInv, Owned, HasPeer
  <2>3. CASE ~Ignores(s, m.t)
    <3> DEFINE o == [op |-> m.t, d |-> m.d]
    <3>1. o \in Ops
      BY <1>0, <2>1 DEF Msgs, Ops
    <3>2. pc' = [pc EXCEPT ![s].chain = Append(@, o)] /\ UNCHANGED lostOffer
      BY <1>5, <2>3 DEF OnSdp
    <3> HIDE DEF o
    <3>3. PICK q : q = [pc[s] EXCEPT !.chain = Append(@, o)]
      OBVIOUS
    <3>4. q \in Conns /\ q.sig = pc[s].sig /\ q.local = pc[s].local /\ pc' = [pc EXCEPT ![s] = q]
      BY <2>1, <3>1, <3>2, <3>3, Chaining DEF TypeInv, Conns
    <3>5. Owned(s)'
      BY <2>1, <3>4, ConnsArePeers DEF TypeInv, Owned, HasPeer
    <3>6. /\ pc' \in [Sides -> Conns \union {NoPeer}] /\ pc'[Other(s)] = pc[Other(s)]
      BY <3>4 DEF TypeInv
    <3> QED BY <1>0, <1>w, <2>1, <3>2, <3>5, <3>6 DEF TypeInv
  <2> QED BY <2>2, <2>3
<1>7. CASE joined[s] /\ Dropped(s, m)
  BY <1>0, <1>7, <1>w DEF Dropped, TypeInv, Owned, HasPeer
<1>6. CASE joined[s] /\ OnStranger(s, m)
  <2>1. Create(s, wire) /\ UNCHANGED <<call, history>> /\ wire \in [Sides -> Seq(Msgs)] /\ ~HasPeer(s)
    BY <1>6 DEF OnStranger, TypeInv
  <2>2. /\ pc' = [pc EXCEPT ![s] = NewPeer(s)] /\ pc'[s] = NewPeer(s) /\ made' \in [Sides -> Nat]
        /\ pc' \in [Sides -> Conns \union {NoPeer}] /\ wire' \in [Sides -> Seq(Msgs)]
    BY <2>1, Creating
  <2>3. Owned(s)'
    BY <1>6, <2>1, <2>2 DEF TypeInv, Owned, HasPeer, NewPeer
  <2> QED BY <1>w, <2>1, <2>2, <2>3 DEF TypeInv
<1> QED BY <1>1, <1>2, <1>3, <1>4, <1>5, <1>6, <1>7 DEF Receive, Heeded, m

\* An operation that ends leaves the chain.
LEMMA Unchaining ==
  ASSUME NEW p \in Conns, p.chain # <<>>
  PROVE  /\ Tail(p.chain) \in Seq(Ops) /\ Head(p.chain) \in Ops
         /\ Append(Tail(p.chain), Local) \in Seq(Ops) /\ <<Local>> \in Seq(Ops)
<1>1. p.chain \in Seq(Ops) /\ Local \in Ops
  BY Messages DEF Conns, Local, Ops
<1>2. Tail(p.chain) \in Seq(Ops) /\ Head(p.chain) \in Ops
  BY <1>1, Tails
<1> QED BY <1>1, <1>2, Appends

\* What SetLocal and SetRemote make of a connection.
Offer(p) == [gen |-> p.gen, id |-> p.offers + 1, tracks |-> p.tracks, lines |-> p.lines \union p.tracks]
Answer(p) == [p.remote EXCEPT !.gen = p.gen]

\* The local description is set: an answer, or an offer.
IsAnswered(p, q) ==
  /\ q \in Conns /\ q.gen = p.gen /\ q.far = p.far /\ q.sig = "stable" /\ q.chain = Tail(p.chain)
  /\ q.makingOffer = FALSE /\ q.tracks = p.tracks /\ q.sent = p.tracks \intersect p.remote.lines
  /\ q.lines = p.remote.lines /\ q.local = p.local /\ q.remote = NoOffer /\ q.offers = p.offers
IsOffered(p, q) ==
  /\ q \in Conns /\ q.gen = p.gen /\ q.far = p.far /\ q.sig = "have-local" /\ q.chain = Tail(p.chain)
  /\ q.makingOffer = FALSE /\ q.tracks = p.tracks /\ q.sent = p.sent
  /\ q.lines = p.lines /\ q.local = Offer(p) /\ q.remote = p.remote /\ q.offers = p.offers + 1

\* The remote one is: an offer, an answer, or an answer that comes too late.
IsOfferTaken(p, q, d) ==
  /\ q \in Conns /\ q.gen = p.gen /\ q.far = d.gen /\ q.sig = "have-remote"
  /\ q.chain = Append(Tail(p.chain), Local)
  /\ q.makingOffer = p.makingOffer /\ q.tracks = p.tracks /\ q.sent = p.sent
  /\ q.lines = p.lines /\ q.local = NoOffer /\ q.remote = d /\ q.offers = p.offers
IsAnswerTaken(p, q, d) ==
  /\ q \in Conns /\ q.gen = p.gen /\ q.far = d.gen /\ q.sig = "stable" /\ q.chain = Tail(p.chain)
  /\ q.makingOffer = p.makingOffer /\ q.tracks = p.tracks /\ q.sent = p.local.tracks
  /\ q.lines = p.local.lines /\ q.local = NoOffer /\ q.remote = p.remote /\ q.offers = p.offers
IsRefused(p, q) ==
  /\ q \in Conns /\ q.gen = p.gen /\ q.far = p.far /\ q.sig = p.sig /\ q.chain = Tail(p.chain)
  /\ q.makingOffer = p.makingOffer /\ q.tracks = p.tracks /\ q.sent = p.sent
  /\ q.lines = p.lines /\ q.local = p.local /\ q.remote = p.remote /\ q.offers = p.offers

\* A description joins the chain.
IsChained(p, q, o) ==
  /\ q \in Conns /\ q.gen = p.gen /\ q.far = p.far /\ q.sig = p.sig /\ q.chain = Append(p.chain, o)
  /\ q.makingOffer = p.makingOffer /\ q.tracks = p.tracks /\ q.sent = p.sent
  /\ q.lines = p.lines /\ q.local = p.local /\ q.remote = p.remote /\ q.offers = p.offers

\* The operation that ends, and what is sent with it.
LEMMA Applied ==
  ASSUME TypeInv, NEW s \in Sides, Apply(s)
  PROVE  /\ pc[s] \in Conns /\ pc[s].chain # <<>> /\ UNCHANGED <<roster, online, call, bounds, made, history>>
         /\ \E q \in Conns :
              /\ pc' = [pc EXCEPT ![s] = q]
              /\ \/ /\ Head(pc[s].chain).op = "local" /\ pc[s].sig = "have-remote" /\ IsAnswered(pc[s], q)
                    /\ wire' = Sent(s, <<[Msg("answer") EXCEPT !.d = Answer(pc[s])]>>)
                 \/ /\ Head(pc[s].chain).op = "local" /\ pc[s].sig # "have-remote" /\ IsOffered(pc[s], q)
                    /\ wire' = Sent(s, <<[Msg("offer") EXCEPT !.d = Offer(pc[s])]>>)
                 \/ /\ Head(pc[s].chain).op = "offer" /\ IsOfferTaken(pc[s], q, Head(pc[s].chain).d)
                    /\ UNCHANGED wire
                 \/ /\ Head(pc[s].chain).op = "answer" /\ pc[s].sig = "have-local"
                    /\ IsAnswerTaken(pc[s], q, Head(pc[s].chain).d) /\ UNCHANGED wire
                 \/ /\ IsRefused(pc[s], q) /\ UNCHANGED wire
                    /\ \/ Head(pc[s].chain).op = "answer" /\ pc[s].sig # "have-local"
                       \/ /\ Head(pc[s].chain).op # "local"
                          /\ pc[s].far # 0 /\ pc[s].far # Head(pc[s].chain).d.gen
<1> DEFINE p == pc[s]
           o == Head(p.chain)
<1>1. p \in Conns /\ p.chain # <<>> /\ UNCHANGED <<roster, online, call, bounds, made, history>>
  BY DEF Apply, HasPeer, TypeInv
<1>2. o \in Ops /\ Tail(p.chain) \in Seq(Ops) /\ Append(Tail(p.chain), Local) \in Seq(Ops) /\ o.d \in Descs
  BY <1>1, Unchaining DEF Ops
<1>3. /\ Offer(p) \in Descs /\ Answer(p) \in Descs /\ NoOffer \in Descs
  <2>1. /\ p.gen \in Nat /\ p.offers + 1 \in Nat /\ p.tracks \in SUBSET Tracks
        /\ p.lines \union p.tracks \in SUBSET Tracks /\ p.remote \in Descs
    BY <1>1 DEF Conns
  <2>2. Offer(p) \in Descs
    BY <2>1 DEF Offer, Descs
  <2>3. Answer(p) \in Descs
    BY <2>1 DEF Answer, Descs
  <2> QED BY <2>2, <2>3, Messages
<1>4. pc \in [Sides -> Conns \union {NoPeer}]
  BY DEF TypeInv
<1>5. CASE o.op = "local" /\ p.sig = "have-remote"
  <2>1. PICK q : q = [[p EXCEPT !.chain = Tail(@), !.makingOffer = FALSE]
                       EXCEPT !.sig = "stable", !.lines = p.remote.lines,
                        !.sent = p.tracks \intersect p.remote.lines, !.remote = NoOffer]
    OBVIOUS
  <2>2. IsAnswered(p, q)
    BY <1>1, <1>2, <1>3, <2>1 DEF Conns, IsAnswered, Descs
  <2>3. pc' = [pc EXCEPT ![s] = q] /\ wire' = Sent(s, <<[Msg("answer") EXCEPT !.d = Answer(p)]>>)
    BY <1>5, <2>1 DEF Apply, SetLocal, Answer
  <2> QED BY <1>1, <1>5, <2>2, <2>3 DEF IsAnswered
<1>6. CASE o.op = "local" /\ p.sig # "have-remote"
  <2>1. PICK q : q = [[p EXCEPT !.chain = Tail(@), !.makingOffer = FALSE]
                       EXCEPT !.sig = "have-local", !.local = Offer(p), !.offers = @ + 1]
    OBVIOUS
  <2>2. IsOffered(p, q)
    <3>1. p.offers + 1 \in Nat
      BY <1>1 DEF Conns
    <3> QED BY <1>1, <1>2, <1>3, <2>1, <3>1 DEF Conns, IsOffered
  <2>3. pc' = [pc EXCEPT ![s] = q] /\ wire' = Sent(s, <<[Msg("offer") EXCEPT !.d = Offer(p)]>>)
    BY <1>6, <2>1 DEF Apply, SetLocal, Offer
  <2> QED BY <1>1, <1>6, <2>2, <2>3 DEF IsOffered
<1>7. CASE o.op = "offer" /\ SetRemote(s, o)
  <2>1. PICK q : q = [[p EXCEPT !.chain = Tail(@), !.far = o.d.gen]
                       EXCEPT !.sig = "have-remote", !.remote = o.d, !.local = NoOffer,
                              !.chain = Append(@, Local)]
    OBVIOUS
  <2>2. IsOfferTaken(p, q, o.d)
    BY <1>1, <1>2, <1>3, <2>1 DEF Conns, IsOfferTaken, Descs
  <2>3. pc' = [pc EXCEPT ![s] = q] /\ UNCHANGED wire
    BY <1>7, <2>1 DEF SetRemote
  <2> QED BY <1>1, <1>7, <2>2, <2>3 DEF IsOfferTaken
<1>8. CASE o.op = "answer" /\ p.sig = "have-local" /\ SetRemote(s, o)
  <2>1. PICK q : q = [[p EXCEPT !.chain = Tail(@), !.far = o.d.gen]
                       EXCEPT !.sig = "stable", !.sent = p.local.tracks,
                              !.lines = p.local.lines, !.local = NoOffer]
    OBVIOUS
  <2>2. IsAnswerTaken(p, q, o.d)
    BY <1>1, <1>2, <1>3, <2>1 DEF Conns, IsAnswerTaken, Descs
  <2>3. pc' = [pc EXCEPT ![s] = q] /\ UNCHANGED wire
    BY <1>8, <2>1 DEF SetRemote
  <2> QED BY <1>1, <1>8, <2>2, <2>3 DEF IsAnswerTaken
<1>9. CASE o.op # "local" /\ (Refused(s, o) \/ (o.op = "answer" /\ p.sig # "have-local" /\ SetRemote(s, o)))
  <2>1. PICK q : q = [p EXCEPT !.chain = Tail(@)]
    OBVIOUS
  <2>2. IsRefused(p, q)
    BY <1>1, <1>2, <2>1 DEF Conns, IsRefused
  <2>3. pc' = [pc EXCEPT ![s] = q] /\ UNCHANGED wire
    BY <1>9, <2>1 DEF SetRemote, Refused
  <2>4. \/ o.op = "answer" /\ p.sig # "have-local"
        \/ o.op # "local" /\ p.far # 0 /\ p.far # o.d.gen
    BY <1>9 DEF Refused
  <2> QED BY <1>1, <2>2, <2>3, <2>4 DEF IsRefused
<1> QED
  <2>1. o.op = "local" \/ (o.op # "local" /\ (SetRemote(s, o) \/ Refused(s, o)))
    BY DEF Apply
  <2>2. o.op \in {"local", "offer", "answer"}
    BY <1>2 DEF Ops
  <2> QED BY <1>5, <1>6, <1>7, <1>8, <1>9, <2>1, <2>2

\* The negotiation that begins.
IsBegun(p, q) ==
  /\ q \in Conns /\ q.gen = p.gen /\ q.far = p.far /\ q.sig = p.sig /\ q.chain = <<Local>>
  /\ q.makingOffer = TRUE /\ q.tracks = p.tracks /\ q.sent = p.sent
  /\ q.lines = p.lines /\ q.local = p.local /\ q.remote = p.remote /\ q.offers = p.offers

LEMMA Begun ==
  ASSUME TypeInv, NEW s \in Sides, NegotiationNeeded(s)
  PROVE  /\ pc[s] \in Conns /\ UNCHANGED <<roster, online, wire, call, bounds, made, history>>
         /\ pc[s].sig = "stable" /\ pc[s].chain = <<>> /\ pc[s].tracks # pc[s].sent
         /\ \E q \in Conns : pc' = [pc EXCEPT ![s] = q] /\ IsBegun(pc[s], q)
<1>1. /\ pc[s] \in Conns /\ UNCHANGED <<roster, online, wire, call, bounds, made, history>>
      /\ pc[s].sig = "stable" /\ pc[s].chain = <<>> /\ pc[s].tracks # pc[s].sent
  BY DEF NegotiationNeeded, HasPeer, TypeInv
<1>2. PICK q : q = [pc[s] EXCEPT !.makingOffer = TRUE, !.chain = <<Local>>]
  OBVIOUS
<1>3. <<Local>> \in Seq(Ops)
  BY Messages DEF Local, Ops
<1>4. IsBegun(pc[s], q)
  BY <1>1, <1>2, <1>3 DEF IsBegun, Conns
<1>5. pc' = [pc EXCEPT ![s] = q]
  BY <1>2 DEF NegotiationNeeded
<1> QED BY <1>1, <1>4, <1>5 DEF IsBegun

LEMMA Described ==
  ASSUME NEW p \in Conns
  PROVE  Offer(p) \in Descs /\ Answer(p) \in Descs /\ Offer(p) # NoOffer
<1>1. /\ p.gen \in Nat \ {0} /\ p.offers + 1 \in Nat /\ p.tracks \in SUBSET Tracks
      /\ p.lines \union p.tracks \in SUBSET Tracks /\ p.remote \in Descs
  BY DEF Conns
<1>2. Offer(p) \in Descs /\ Offer(p) # NoOffer
  BY <1>1 DEF Offer, Descs, NoOffer
<1>3. Answer(p) \in Descs
  BY <1>1 DEF Answer, Descs
<1> QED BY <1>2, <1>3

LEMMA BrowserTypes ==
  ASSUME TypeInv, NEW s \in Sides, NegotiationNeeded(s) \/ Apply(s) PROVE TypeInv'
<1> USE TheSides DEF call, history, bounds
<1>w. ASSUME NEW q \in Conns, pc' = [pc EXCEPT ![s] = q], wire' \in [Sides -> Seq(Msgs)], pc[s] \in Conns,
             UNCHANGED <<roster, online, call, bounds, made, history>>,
             (q.sig = "have-local") <=> (q.local # NoOffer)
      PROVE  TypeInv'
  <2>1. Owned(s)'
    BY <1>w, ConnsArePeers DEF Owned, HasPeer, TypeInv
  <2> QED BY <1>w, <2>1, TypesFrame DEF TypeInv
<1>0. pc[s] \in Conns => ((pc[s].sig = "have-local") <=> (pc[s].local # NoOffer))
  BY ConnsArePeers DEF TypeInv, Owned, HasPeer
<1>1. CASE NegotiationNeeded(s)
  <2>1. PICK q \in Conns : pc' = [pc EXCEPT ![s] = q] /\ IsBegun(pc[s], q)
    BY <1>1, Begun
  <2>2. pc[s] \in Conns /\ UNCHANGED <<roster, online, wire, call, bounds, made, history>>
    BY <1>1, Begun
  <2> QED BY <1>0, <1>w, <2>1, <2>2 DEF IsBegun, TypeInv
<1>2. CASE Apply(s)
  <2>1. PICK q \in Conns :
          /\ pc' = [pc EXCEPT ![s] = q]
          /\ \/ /\ IsAnswered(pc[s], q) /\ pc[s].sig = "have-remote"
                /\ wire' = Sent(s, <<[Msg("answer") EXCEPT !.d = Answer(pc[s])]>>)
             \/ IsOffered(pc[s], q) /\ wire' = Sent(s, <<[Msg("offer") EXCEPT !.d = Offer(pc[s])]>>)
             \/ (\E d : IsOfferTaken(pc[s], q, d)) /\ UNCHANGED wire
             \/ (\E d : IsAnswerTaken(pc[s], q, d)) /\ UNCHANGED wire
             \/ IsRefused(pc[s], q) /\ UNCHANGED wire
    BY <1>2, Applied
  <2>2. pc[s] \in Conns /\ UNCHANGED <<roster, online, call, bounds, made, history>>
    BY <1>2, Applied
  <2>3. /\ Offer(pc[s]) \in Descs /\ Answer(pc[s]) \in Descs /\ Offer(pc[s]) # NoOffer
    BY <2>2, Described
  <2>4. wire' \in [Sides -> Seq(Msgs)]
    <3>1. /\ [Msg("answer") EXCEPT !.d = Answer(pc[s])] \in Msgs
          /\ [Msg("offer") EXCEPT !.d = Offer(pc[s])] \in Msgs
      BY <2>3, Messages
    <3>2. wire \in [Sides -> Seq(Msgs)]
      BY DEF TypeInv
    <3>3. /\ Sent(s, <<[Msg("answer") EXCEPT !.d = Answer(pc[s])]>>) \in [Sides -> Seq(Msgs)]
          /\ Sent(s, <<[Msg("offer") EXCEPT !.d = Offer(pc[s])]>>) \in [Sides -> Seq(Msgs)]
      BY <3>1, <3>2, Sending
    <3> QED BY <2>1, <3>2, <3>3
  <2>5. (q.sig = "have-local") <=> (q.local # NoOffer)
    BY <1>0, <2>1, <2>2, <2>3 DEF IsAnswered, IsOffered, IsOfferTaken, IsAnswerTaken, IsRefused
  <2> QED BY <1>w, <2>1, <2>2, <2>4, <2>5
<1> QED BY <1>1, <1>2

LEMMA TypesInit == Init => TypeInv
<1> SUFFICES ASSUME Init PROVE TypeInv
  OBVIOUS
<1>1. <<>> \in Seq(Msgs) /\ 0 \in 0..MaxActs /\ 0 \in 0..MaxDrops
  BY EmptySeq, ConstantsAssumption
<1>2. \A s \in Sides : Owned(s)
  BY DEF Init, Owned, HasPeer
<1> QED BY <1>1, <1>2 DEF Init, TypeInv

LEMMA TypesStep == TypeInv /\ [Next]_vars => TypeInv'
<1> SUFFICES ASSUME TypeInv, [Next]_vars PROVE TypeInv'
  OBVIOUS
<1>1. CASE UNCHANGED vars
  BY <1>1 DEF vars, call, bounds, history, TypeInv, Owned, HasPeer
<1>2. ASSUME NEW s \in Sides, Learn(s) PROVE TypeInv'
  BY <1>2 DEF Learn, call, bounds, history, TypeInv, Owned, HasPeer
<1>3. CASE Next
  BY <1>2, <1>3, UserTypes, SocketTypes, ReceiveTypes, BrowserTypes DEF Next, Work
<1> QED BY <1>1, <1>3

LEMMA TypesHold == Spec => []TypeInv
BY TypesInit, TypesStep, PTL DEF Spec

\* The member lists, and whether a signal was dropped for want of its sender.
ListsInv == knows \in [Sides -> BOOLEAN] /\ unheeded \in BOOLEAN

LEMMA ListsStep == ListsInv /\ [Next]_vars => ListsInv'
<1> SUFFICES ASSUME ListsInv, [Next]_vars PROVE ListsInv'
  OBVIOUS
<1>1. CASE UNCHANGED vars
  BY <1>1 DEF vars, history, ListsInv
<1>2. ASSUME NEW s \in Sides, User(s) PROVE ListsInv'
  BY <1>2 DEF User, Join, Leave, StartShare, StopShare, Click, history, ListsInv
<1>3. ASSUME NEW s \in Sides, Receive(s) PROVE ListsInv'
  BY <1>3 DEF Receive, Dropped, Heeded, Unheard, OnRoster, OnState, OnWatch, OnSdp, OnStranger, history, ListsInv
<1>4. ASSUME NEW s \in Sides, Drop(s) \/ Learn(s) \/ NegotiationNeeded(s) \/ Apply(s) \/ Reopen(s) PROVE ListsInv'
  BY <1>4 DEF Drop, Learn, NegotiationNeeded, Apply, Reopen, history, ListsInv
<1> QED BY <1>1, <1>2, <1>3, <1>4 DEF Next, Work

LEMMA ListsHold == Spec => []ListsInv
<1>1. Init => ListsInv
  BY DEF Init, ListsInv
<1> QED BY <1>1, ListsStep, PTL DEF Spec

\* Every variable keeps its type, and what a side knows of the other goes with
\* its connection to it (call.ts, dropPeer and leave).
THEOREM TypesKept == Spec => []TypeOK
<1>1. TypeInv /\ ListsInv => TypeOK
  <2> SUFFICES ASSUME TypeInv, ListsInv PROVE TypeOK
    OBVIOUS
  <2>1. Conns \union {NoPeer} \subseteq Peers
    BY DEF Conns, Peers
  <2>2. pc \in [Sides -> Peers]
    BY <2>1 DEF TypeInv
  <2>3. \A s \in Sides : Owned(s)
    BY DEF TypeInv
  <2> QED BY <2>2, <2>3 DEF TypeInv, ListsInv, TypeOK, Owned
<1> QED BY <1>1, TypesHold, ListsHold, PTL

-----------------------------------------------------------------------------
(* Who has a connection.                                                     *)

\* The last roster on the wire to s is the server's, and only if it names the
\* other does anything come after it; or there is none and nothing else either.
Due(r, s, q) ==
  \E i \in DOMAIN q : /\ q[i].t = "roster" /\ q[i].who = r
                      /\ \A j \in DOMAIN q : j > i => q[j].t # "roster" /\ Other(s) \in r
Clear(r, s, q) == \A i \in DOMAIN q : q[i].t # "roster" /\ Other(s) \in r

\* Once its last roster is read, s has a connection iff it names the other.
Told(s) ==
  s \in roster => \/ Due(roster, s, wire[s])
                  \/ Clear(roster, s, wire[s]) /\ (HasPeer(s) <=> Other(s) \in roster)

RosterInv ==
  /\ roster = {s \in Sides : joined[s] /\ online[s]}
  /\ \A s \in Sides : ~online[s] => wire[s] = <<>>
  /\ \A s \in Sides : Told(s)

\* A roster is told at the end of the wire, and other messages after it.
LEMMA DueRoster ==
  ASSUME NEW r \in SUBSET Sides, NEW s \in Sides, NEW q \in Seq(Msgs)
  PROVE  Due(r, s, Append(q, Roster(r)))
<1> DEFINE a == Append(q, Roster(r))
<1>1. /\ a[Len(q) + 1] = Roster(r) /\ Len(q) + 1 \in DOMAIN a /\ Len(q) \in Nat
      /\ \A i \in DOMAIN a : i \in DOMAIN q \/ i = Len(q) + 1
      /\ \A i \in DOMAIN q : i < Len(q) + 1 /\ i \in Nat
  BY Messages, Appends
<1>2. \A i \in DOMAIN a : ~(i > Len(q) + 1)
  BY <1>1
<1>3. Roster(r).t = "roster" /\ Roster(r).who = r
  BY Messages
<1> HIDE DEF a
<1> QED BY <1>1, <1>2, <1>3 DEF Due, a

LEMMA Posts ==
  ASSUME NEW r, NEW s \in Sides, NEW q \in Seq(Msgs), NEW m \in Msgs,
         m.t # "roster", Other(s) \in r
  PROVE  /\ Due(r, s, q) => Due(r, s, Append(q, m))
         /\ Clear(r, s, q) => Clear(r, s, Append(q, m))
<1> DEFINE a == Append(q, m)
<1>1. /\ a[Len(q) + 1] = m
      /\ \A i \in DOMAIN a : i \in DOMAIN q \/ i = Len(q) + 1
      /\ \A i \in DOMAIN q : i \in DOMAIN a /\ a[i] = q[i]
  BY Appends
<1> HIDE DEF a
<1> QED BY <1>1 DEF Due, Clear, a

\* What is taken is the last roster, or leaves it where it is.
LEMMA Takings ==
  ASSUME NEW r \in SUBSET Sides, NEW s \in Sides, NEW q \in Seq(Msgs), q # <<>>
  PROVE  /\ Due(r, s, q) => \/ Due(r, s, Tail(q))
                            \/ Head(q).t = "roster" /\ Head(q).who = r /\ Clear(r, s, Tail(q))
         /\ Clear(r, s, q) => Head(q).t # "roster" /\ Other(s) \in r /\ Clear(r, s, Tail(q))
<1>1. /\ Head(q) = q[1] /\ 1 \in DOMAIN q /\ DOMAIN q \subseteq Nat
      /\ \A i \in DOMAIN q : i # 1 => i - 1 \in DOMAIN Tail(q) /\ Tail(q)[i - 1] = q[i]
      /\ \A i \in DOMAIN Tail(q) : i + 1 \in DOMAIN q /\ Tail(q)[i] = q[i + 1] /\ i + 1 # 1
      /\ Tail(q) \in Seq(Msgs)
  BY Tails
<1>2. DOMAIN Tail(q) \subseteq Nat /\ \A i \in DOMAIN Tail(q) : i >= 1
  BY <1>1
<1>3. ASSUME Due(r, s, q)
      PROVE  Due(r, s, Tail(q)) \/ (Head(q).t = "roster" /\ Head(q).who = r /\ Clear(r, s, Tail(q)))
  <2>1. PICK i \in DOMAIN q : /\ q[i].t = "roster" /\ q[i].who = r
                              /\ \A j \in DOMAIN q : j > i => q[j].t # "roster" /\ Other(s) \in r
    BY <1>3 DEF Due
  <2>2. CASE i = 1
    <3>1. \A j \in DOMAIN Tail(q) : j + 1 > i
      BY <1>1, <1>2, <2>2
    <3> QED BY <1>1, <2>1, <2>2, <3>1 DEF Clear
  <2>3. CASE i # 1
    <3>1. i - 1 \in DOMAIN Tail(q) /\ Tail(q)[i - 1] = q[i]
      BY <1>1, <2>3
    <3>2. \A j \in DOMAIN Tail(q) : j > i - 1 => j + 1 \in DOMAIN q /\ j + 1 > i /\ Tail(q)[j] = q[j + 1]
      BY <1>1, <1>2
    <3> QED BY <2>1, <3>1, <3>2 DEF Due
  <2> QED BY <2>2, <2>3
<1>4. Clear(r, s, q) => Head(q).t # "roster" /\ Other(s) \in r /\ Clear(r, s, Tail(q))
  BY <1>1 DEF Clear
<1> QED BY <1>3, <1>4

\* The other's wire when s sends a message that is not a roster, or none.
LEMMA Posted ==
  ASSUME TypeInv, RosterInv, NEW s \in Sides, NEW m \in Msgs, m.t # "roster",
         UNCHANGED roster, HasPeer(Other(s))' <=> HasPeer(Other(s)),
         wire'[Other(s)] = wire[Other(s)] \/ (Up(s) /\ wire'[Other(s)] = Append(wire[Other(s)], m))
  PROVE  Told(Other(s))'
<1> DEFINE o == Other(s)
<1>1. Told(o) /\ o \in Sides /\ Other(o) = s /\ wire[o] \in Seq(Msgs)
  BY TheSides DEF RosterInv, TypeInv
<1>2. CASE wire'[o] = wire[o]
  BY <1>1, <1>2 DEF Told
<1>3. CASE Up(s) /\ wire'[o] = Append(wire[o], m)
  <2>1. s \in roster
    BY <1>3 DEF Up
  <2>2. /\ Due(roster, o, wire[o]) => Due(roster, o, Append(wire[o], m))
        /\ Clear(roster, o, wire[o]) => Clear(roster, o, Append(wire[o], m))
    BY <1>1, <2>1, Posts
  <2> QED BY <1>1, <1>3, <2>2 DEF Told
<1> QED BY <1>2, <1>3

LEMMA Posting ==
  ASSUME TypeInv, RosterInv, NEW s \in Sides, NEW m \in Msgs, m.t # "roster",
         wire' = Sent(s, <<m>>) \/ wire' = wire,
         UNCHANGED <<roster, online, joined>>, \A u \in Sides : HasPeer(u)' <=> HasPeer(u)
  PROVE  RosterInv'
<1>0. wire \in [Sides -> Seq(Msgs)]
  BY DEF TypeInv
<1>1. wire' = wire \/ wire' = IF Up(s) THEN [wire EXCEPT ![Other(s)] = Append(@, m)] ELSE wire
  BY <1>0, Sending
<1>2. /\ wire'[s] = wire[s]
      /\ wire'[Other(s)] = wire[Other(s)] \/ (Up(s) /\ wire'[Other(s)] = Append(wire[Other(s)], m))
  BY <1>0, <1>1, TheSides
<1>3. Told(s)'
  BY <1>2 DEF RosterInv, Told
<1>4. Told(Other(s))'
  BY <1>2, TheSides, Posted
<1>5. \A u \in Sides : ~online'[u] => wire'[u] = <<>>
  BY <1>2, TheSides DEF RosterInv, Up
<1> QED BY <1>3, <1>4, <1>5, TheSides DEF RosterInv

\* Everybody of the new roster r is told it; whoever is not in it is not told.
LEMMA Telling ==
  ASSUME TypeInv, NEW s \in Sides, NEW r \in SUBSET Sides, roster' = r, NEW q \in Seq(Msgs),
         s \in r => wire'[s] = Append(q, Roster(r))
  PROVE  Told(s)'
<1>1. s \in r => Due(r, s, wire'[s])
  BY DueRoster
<1> QED BY <1>1 DEF Told

LEMMA UserRoster ==
  ASSUME TypeInv, RosterInv, NEW s \in Sides, User(s) PROVE RosterInv'
<1> USE TheSides DEF call, history
<1>0. /\ wire \in [Sides -> Seq(Msgs)] /\ roster \in SUBSET Sides
      /\ joined \in [Sides -> BOOLEAN] /\ online \in [Sides -> BOOLEAN]
      /\ pc \in [Sides -> Conns \union {NoPeer}] /\ screen \in [Sides -> BOOLEAN]
  BY DEF TypeInv
<1>1. CASE Join(s)
  <2> DEFINE r == roster \union {s}
  <2>1. /\ r \in SUBSET Sides /\ roster' = r
        /\ \A u \in r : wire'[u] = Append(wire[u], Roster(r))
        /\ \A u \in Sides : u \notin r => wire'[u] = wire[u]
    BY <1>0, <1>1 DEF Join, Enter, RosterInv
  <2>2. ASSUME NEW u \in Sides PROVE Told(u)'
    <3>1. wire[u] \in Seq(Msgs) /\ (u \in r => wire'[u] = Append(wire[u], Roster(r)))
      BY <1>0, <2>1
    <3> HIDE DEF r
    <3> QED BY <2>1, <3>1, Telling
  <2>3. r = {u \in Sides : joined'[u] /\ online'[u]}
    BY <1>0, <1>1 DEF Join, RosterInv
  <2>4. \A u \in Sides : ~online'[u] => u \notin r /\ wire'[u] = <<>>
    BY <1>1, <2>1, <2>3 DEF Join, RosterInv
  <2> QED BY <2>1, <2>2, <2>3, <2>4 DEF RosterInv
<1>2. CASE Leave(s) /\ online[s]
  <2> DEFINE r == roster \ {s}
  <2>1. s \in roster
    BY <1>2 DEF Leave, RosterInv
  <2>2. /\ r \in SUBSET Sides /\ roster' = r
        /\ \A u \in r : wire'[u] = Append(wire[u], Roster(r))
        /\ \A u \in Sides : u \notin r => wire'[u] = wire[u]
    <3>1. /\ roster' = r
          /\ wire' = [u \in Sides |-> IF u \in roster \ {s} /\ s \in roster /\ online[u]
                                      THEN Append(wire[u], Roster(roster \ {s})) ELSE wire[u]]
      BY <1>2 DEF Leave, Exit
    <3>2. \A u \in r : online[u] /\ u \in Sides
      BY DEF RosterInv
    <3> QED BY <1>0, <2>1, <3>1, <3>2
  <2>3. \A u \in Sides : Told(u)'
    BY <1>0, <2>2, Telling
  <2>4. r = {u \in Sides : joined'[u] /\ online'[u]}
    BY <1>0, <1>2 DEF Leave, Forget, RosterInv
  <2>5. \A u \in Sides : ~online'[u] => u \notin r /\ wire'[u] = <<>>
    BY <1>2, <2>2, <2>4 DEF Leave, RosterInv
  <2> QED BY <2>2, <2>3, <2>4, <2>5 DEF RosterInv
<1>3. CASE Leave(s) /\ ~online[s]
  <2>1. s \notin roster /\ UNCHANGED <<roster, wire, online>>
    BY <1>3 DEF Leave, RosterInv
  <2>2. joined' = [joined EXCEPT ![s] = FALSE] /\ (HasPeer(Other(s))' <=> HasPeer(Other(s)))
    BY <1>0, <1>3 DEF Leave, Forget, HasPeer
  <2>3. Told(s)' /\ Told(Other(s))'
    BY <2>1, <2>2 DEF RosterInv, Told
  <2> QED BY <1>0, <1>3, <2>1, <2>2, <2>3 DEF RosterInv
<1>4. CASE StartShare(s)
  <2>1. /\ UNCHANGED <<roster, online, joined>> /\ \A u \in Sides : HasPeer(u)' <=> HasPeer(u)
        /\ \/ wire' = Sent(s, <<[Msg("state") EXCEPT !.on = TRUE]>>)
           \/ wire' = wire
    BY <1>4 DEF StartShare, HasPeer
  <2>2. /\ [Msg("state") EXCEPT !.on = TRUE] \in Msgs
        /\ [Msg("state") EXCEPT !.on = TRUE].t = "state"
    BY Messages
  <2> QED BY <2>1, <2>2, Posting
<1>5. CASE StopShare(s)
  <2>1. Untracked(s)[s] # NoPeer <=> HasPeer(s)
    BY Untracking
  <2>2. \A u \in Sides : HasPeer(u)' <=> HasPeer(u)
    BY <1>0, <1>5, <2>1 DEF StopShare, HasPeer, Untracked
  <2>3. /\ UNCHANGED <<roster, online, joined>> /\ (wire' = Sent(s, <<Msg("state")>>) \/ wire' = wire)
    BY <1>5 DEF StopShare
  <2>4. Msg("state") \in Msgs /\ Msg("state").t # "roster"
    BY Messages
  <2> QED BY <2>2, <2>3, <2>4, Posting
<1>6. CASE Click(s)
  <2>1. PICK on \in BOOLEAN : on = ~watching[s]
    OBVIOUS
  <2>2. /\ UNCHANGED <<roster, online, joined>> /\ \A u \in Sides : HasPeer(u)' <=> HasPeer(u)
        /\ wire' = Sent(s, Asks(s, on)) \/ wire' = wire
    BY <1>6, <2>1 DEF Click, SetWatching, HasPeer
  <2>3. Asks(s, on) = <<>> \/ Asks(s, on) = <<Watch(on)>>
    BY <1>0, Asking
  <2>4. Watch(on) \in Msgs /\ Watch(on).t = "watch" /\ Sent(s, <<>>) = wire
    BY <1>0, Messages, Sending
  <2>5. wire' = Sent(s, <<Watch(on)>>) \/ wire' = wire
    BY <2>2, <2>3, <2>4
  <2> QED BY <2>2, <2>4, <2>5, Posting
<1> QED BY <1>1, <1>2, <1>3, <1>4, <1>5, <1>6 DEF User

LEMMA SocketRoster ==
  ASSUME TypeInv, RosterInv, NEW s \in Sides, Drop(s) \/ Reopen(s) PROVE RosterInv'
<1> USE TheSides DEF call, history
<1>0. /\ wire \in [Sides -> Seq(Msgs)] /\ roster \in SUBSET Sides /\ online \in [Sides -> BOOLEAN]
      /\ joined \in [Sides -> BOOLEAN]
  BY DEF TypeInv
<1>p. \A u \in Sides : HasPeer(u)' <=> HasPeer(u)
  BY DEF Drop, Reopen, HasPeer
<1>1. CASE Drop(s)
  <2> DEFINE r == roster \ {s}
             w == [wire EXCEPT ![s] = <<>>]
  <2>1. /\ r \in SUBSET Sides /\ roster' = r /\ w[s] = <<>>
        /\ online' = [online EXCEPT ![s] = FALSE] /\ UNCHANGED joined
        /\ \A u \in Sides : u # s => w[u] = wire[u]
        /\ wire' = [u \in Sides |-> IF u \in roster \ {s} /\ s \in roster /\ online[u]
                                THEN Append(w[u], Roster(roster \ {s})) ELSE w[u]]
    BY <1>0, <1>1 DEF Drop, Exit
  <2> HIDE DEF w
  <2>2. /\ s \in roster => \A u \in r : wire'[u] = Append(wire[u], Roster(r))
        /\ s \notin roster => \A u \in r : wire'[u] = wire[u]
        /\ \A u \in Sides : u \notin r => wire'[u] = w[u]
    BY <1>0, <2>1 DEF RosterInv
  <2>3. r = {u \in Sides : joined'[u] /\ online'[u]}
    BY <1>0, <2>1 DEF RosterInv
  <2>4. \A u \in Sides : ~online'[u] => u \notin r /\ wire'[u] = <<>>
    <3>1. wire'[s] = <<>>
      BY <2>1, <2>2
    <3>2. \A u \in Sides : u # s => (online'[u] <=> online[u])
      BY <1>0, <2>1
    <3> QED BY <2>1, <2>2, <2>3, <3>1, <3>2 DEF RosterInv
  <2>5. CASE s \in roster
    <3>1. \A u \in Sides : Told(u)'
      BY <1>0, <2>1, <2>2, <2>5, Telling
    <3> QED BY <2>1, <2>3, <2>4, <3>1 DEF RosterInv
  <2>6. CASE s \notin roster
    <3>1. \A u \in Sides : Told(u)'
      <4>1. \A u \in Sides : u \in r => wire'[u] = wire[u] /\ Told(u) /\ roster' = roster
        BY <2>1, <2>2, <2>6 DEF RosterInv
      <4> QED BY <1>p, <2>1, <4>1 DEF Told
    <3> QED BY <2>1, <2>3, <2>4, <3>1 DEF RosterInv
  <2> QED BY <2>5, <2>6
<1>2. CASE Reopen(s)
  <2>1. /\ online' = [online EXCEPT ![s] = TRUE] /\ UNCHANGED joined /\ wire[s] = <<>> /\ s \notin roster
    BY <1>2 DEF Reopen, RosterInv
  <2>2. CASE joined[s]
    <3> DEFINE r == roster \union {s}
    <3>1. /\ r \in SUBSET Sides /\ roster' = r
          /\ \A u \in r : wire'[u] = Append(wire[u], Roster(r))
          /\ \A u \in Sides : u \notin r => wire'[u] = wire[u]
      <4>1. /\ roster' = r
            /\ wire' = [u \in Sides |-> IF u = s \/ u \in roster
                          THEN Append(wire[u], Roster(roster \union {s})) ELSE wire[u]]
        BY <1>2, <2>2 DEF Reopen
      <4> QED BY <1>0, <4>1
    <3>2. \A u \in Sides : Told(u)'
      BY <1>0, <3>1, Telling
    <3>3. r = {u \in Sides : joined'[u] /\ online'[u]}
      BY <1>0, <2>1, <2>2 DEF RosterInv
    <3>4. \A u \in Sides : ~online'[u] => u \notin r /\ wire'[u] = <<>>
      BY <1>0, <2>1, <3>1, <3>3 DEF RosterInv
    <3> QED BY <3>1, <3>2, <3>3, <3>4 DEF RosterInv
  <2>3. CASE ~joined[s]
    <3>1. UNCHANGED <<roster, wire>>
      BY <1>2, <2>3 DEF Reopen
    <3>2. \A u \in Sides : Told(u)'
      BY <1>p, <3>1 DEF RosterInv, Told
    <3>3. roster = {u \in Sides : joined'[u] /\ online'[u]}
      BY <1>0, <2>1, <2>3 DEF RosterInv
    <3>4. \A u \in Sides : ~online'[u] => wire'[u] = <<>>
      BY <1>0, <2>1, <3>1 DEF RosterInv
    <3> QED BY <3>1, <3>2, <3>3, <3>4 DEF RosterInv
  <2> QED BY <2>2, <2>3
<1> QED BY <1>1, <1>2

LEMMA ReceiveRoster ==
  ASSUME TypeInv, RosterInv, NEW s \in Sides, Receive(s) PROVE RosterInv'
<1> USE TheSides DEF call, history, bounds
<1> DEFINE m == Head(wire[s])
           o == Other(s)
<1>0. /\ wire[s] # <<>> /\ UNCHANGED <<roster, online>> /\ m \in Msgs
      /\ wire \in [Sides -> Seq(Msgs)] /\ roster \in SUBSET Sides /\ online[s]
      /\ Rest(s)[s] = Tail(wire[s]) /\ Rest(s)[o] = wire[o] /\ wire[s] \in Seq(Msgs)
      /\ Rest(s) \in [Sides -> Seq(Msgs)] /\ pc \in [Sides -> Conns \union {NoPeer}]
  BY Resting DEF Receive, TypeInv
<1>1. /\ Due(roster, s, wire[s]) => \/ Due(roster, s, Tail(wire[s]))
                                    \/ m.t = "roster" /\ m.who = roster /\ Clear(roster, s, Tail(wire[s]))
      /\ Clear(roster, s, wire[s]) => m.t # "roster" /\ o \in roster /\ Clear(roster, s, Tail(wire[s]))
  BY <1>0, Takings
<1> HIDE DEF m
<1>2. joined' = joined
  BY DEF Receive, Unheard, Dropped, Heeded, OnRoster, OnState, OnWatch, OnSdp, OnStranger
<1>w. ASSUME wire'[o] = wire[o] \/ (\E p \in Msgs : p.t # "roster" /\ Up(s) /\ wire'[o] = Append(wire[o], p)),
             HasPeer(o)' <=> HasPeer(o), Told(s)', s \in roster \/ wire'[s] = Tail(wire[s])
      PROVE  RosterInv'
  <2>1. Told(o)'
    <3>1. PICK p \in Msgs : p.t # "roster" /\ (wire'[o] = wire[o] \/ (Up(s) /\ wire'[o] = Append(wire[o], p)))
      BY <1>w, Messages
    <3> QED BY <1>0, <1>w, <3>1, Posted
  <2>2. \A u \in Sides : ~online'[u] => wire'[u] = <<>>
    <3>1. ~online[o] => wire'[o] = <<>>
      BY <1>w DEF RosterInv, Up
    <3> QED BY <1>0, <3>1
  <2> QED BY <1>0, <1>2, <1>w, <2>1, <2>2 DEF RosterInv
\* What is taken is no roster, and s keeps the connection it has, if any.
<1>k. ASSUME wire'[s] = Tail(wire[s]), (HasPeer(s)' <=> HasPeer(s)), m.t # "roster" PROVE Told(s)'
  BY <1>0, <1>1, <1>k DEF RosterInv, Told
<1>3. CASE Unheard(s)
  <2>1. wire' = Rest(s) /\ pc' = pc /\ s \notin roster
    BY <1>3 DEF Unheard, RosterInv
  <2>2. Told(s)'
    BY <1>0, <2>1 DEF Told
  <2> QED BY <1>0, <1>w, <2>1, <2>2 DEF HasPeer
<1>4. CASE joined[s] /\ OnRoster(s, m)
  <2>1. CASE o \notin m.who
    <3>1. pc' = [pc EXCEPT ![s] = NoPeer] /\ wire' = Rest(s) /\ m.t = "roster"
      BY <1>4, <2>1 DEF OnRoster, DropPeer
    <3>2. ~HasPeer(s)' /\ (HasPeer(o)' <=> HasPeer(o))
      BY <1>0, <3>1 DEF HasPeer
    <3>3. Told(s)'
      BY <1>0, <1>1, <2>1, <3>1, <3>2 DEF RosterInv, Told
    <3> QED BY <1>0, <1>w, <3>1, <3>2, <3>3
  <2>2. CASE o \in m.who /\ HasPeer(s)
    <3>1. pc' = pc /\ wire' = Rest(s) /\ m.t = "roster"
      BY <1>4, <2>2 DEF OnRoster
    <3>2. HasPeer(s)' /\ (HasPeer(o)' <=> HasPeer(o))
      BY <2>2, <3>1 DEF HasPeer
    <3>3. Told(s)'
      BY <1>0, <1>1, <2>2, <3>1, <3>2 DEF RosterInv, Told
    <3> QED BY <1>0, <1>w, <3>1, <3>2, <3>3
  <2>3. CASE o \in m.who /\ ~HasPeer(s)
    <3>1. Create(s, Rest(s)) /\ m.t = "roster"
      BY <1>4, <2>3 DEF OnRoster
    <3>2. /\ pc' = [pc EXCEPT ![s] = NewPeer(s)] /\ NewPeer(s) \in Conns
          /\ wire' = IF Up(s) THEN [Rest(s) EXCEPT ![o] = Append(@, State(s))] ELSE Rest(s)
      BY <1>0, <3>1, Creating
    <3>3. HasPeer(s)' /\ (HasPeer(o)' <=> HasPeer(o))
      BY <1>0, <3>2, ConnsArePeers DEF HasPeer
    <3>4. /\ wire'[s] = Tail(wire[s])
          /\ wire'[o] = wire[o] \/ (Up(s) /\ wire'[o] = Append(wire[o], State(s)))
      BY <1>0, <3>2
    <3>5. State(s) \in Msgs /\ State(s).t # "roster"
      BY Messages DEF State, TypeInv
    <3>6. Told(s)'
      BY <1>0, <1>1, <2>3, <3>1, <3>3, <3>4 DEF RosterInv, Told
    <3> QED BY <1>w, <3>3, <3>4, <3>5, <3>6
  <2> QED BY <2>1, <2>2, <2>3
<1>5. CASE joined[s] /\ OnState(s, m)
  <2>1. PICK on \in BOOLEAN : on = (IF m.on THEN watching[s] \/ (~seesLive[s] /\ AutoWatch[s]) ELSE FALSE)
    BY ConstantsAssumption DEF TypeInv
  <2>2. /\ m.t = "state" /\ pc' = pc
        /\ wire' = [Rest(s) EXCEPT ![Other(s)] = IF Up(s) THEN @ \o Asks(s, on) ELSE @]
    BY <1>5, <2>1 DEF OnState
  <2>3. /\ wire'[s] = Tail(wire[s])
        /\ wire'[o] = wire[o] \/ (Up(s) /\ wire'[o] = Append(wire[o], Watch(on)))
    BY <1>0, <2>2, Answering
  <2>4. Watch(on) \in Msgs /\ Watch(on).t # "roster"
    BY Messages
  <2>5. \A u \in Sides : HasPeer(u)' <=> HasPeer(u)
    BY <2>2 DEF HasPeer
  <2> QED BY <1>k, <1>w, <2>2, <2>3, <2>4, <2>5
<1>6. CASE joined[s] /\ OnWatch(s, m)
  <2>1. wire' = Rest(s) /\ m.t = "watch" /\ HasPeer(s)
    BY <1>6 DEF OnWatch
  <2>2. HasPeer(s)' /\ (HasPeer(o)' <=> HasPeer(o))
    <3>1. pc[s] \in Conns
      BY <1>0, <2>1 DEF HasPeer
    <3>2. CASE pc' = pc
      BY <2>1, <3>2 DEF HasPeer
    <3>3. CASE pc' = Untracked(s)
      BY <1>0, <2>1, <3>3, Untracking DEF HasPeer, Untracked
    <3>4. CASE pc' = [pc EXCEPT ![s].tracks = @ \union {"screen"}]
      <4>1. [pc[s] EXCEPT !.tracks = @ \union {"screen"}] \in Conns
        BY <3>1 DEF Conns, Tracks
      <4> QED BY <1>0, <3>1, <3>4, <4>1, ConnsArePeers DEF HasPeer
    <3> QED BY <1>6, <3>2, <3>3, <3>4 DEF OnWatch
  <2> QED BY <1>0, <1>k, <1>w, <2>1, <2>2
<1>7. CASE joined[s] /\ OnSdp(s, m)
  <2>1. wire' = Rest(s) /\ m.t \in {"offer", "answer"} /\ HasPeer(s)
    BY <1>7 DEF OnSdp
  <2>2. HasPeer(s)' /\ (HasPeer(o)' <=> HasPeer(o))
    <3>1. pc[s] \in Conns /\ [op |-> m.t, d |-> m.d] \in Ops
      BY <1>0, <2>1 DEF HasPeer, Ops, Msgs
    <3>2. CASE pc' = pc
      BY <2>1, <3>2 DEF HasPeer
    <3>3. CASE pc' = [pc EXCEPT ![s].chain = Append(@, [op |-> m.t, d |-> m.d])]
      <4>1. [pc[s] EXCEPT !.chain = Append(@, [op |-> m.t, d |-> m.d])] \in Conns
        BY <3>1, Chaining
      <4> QED BY <1>0, <3>1, <3>3, <4>1, ConnsArePeers DEF HasPeer
    <3> QED BY <1>7, <3>2, <3>3 DEF OnSdp
  <2> QED BY <1>0, <1>k, <1>w, <2>1, <2>2
<1>8. CASE joined[s] /\ OnStranger(s, m)
  <2>1. Create(s, wire) /\ m.t # "roster" /\ ~HasPeer(s) /\ s \in roster
    BY <1>0, <1>8 DEF OnStranger, RosterInv
  <2>2. /\ pc' = [pc EXCEPT ![s] = NewPeer(s)] /\ NewPeer(s) \in Conns
        /\ wire' = IF Up(s) THEN [wire EXCEPT ![o] = Append(@, State(s))] ELSE wire
    BY <1>0, <2>1, Creating
  <2>3. /\ wire'[s] = wire[s] /\ (HasPeer(o)' <=> HasPeer(o))
        /\ wire'[o] = wire[o] \/ (Up(s) /\ wire'[o] = Append(wire[o], State(s)))
    BY <1>0, <2>2 DEF HasPeer
  <2>4. State(s) \in Msgs /\ State(s).t # "roster"
    BY Messages DEF State, TypeInv
  <2>5. Due(roster, s, wire[s])
    BY <1>1, <2>1 DEF RosterInv, Told
  <2>6. Told(s)'
    BY <1>0, <2>3, <2>5 DEF Told
  <2> QED BY <1>w, <2>1, <2>3, <2>4, <2>6
<1>9. CASE joined[s] /\ Dropped(s, m)
  <2>1. wire' = Rest(s) /\ pc' = pc /\ m.t # "roster"
    BY <1>9 DEF Dropped
  <2>2. HasPeer(s)' <=> HasPeer(s)
    BY <2>1 DEF HasPeer
  <2>3. HasPeer(o)' <=> HasPeer(o)
    BY <2>1 DEF HasPeer
  <2>4. Told(s)'
    BY <1>0, <1>k, <2>1, <2>2
  <2> QED BY <1>0, <1>w, <2>1, <2>3, <2>4
<1> QED BY <1>3, <1>4, <1>5, <1>6, <1>7, <1>8, <1>9 DEF Receive, Heeded, m

LEMMA BrowserRoster ==
  ASSUME TypeInv, RosterInv, NEW s \in Sides, NegotiationNeeded(s) \/ Apply(s) PROVE RosterInv'
<1>0. \A q \in Conns : pc[s] \in Conns /\ pc' = [pc EXCEPT ![s] = q] =>
                         \A u \in Sides : HasPeer(u)' <=> HasPeer(u)
  BY ConnsArePeers DEF HasPeer, TypeInv
<1>1. CASE NegotiationNeeded(s)
  <2>1. /\ UNCHANGED <<roster, online, wire, joined>> /\ \A u \in Sides : HasPeer(u)' <=> HasPeer(u)
    BY <1>0, <1>1, Begun DEF call
  <2> QED BY <2>1, Posting, Messages
<1>2. CASE Apply(s)
  <2>1. PICK q \in Conns :
          /\ pc' = [pc EXCEPT ![s] = q]
          /\ \/ wire' = Sent(s, <<[Msg("answer") EXCEPT !.d = Answer(pc[s])]>>)
             \/ wire' = Sent(s, <<[Msg("offer") EXCEPT !.d = Offer(pc[s])]>>)
             \/ UNCHANGED wire
    BY <1>2, Applied
  <2>2. pc[s] \in Conns /\ UNCHANGED <<roster, online, joined>>
    BY <1>2, Applied DEF call
  <2>3. /\ Offer(pc[s]) \in Descs /\ Answer(pc[s]) \in Descs
    BY <2>2, Described
  <2>4. \E p \in Msgs : p.t # "roster" /\ (wire' = Sent(s, <<p>>) \/ wire' = wire)
    <3>1. /\ [Msg("answer") EXCEPT !.d = Answer(pc[s])] \in Msgs
          /\ [Msg("offer") EXCEPT !.d = Offer(pc[s])] \in Msgs
          /\ [Msg("answer") EXCEPT !.d = Answer(pc[s])].t = "answer"
          /\ [Msg("offer") EXCEPT !.d = Offer(pc[s])].t = "offer"
      BY <2>3, Messages
    <3> QED BY <2>1, <3>1
  <2> QED BY <1>0, <2>1, <2>2, <2>4, Posting
<1> QED BY <1>1, <1>2

LEMMA RosterStep == TypeInv /\ RosterInv /\ [Next]_vars => RosterInv'
<1> SUFFICES ASSUME TypeInv, RosterInv, [Next]_vars PROVE RosterInv'
  OBVIOUS
<1>1. CASE UNCHANGED vars
  BY <1>1 DEF vars, call, bounds, history, RosterInv, Told, HasPeer
<1>2. ASSUME NEW s \in Sides, Learn(s) PROVE RosterInv'
  BY <1>2 DEF Learn, call, RosterInv, Told, HasPeer
<1>3. CASE Next
  BY <1>2, <1>3, UserRoster, SocketRoster, ReceiveRoster, BrowserRoster DEF Next, Work
<1> QED BY <1>1, <1>3

LEMMA RosterInit == Init => RosterInv
BY DEF Init, RosterInv, Told

\* Once nothing is under way, the two of a call have a connection to each other
\* and nobody else has one (call.ts, onRoster, onPeerLeft and the handling of a
\* signal from somebody unknown).
THEOREM PeersMatchRosterHolds == Spec => []PeersMatchRoster
<1>1. TypeInv /\ RosterInv => PeersMatchRoster
  <2> SUFFICES ASSUME TypeInv, RosterInv, Quiet PROVE PeersMatchRoster
    BY DEF PeersMatchRoster
  <2>1. \A s \in Sides : online[s] /\ wire[s] = <<>>
    BY DEF Quiet, Idle
  <2>2. \A s \in Sides : s \in roster => (HasPeer(s) <=> Other(s) \in roster)
    BY <2>1 DEF RosterInv, Told, Due
  <2>3. \A s \in Sides : s \notin roster => ~HasPeer(s)
    BY <2>1 DEF RosterInv, TypeInv, Owned
  <2>4. \A s \in Sides : (Sides = roster) <=> (s \in roster /\ Other(s) \in roster)
    BY TheSides DEF RosterInv
  <2>5. \A s \in Sides : HasPeer(s) <=> Sides = roster
    BY <2>2, <2>3, <2>4
  <2>6. roster = {s \in Sides : joined[s]}
    BY <2>1 DEF RosterInv
  <2> QED BY <2>5, <2>6 DEF PeersMatchRoster
<1>2. Init => TypeInv /\ RosterInv
  BY TypesInit, RosterInit
<1>3. TypeInv /\ RosterInv /\ [Next]_vars => (TypeInv /\ RosterInv)'
  BY TypesStep, RosterStep
<1> QED BY <1>1, <1>2, <1>3, PTL DEF Spec

-----------------------------------------------------------------------------
(* What is on a wire.                                                        *)

Sdp == {"offer", "answer"}
OfferIn(q, id) == \E i \in DOMAIN q : q[i].t = "offer" /\ q[i].d.id = id
AnswerIn(q, id) == \E i \in DOMAIN q : q[i].t = "answer" /\ q[i].d.id = id
HasOffer(q) == \E i \in DOMAIN q : q[i].t = "offer"
HasAnswer(q) == \E i \in DOMAIN q : q[i].t = "answer"

\* An offer after which there is no answer: whoever made it may still want one.
Open(q, id) ==
  \E i \in DOMAIN q : /\ q[i].t = "offer" /\ q[i].d.id = id
                      /\ \A k \in DOMAIN q : q[k].t = "answer" => k < i

\* How offers and answers may follow each other.
OneOffer(q) == \A i, j \in DOMAIN q : q[i].t = "offer" /\ q[j].t = "offer" => i = j
OneAnswer(q) == \A i, j \in DOMAIN q : q[i].t = "answer" /\ q[j].t = "answer" => i = j
AnswersFirst(q) == \A i, k \in DOMAIN q : q[k].t = "answer" /\ q[i].t = "offer" => k < i
Apart(q) ==
  \A i, j \in DOMAIN q : q[i].t = "offer" /\ q[j].t = "offer" /\ i < j =>
    \E k \in DOMAIN q : q[k].t = "answer" /\ i < k /\ k < j

\* The descriptions are of connection g and have a line for the voice.
Fits(d, g) == d.gen = g /\ "mic" \in d.lines
FitsAll(q, g) == \A i \in DOMAIN q : q[i].t \in Sdp => Fits(q[i].d, g)

\* A roster that names s alone; it comes first, or last.
Alone(s, m) == m.t = "roster" /\ Other(s) \notin m.who
HasAlone(s, q) == \E i \in DOMAIN q : Alone(s, q[i])
AloneLast(s, q) == \A i \in DOMAIN q : Alone(s, q[i]) => i = Len(q)
AloneFirst(s, q) ==
  \A i \in DOMAIN q : Alone(s, q[i]) => i = Len(q) \/ \A j \in DOMAIN q : j < i => Alone(s, q[j])
AloneLate(s, q) == \E i, j \in DOMAIN q : j < i /\ Alone(s, q[i]) /\ ~Alone(s, q[j])
\* Only after a roster with both does anything else come.
RosterFirst(s, q) ==
  \A i \in DOMAIN q : q[i].t # "roster" =>
    \E j \in DOMAIN q : j < i /\ q[j].t = "roster" /\ Other(s) \in q[j].who
Named(q) == \A i \in DOMAIN q : q[i].t # "roster" => q[i].who = {}

-----------------------------------------------------------------------------
(* The negotiation, between connections that know each other.                *)

OpIn(c, op) == \E i \in DOMAIN c : c[i].op = op
OfferOp(c, id) == \E i \in DOMAIN c : c[i].op = "offer" /\ c[i].d.id = id

\* What the operations chain of s can hold: the impolite side takes an offer
\* only when it has nothing of its own, and answers come to who waits for one.
Shape(s, p) ==
  \/ p.chain = <<>> /\ p.sig \in {"stable", "have-local"} /\ ~p.makingOffer
  \/ p.chain = <<Local>> /\ p.sig = "stable" /\ p.makingOffer
  \/ p.chain = <<Local>> /\ p.sig = "have-remote" /\ ~p.makingOffer
  \/ \E o \in Ops : /\ o.op = "offer" /\ p.chain = <<o>> /\ ~p.makingOffer
                    /\ (p.sig = "stable" \/ (s = "lo" /\ p.sig = "have-local"))
  \/ \E a \in Ops : /\ a.op = "answer" /\ p.chain = <<a>> /\ ~p.makingOffer
                    /\ p.sig = "have-local" /\ a.d.id = p.local.id
  \/ \E o \in Ops : /\ s = "lo" /\ o.op = "offer" /\ p.chain = <<Local, o>> /\ p.makingOffer
                    /\ p.sig = "stable"
  \/ \E a, o \in Ops : /\ s = "lo" /\ a.op = "answer" /\ o.op = "offer" /\ p.chain = <<a, o>>
                       /\ ~p.makingOffer /\ p.sig = "have-local" /\ a.d.id = p.local.id

Both == joined["lo"] /\ joined["hi"]
HasRemote(s) == HasPeer(s) /\ pc[s].sig = "have-remote"
\* The offer s is going to answer.
Takes(s, id) == HasPeer(s) /\ (OfferOp(pc[s].chain, id) \/ (pc[s].sig = "have-remote" /\ pc[s].remote.id = id))
Taken(s) == HasPeer(s) /\ (OpIn(pc[s].chain, "offer") \/ pc[s].sig = "have-remote")
\* The offer s has made and waits about.
Waits(s, id) == HasPeer(s) /\ pc[s].sig = "have-local" /\ pc[s].local.id = id
Free(s) == HasPeer(s) /\ pc[s].chain = <<>>
Answered(s) == HasAnswer(wire[s]) \/ (HasPeer(s) /\ OpIn(pc[s].chain, "answer"))

\* Who is alone in the call hears of it in the end, and first of who joins.
Heard(s) ==
  joined[s] =>
    IF HasPeer(s)
      THEN AloneLast(s, wire[s]) /\ (HasAlone(s, wire[s]) => ~joined[Other(s)])
      ELSE /\ AloneFirst(s, wire[s]) /\ RosterFirst(s, wire[s])
           /\ AloneLate(s, wire[s]) => ~joined[Other(s)]

AnswersWaited(s) ==
  joined[s] => /\ OneAnswer(wire[s])
               /\ \A id \in Nat : AnswerIn(wire[s], id) => Waits(s, id) /\ Free(s)

ToLo == /\ OneOffer(wire["lo"]) /\ (joined["lo"] => AnswersFirst(wire["lo"]))
        /\ Taken("lo") => ~HasOffer(wire["lo"])
ToHi == /\ Apart(wire["hi"])
        /\ Taken("hi") => ~HasOffer(wire["hi"])

Hearing == \A s \in Sides : online[s] /\ Named(wire[s]) /\ Heard(s)
Matching ==
  /\ \A s \in Sides : AnswersWaited(s) /\ (HasPeer(s) => Shape(s, pc[s]))
  /\ ToLo /\ ToHi

\* The impolite side waits until its offer is answered; the polite one unless it
\* gives way, or its offer was ignored for one that it answered.
OffersOfHi ==
  \A id \in Nat : Takes("lo", id) \/ OfferIn(wire["lo"], id) =>
    Waits("hi", id) /\ Free("hi") /\ ~HasAnswer(wire["hi"])
OffersOfLo ==
  /\ \A id \in Nat : Takes("hi", id) =>
       Waits("lo", id) /\ Free("lo") /\ ~HasOffer(wire["lo"]) /\ ~HasAnswer(wire["lo"])
  /\ \A id \in Nat : Open(wire["hi"], id) => HasRemote("lo") \/ (Waits("lo", id) /\ ~Answered("lo"))
  /\ Answered("lo") => ~HasOffer(wire["hi"]) /\ ~Taken("hi")

\* Descriptions are of the connection the other side has, and carry the voice.
Voiced(s) ==
  HasPeer(s) =>
    /\ "mic" \in pc[s].tracks
    /\ pc[s].sig = "have-local" => "mic" \in pc[s].local.tracks
    /\ pc[s].sig = "have-remote" => "mic" \in pc[s].remote.lines
    /\ \A i \in DOMAIN pc[s].chain : pc[s].chain[i].op \in Sdp =>
         HasPeer(Other(s)) /\ Fits(pc[s].chain[i].d, pc[Other(s)].gen)
    /\ pc[s].far = 0 \/ (HasPeer(Other(s)) /\ pc[s].far = pc[Other(s)].gen)
Fitting(s) ==
  /\ HasOffer(wire[s]) \/ HasAnswer(wire[s]) => HasPeer(Other(s))
  /\ FitsAll(wire[s], pc[Other(s)].gen)

\* Whoever waits will be answered, or has been heard without: then an offer was
\* lost while an answer was applied.
HiWaits ==
  HasPeer("hi") /\ pc["hi"].sig = "have-local" =>
    HasOffer(wire["lo"]) \/ Taken("lo") \/ Answered("hi")
LoHeard == HasPeer("lo") /\ "mic" \in pc["lo"].sent
LoSpared == LoHeard /\ lostOffer
HiAnswered == Answered("hi") => LoHeard
LoWaits ==
  HasPeer("lo") /\ pc["lo"].sig = "have-local" =>
    \/ HasOffer(wire["hi"]) \/ Taken("hi") \/ Answered("lo") \/ LoSpared
    \/ HasOffer(wire["lo"]) \/ Taken("lo") \/ (HasPeer("hi") /\ pc["hi"].makingOffer)
\* Answers on the way to the impolite side came before the offer the polite one
\* waits about.
LoLate ==
  HasPeer("lo") /\ pc["lo"].sig = "have-local" /\ HasAnswer(wire["hi"]) =>
    \E id \in Nat : Open(wire["hi"], id)

Dialogue ==
  Both => /\ OffersOfHi /\ OffersOfLo /\ \A s \in Sides : Voiced(s) /\ Fitting(s)
          /\ HiWaits /\ HiAnswered /\ LoWaits /\ LoLate

CallInv == SameConnections => Hearing /\ Matching /\ Dialogue

-----------------------------------------------------------------------------
(* Taking from a wire and putting on it.                                     *)

LEMMA Parts ==
  ASSUME NEW q \in Seq(Msgs), q # <<>>
  PROVE  LET t == Tail(q)
         IN /\ t \in Seq(Msgs) /\ Head(q) \in Msgs /\ Head(q) = q[1] /\ 1 \in DOMAIN q
            /\ \A i \in DOMAIN q : i \in Nat /\ i >= 1
            /\ \A i \in DOMAIN t : i \in Nat /\ i >= 1 /\ i + 1 \in DOMAIN q /\ t[i] = q[i + 1]
            /\ \A i \in DOMAIN q : i # 1 => i - 1 \in DOMAIN t /\ t[i - 1] = q[i]
            /\ Len(q) \in Nat /\ Len(t) = Len(q) - 1
<1>1. Tail(q) \in Seq(Msgs)
  BY Tails
<1> QED BY <1>1, Tails

\* What is left of a wire has no more than there was.
LEMMA TailLess ==
  ASSUME NEW q \in Seq(Msgs), q # <<>>
  PROVE  LET t == Tail(q)
         IN /\ \A id \in Nat : OfferIn(t, id) => OfferIn(q, id)
            /\ \A id \in Nat : AnswerIn(t, id) => AnswerIn(q, id)
            /\ HasOffer(t) => HasOffer(q)
            /\ HasAnswer(t) => HasAnswer(q)
            /\ OneOffer(q) => OneOffer(t)
            /\ OneAnswer(q) => OneAnswer(t)
            /\ AnswersFirst(q) => AnswersFirst(t)
            /\ Apart(q) => Apart(t)
            /\ \A g \in Nat : FitsAll(q, g) => FitsAll(t, g)
            /\ Named(q) => Named(t)
<1> DEFINE t == Tail(q)
<1>1. /\ \A i \in DOMAIN q : i \in Nat /\ i >= 1
      /\ \A i \in DOMAIN t : i \in Nat /\ i >= 1 /\ i + 1 \in DOMAIN q /\ t[i] = q[i + 1]
      /\ \A i \in DOMAIN q : i # 1 => i - 1 \in DOMAIN t /\ t[i - 1] = q[i]
  BY Parts
<1> HIDE DEF t
<1>2. \A id \in Nat : (OfferIn(t, id) => OfferIn(q, id)) /\ (AnswerIn(t, id) => AnswerIn(q, id))
  BY <1>1 DEF OfferIn, AnswerIn
<1>3. (HasOffer(t) => HasOffer(q)) /\ (HasAnswer(t) => HasAnswer(q))
  BY <1>1 DEF HasOffer, HasAnswer
<1>4. OneOffer(q) => OneOffer(t)
  BY <1>1 DEF OneOffer
<1>5. OneAnswer(q) => OneAnswer(t)
  BY <1>1 DEF OneAnswer
<1>6. AnswersFirst(q) => AnswersFirst(t)
  BY <1>1 DEF AnswersFirst
<1>7. Apart(q) => Apart(t)
  <2> SUFFICES ASSUME Apart(q), NEW i \in DOMAIN t, NEW j \in DOMAIN t,
                      t[i].t = "offer", t[j].t = "offer", i < j
               PROVE  \E k \in DOMAIN t : t[k].t = "answer" /\ i < k /\ k < j
    BY DEF Apart
  <2>1. i + 1 < j + 1 /\ i + 1 \in DOMAIN q /\ j + 1 \in DOMAIN q /\ q[i + 1] = t[i] /\ q[j + 1] = t[j]
    BY <1>1
  <2>2. PICK k \in DOMAIN q : q[k].t = "answer" /\ i + 1 < k /\ k < j + 1
    BY <2>1 DEF Apart
  <2>3. k # 1 /\ i < k - 1 /\ k - 1 < j
    BY <1>1, <2>2
  <2> QED BY <1>1, <2>2, <2>3
<1>8. \A g \in Nat : FitsAll(q, g) => FitsAll(t, g)
  BY <1>1 DEF FitsAll
<1>9. Named(q) => Named(t)
  BY <1>1 DEF Named
<1> QED BY <1>2, <1>3, <1>4, <1>5, <1>6, <1>7, <1>8, <1>9 DEF t

\* A message that is no description leaves them as they are when it is taken.
LEMMA TailOther ==
  ASSUME NEW q \in Seq(Msgs), q # <<>>, Head(q).t \notin Sdp
  PROVE  LET t == Tail(q)
         IN /\ \A id \in Nat : OfferIn(q, id) => OfferIn(t, id)
            /\ \A id \in Nat : AnswerIn(q, id) => AnswerIn(t, id)
            /\ \A id \in Nat : Open(t, id) <=> Open(q, id)
            /\ HasOffer(q) => HasOffer(t)
            /\ HasAnswer(q) => HasAnswer(t)
<1> DEFINE t == Tail(q)
<1>1. /\ \A i \in DOMAIN q : i \in Nat /\ i >= 1
      /\ \A i \in DOMAIN t : i \in Nat /\ i >= 1 /\ i + 1 \in DOMAIN q /\ t[i] = q[i + 1]
      /\ \A i \in DOMAIN q : i # 1 => i - 1 \in DOMAIN t /\ t[i - 1] = q[i]
      /\ q[1].t # "offer" /\ q[1].t # "answer"
  BY Parts DEF Sdp
<1> HIDE DEF t
<1>2. \A id \in Nat : (OfferIn(q, id) => OfferIn(t, id)) /\ (AnswerIn(q, id) => AnswerIn(t, id))
  BY <1>1 DEF OfferIn, AnswerIn
<1>3. (HasOffer(q) => HasOffer(t)) /\ (HasAnswer(q) => HasAnswer(t))
  BY <1>1 DEF HasOffer, HasAnswer
<1>4. ASSUME NEW id \in Nat, Open(t, id) PROVE Open(q, id)
  <2>1. PICK i \in DOMAIN t : /\ t[i].t = "offer" /\ t[i].d.id = id
                              /\ \A k \in DOMAIN t : t[k].t = "answer" => k < i
    BY <1>4 DEF Open
  <2>2. ASSUME NEW k \in DOMAIN q, q[k].t = "answer" PROVE k < i + 1
    <3>1. k # 1
      BY <1>1, <2>2
    <3>2. k - 1 \in DOMAIN t /\ t[k - 1] = q[k]
      BY <1>1, <3>1
    <3>3. k - 1 < i /\ k \in Nat /\ i \in Nat
      BY <1>1, <2>1, <2>2, <3>2
    <3> QED BY <3>3
  <2>3. i + 1 \in DOMAIN q /\ q[i + 1] = t[i]
    BY <1>1
  <2> QED BY <2>1, <2>2, <2>3 DEF Open
<1>5. ASSUME NEW id \in Nat, Open(q, id) PROVE Open(t, id)
  <2>1. PICK i \in DOMAIN q : /\ q[i].t = "offer" /\ q[i].d.id = id
                              /\ \A k \in DOMAIN q : q[k].t = "answer" => k < i
    BY <1>5 DEF Open
  <2>2. i # 1 /\ i - 1 \in DOMAIN t /\ t[i - 1] = q[i] /\ i \in Nat
    BY <1>1, <2>1
  <2>3. ASSUME NEW k \in DOMAIN t, t[k].t = "answer" PROVE k < i - 1
    <3>1. k \in Nat /\ k + 1 \in DOMAIN q /\ q[k + 1].t = "answer"
      BY <1>1, <2>3
    <3>2. k + 1 < i
      BY <2>1, <3>1
    <3> QED BY <2>2, <3>1, <3>2
  <2> QED BY <2>1, <2>2, <2>3 DEF Open
<1> QED BY <1>2, <1>3, <1>4, <1>5 DEF t

\* An offer is taken.
LEMMA TailOffer ==
  ASSUME NEW q \in Seq(Msgs), q # <<>>, Head(q).t = "offer"
  PROVE  LET t == Tail(q)
             id == Head(q).d.id
         IN /\ OfferIn(q, id) /\ HasOffer(q)
            /\ \A x \in Nat : AnswerIn(q, x) => AnswerIn(t, x)
            /\ \A x \in Nat : Open(t, x) => Open(q, x)
            /\ HasAnswer(q) => HasAnswer(t)
            /\ OneOffer(q) => ~HasOffer(t)
            /\ AnswersFirst(q) => ~HasAnswer(q)
            /\ ~HasAnswer(q) => Open(q, id)
            /\ Apart(q) /\ ~HasAnswer(q) => ~HasOffer(t)
<1> DEFINE t == Tail(q)
<1>1. /\ \A i \in DOMAIN q : i \in Nat /\ i >= 1
      /\ \A i \in DOMAIN t : i \in Nat /\ i >= 1 /\ i + 1 \in DOMAIN q /\ t[i] = q[i + 1]
      /\ \A i \in DOMAIN q : i # 1 => i - 1 \in DOMAIN t /\ t[i - 1] = q[i]
      /\ Head(q) = q[1] /\ q[1].t = "offer" /\ 1 \in DOMAIN q
  BY Parts
<1> HIDE DEF t
<1>2. OfferIn(q, q[1].d.id) /\ HasOffer(q)
  BY <1>1 DEF OfferIn, HasOffer
<1>3. \A x \in Nat : AnswerIn(q, x) => AnswerIn(t, x)
  BY <1>1 DEF AnswerIn
<1>4. HasAnswer(q) => HasAnswer(t)
  BY <1>1 DEF HasAnswer
<1>5. OneOffer(q) => ~HasOffer(t)
  <2> SUFFICES ASSUME OneOffer(q), NEW i \in DOMAIN t, t[i].t = "offer" PROVE FALSE
    BY DEF HasOffer
  <2>1. i + 1 \in DOMAIN q /\ q[i + 1].t = "offer" /\ i + 1 # 1
    BY <1>1
  <2> QED BY <1>1, <2>1 DEF OneOffer
<1>6. AnswersFirst(q) => ~HasAnswer(q)
  BY <1>1 DEF AnswersFirst, HasAnswer
<1>7. ~HasAnswer(q) => Open(q, q[1].d.id)
  BY <1>1 DEF Open, HasAnswer
<1>8. Apart(q) /\ ~HasAnswer(q) => ~HasOffer(t)
  <2> SUFFICES ASSUME Apart(q), ~HasAnswer(q), NEW i \in DOMAIN t, t[i].t = "offer" PROVE FALSE
    BY DEF HasOffer
  <2>1. i + 1 \in DOMAIN q /\ q[i + 1].t = "offer" /\ 1 < i + 1
    BY <1>1
  <2> QED BY <1>1, <2>1 DEF Apart, HasAnswer
<1>9. ASSUME NEW x \in Nat, Open(t, x) PROVE Open(q, x)
  <2>1. PICK i \in DOMAIN t : /\ t[i].t = "offer" /\ t[i].d.id = x
                              /\ \A k \in DOMAIN t : t[k].t = "answer" => k < i
    BY <1>9 DEF Open
  <2>2. ASSUME NEW k \in DOMAIN q, q[k].t = "answer" PROVE k < i + 1
    <3>1. k # 1
      BY <1>1, <2>2
    <3>2. k - 1 \in DOMAIN t /\ t[k - 1] = q[k]
      BY <1>1, <3>1
    <3>3. k - 1 < i /\ k \in Nat /\ i \in Nat
      BY <1>1, <2>1, <2>2, <3>2
    <3> QED BY <3>3
  <2>3. i + 1 \in DOMAIN q /\ q[i + 1] = t[i]
    BY <1>1
  <2> QED BY <2>1, <2>2, <2>3 DEF Open
<1> QED BY <1>1, <1>2, <1>3, <1>4, <1>5, <1>6, <1>7, <1>8, <1>9 DEF t

\* An answer on the wire keeps what is still wanted behind it from being taken.
LEMMA TailOpen ==
  ASSUME NEW q \in Seq(Msgs), q # <<>>, HasAnswer(q), NEW id \in Nat, Open(q, id), Head(q).t = "offer"
  PROVE  Open(Tail(q), id)
<1> DEFINE t == Tail(q)
<1>1. /\ \A i \in DOMAIN q : i \in Nat /\ i >= 1
      /\ \A i \in DOMAIN t : i \in Nat /\ i >= 1 /\ i + 1 \in DOMAIN q /\ t[i] = q[i + 1]
      /\ \A i \in DOMAIN q : i # 1 => i - 1 \in DOMAIN t /\ t[i - 1] = q[i]
  BY Parts
<1> HIDE DEF t
<1>2. PICK i \in DOMAIN q : /\ q[i].t = "offer" /\ q[i].d.id = id
                            /\ \A k \in DOMAIN q : q[k].t = "answer" => k < i
  BY DEF Open
<1>3. PICK j \in DOMAIN q : q[j].t = "answer"
  BY DEF HasAnswer
<1>4. i \in Nat /\ j \in Nat /\ j >= 1 /\ j < i
  BY <1>1, <1>2, <1>3
<1>5. i - 1 \in DOMAIN t /\ t[i - 1] = q[i]
  BY <1>1, <1>4
<1>6. ASSUME NEW k \in DOMAIN t, t[k].t = "answer" PROVE k < i - 1
  <2>1. k \in Nat /\ k + 1 \in DOMAIN q /\ q[k + 1].t = "answer"
    BY <1>1, <1>6
  <2>2. k + 1 < i
    BY <1>2, <2>1
  <2> QED BY <1>4, <2>1, <2>2
<1> QED BY <1>2, <1>5, <1>6 DEF Open, t

\* The answer is taken, the only one.
LEMMA TailAnswer ==
  ASSUME NEW q \in Seq(Msgs), q # <<>>, Head(q).t = "answer", OneAnswer(q)
  PROVE  LET t == Tail(q)
         IN /\ AnswerIn(q, Head(q).d.id) /\ HasAnswer(q) /\ ~HasAnswer(t)
            /\ \A x \in Nat : OfferIn(q, x) => OfferIn(t, x)
            /\ \A x \in Nat : Open(t, x) => Open(q, x)
            /\ HasOffer(q) => HasOffer(t)
<1> DEFINE t == Tail(q)
<1>1. /\ \A i \in DOMAIN q : i \in Nat /\ i >= 1
      /\ \A i \in DOMAIN t : i \in Nat /\ i >= 1 /\ i + 1 \in DOMAIN q /\ t[i] = q[i + 1]
      /\ \A i \in DOMAIN q : i # 1 => i - 1 \in DOMAIN t /\ t[i - 1] = q[i]
      /\ Head(q) = q[1] /\ q[1].t = "answer" /\ 1 \in DOMAIN q
  BY Parts
<1> HIDE DEF t
<1>2. AnswerIn(q, q[1].d.id) /\ HasAnswer(q)
  BY <1>1 DEF AnswerIn, HasAnswer
<1>3. \A k \in DOMAIN q : q[k].t = "answer" => k = 1
  BY <1>1 DEF OneAnswer
<1>4. ~HasAnswer(t)
  <2> SUFFICES ASSUME NEW i \in DOMAIN t, t[i].t = "answer" PROVE FALSE
    BY DEF HasAnswer
  <2>1. i + 1 \in DOMAIN q /\ q[i + 1].t = "answer" /\ i + 1 # 1
    BY <1>1
  <2> QED BY <1>3, <2>1
<1>5. \A x \in Nat : OfferIn(q, x) => OfferIn(t, x)
  BY <1>1 DEF OfferIn
<1>6. HasOffer(q) => HasOffer(t)
  BY <1>1 DEF HasOffer
<1>7. ASSUME NEW x \in Nat, Open(t, x) PROVE Open(q, x)
  <2>1. PICK i \in DOMAIN t : t[i].t = "offer" /\ t[i].d.id = x
    BY <1>7 DEF Open
  <2>2. i + 1 \in DOMAIN q /\ q[i + 1] = t[i] /\ 1 < i + 1
    BY <1>1
  <2> QED BY <1>3, <2>1, <2>2 DEF Open
<1> QED BY <1>1, <1>2, <1>4, <1>5, <1>6, <1>7 DEF t

\* What was on the wire stays when a message is put on it.
LEMMA Added ==
  ASSUME NEW q \in Seq(Msgs), NEW m \in Msgs
  PROVE  LET a == Append(q, m)
             n == Len(q) + 1
         IN /\ a \in Seq(Msgs) /\ a # <<>> /\ Len(a) = n
            /\ n \in DOMAIN a /\ a[n] = m /\ n \in Nat
            /\ \A i \in DOMAIN q : i \in DOMAIN a /\ a[i] = q[i] /\ i < n /\ i \in Nat
            /\ \A i \in DOMAIN a : i \in DOMAIN q \/ i = n
BY Appends

LEMMA PutMore ==
  ASSUME NEW q \in Seq(Msgs), NEW m \in Msgs
  PROVE  LET a == Append(q, m)
         IN /\ \A id \in Nat : OfferIn(q, id) => OfferIn(a, id)
            /\ \A id \in Nat : AnswerIn(q, id) => AnswerIn(a, id)
            /\ HasOffer(q) => HasOffer(a)
            /\ HasAnswer(q) => HasAnswer(a)
            /\ \A g \in Nat : FitsAll(q, g) /\ (m.t \in Sdp => Fits(m.d, g)) => FitsAll(a, g)
            /\ Named(q) /\ (m.t # "roster" => m.who = {}) => Named(a)
<1> DEFINE a == Append(q, m)
           n == Len(q) + 1
<1>1. /\ \A i \in DOMAIN q : i \in DOMAIN a /\ a[i] = q[i]
      /\ \A i \in DOMAIN a : i \in DOMAIN q \/ i = n
      /\ a[n] = m
  BY Added
<1> HIDE DEF a, n
<1>2. \A id \in Nat : (OfferIn(q, id) => OfferIn(a, id)) /\ (AnswerIn(q, id) => AnswerIn(a, id))
  BY <1>1 DEF OfferIn, AnswerIn
<1>3. (HasOffer(q) => HasOffer(a)) /\ (HasAnswer(q) => HasAnswer(a))
  BY <1>1 DEF HasOffer, HasAnswer
<1>4. \A g \in Nat : FitsAll(q, g) /\ (m.t \in Sdp => Fits(m.d, g)) => FitsAll(a, g)
  BY <1>1 DEF FitsAll
<1>5. Named(q) /\ (m.t # "roster" => m.who = {}) => Named(a)
  BY <1>1 DEF Named
<1> QED BY <1>2, <1>3, <1>4, <1>5 DEF a

LEMMA PutOther ==
  ASSUME NEW q \in Seq(Msgs), NEW m \in Msgs, m.t \notin Sdp
  PROVE  LET a == Append(q, m)
         IN /\ \A id \in Nat : OfferIn(a, id) => OfferIn(q, id)
            /\ \A id \in Nat : AnswerIn(a, id) => AnswerIn(q, id)
            /\ \A id \in Nat : Open(a, id) <=> Open(q, id)
            /\ HasOffer(a) => HasOffer(q)
            /\ HasAnswer(a) => HasAnswer(q)
            /\ OneOffer(q) => OneOffer(a)
            /\ OneAnswer(q) => OneAnswer(a)
            /\ AnswersFirst(q) => AnswersFirst(a)
            /\ Apart(q) => Apart(a)
<1> DEFINE a == Append(q, m)
           n == Len(q) + 1
<1>1. /\ \A i \in DOMAIN q : i \in DOMAIN a /\ a[i] = q[i]
      /\ \A i \in DOMAIN a : i \in DOMAIN q \/ i = n
      /\ a[n].t # "offer" /\ a[n].t # "answer"
  BY Added DEF Sdp
<1> HIDE DEF a, n
<1>2. \A id \in Nat : (OfferIn(a, id) => OfferIn(q, id)) /\ (AnswerIn(a, id) => AnswerIn(q, id))
  BY <1>1 DEF OfferIn, AnswerIn
<1>3. (HasOffer(a) => HasOffer(q)) /\ (HasAnswer(a) => HasAnswer(q))
  BY <1>1 DEF HasOffer, HasAnswer
<1>4. \A id \in Nat : Open(a, id) <=> Open(q, id)
  BY <1>1 DEF Open
<1>5. (OneOffer(q) => OneOffer(a)) /\ (OneAnswer(q) => OneAnswer(a))
  BY <1>1 DEF OneOffer, OneAnswer
<1>6. AnswersFirst(q) => AnswersFirst(a)
  BY <1>1 DEF AnswersFirst
<1>7. Apart(q) => Apart(a)
  BY <1>1 DEF Apart
<1> QED BY <1>2, <1>3, <1>4, <1>5, <1>6, <1>7 DEF a

LEMMA PutOffer ==
  ASSUME NEW q \in Seq(Msgs), NEW m \in Msgs, m.t = "offer"
  PROVE  LET a == Append(q, m)
         IN /\ \A id \in Nat : OfferIn(a, id) => OfferIn(q, id) \/ id = m.d.id
            /\ \A id \in Nat : AnswerIn(a, id) => AnswerIn(q, id)
            /\ \A id \in Nat : Open(a, id) => Open(q, id) \/ id = m.d.id
            /\ HasOffer(a) /\ Open(a, m.d.id)
            /\ HasAnswer(a) => HasAnswer(q)
            /\ ~HasOffer(q) => OneOffer(a)
            /\ OneAnswer(q) => OneAnswer(a)
            /\ AnswersFirst(q) => AnswersFirst(a)
            /\ Apart(q) /\ (\A id \in Nat : ~Open(q, id)) => Apart(a)
<1> DEFINE a == Append(q, m)
           n == Len(q) + 1
<1>1. /\ \A i \in DOMAIN q : i \in DOMAIN a /\ a[i] = q[i] /\ i < n /\ i \in Nat
      /\ \A i \in DOMAIN a : i \in DOMAIN q \/ i = n
      /\ a[n] = m /\ n \in DOMAIN a /\ n \in Nat
      /\ \A i \in DOMAIN q : q[i].d.id \in Nat
  <2>1. \A i \in DOMAIN q : q[i] \in Msgs
    OBVIOUS
  <2> QED BY <2>1, Added DEF Msgs, Descs
<1> HIDE DEF a, n
<1>2. \A id \in Nat : (OfferIn(a, id) => OfferIn(q, id) \/ id = m.d.id) /\ (AnswerIn(a, id) => AnswerIn(q, id))
  BY <1>1 DEF OfferIn, AnswerIn
<1>3. HasOffer(a) /\ (HasAnswer(a) => HasAnswer(q))
  BY <1>1 DEF HasOffer, HasAnswer
<1>4. \A id \in Nat : Open(a, id) => Open(q, id) \/ id = m.d.id
  BY <1>1 DEF Open
<1>8. Open(a, m.d.id)
  BY <1>1 DEF Open
<1>5. (~HasOffer(q) => OneOffer(a)) /\ (OneAnswer(q) => OneAnswer(a))
  BY <1>1 DEF OneOffer, OneAnswer, HasOffer
<1>6. AnswersFirst(q) => AnswersFirst(a)
  BY <1>1 DEF AnswersFirst
<1>7. ASSUME Apart(q), \A id \in Nat : ~Open(q, id) PROVE Apart(a)
  <2> SUFFICES ASSUME NEW i \in DOMAIN a, NEW j \in DOMAIN a, a[i].t = "offer", a[j].t = "offer", i < j
               PROVE  \E k \in DOMAIN a : a[k].t = "answer" /\ i < k /\ k < j
    BY DEF Apart
  <2>1. i \in DOMAIN q
    <3>1. i = n => FALSE
      BY <1>1
    <3> QED BY <1>1, <3>1
  <2>2. CASE j \in DOMAIN q
    BY <1>1, <1>7, <2>1, <2>2 DEF Apart
  <2>3. CASE j = n
    <3>1. ~Open(q, q[i].d.id)
      BY <1>1, <1>7, <2>1
    <3>2. PICK k \in DOMAIN q : q[k].t = "answer" /\ ~(k < i)
      BY <1>1, <2>1, <3>1 DEF Open
    <3>3. k # i /\ k \in Nat /\ i \in Nat
      BY <1>1, <2>1, <3>2
    <3>4. i < k /\ k < n
      BY <1>1, <3>2, <3>3
    <3> QED BY <1>1, <2>3, <3>2, <3>4
  <2> QED BY <1>1, <2>2, <2>3
<1> QED BY <1>2, <1>3, <1>4, <1>5, <1>6, <1>7, <1>8 DEF a

LEMMA PutAnswer ==
  ASSUME NEW q \in Seq(Msgs), NEW m \in Msgs, m.t = "answer"
  PROVE  LET a == Append(q, m)
         IN /\ \A id \in Nat : OfferIn(a, id) => OfferIn(q, id)
            /\ \A id \in Nat : AnswerIn(a, id) => AnswerIn(q, id) \/ id = m.d.id
            /\ \A id \in Nat : ~Open(a, id)
            /\ HasAnswer(a)
            /\ HasOffer(a) => HasOffer(q)
            /\ ~HasAnswer(q) => OneAnswer(a)
            /\ OneOffer(q) => OneOffer(a)
            /\ ~HasOffer(q) => AnswersFirst(a)
            /\ Apart(q) => Apart(a)
<1> DEFINE a == Append(q, m)
           n == Len(q) + 1
<1>1. /\ \A i \in DOMAIN q : i \in DOMAIN a /\ a[i] = q[i] /\ i < n /\ i \in Nat
      /\ \A i \in DOMAIN a : i \in DOMAIN q \/ i = n
      /\ a[n] = m /\ n \in DOMAIN a /\ n \in Nat
  BY Added
<1> HIDE DEF a, n
<1>2. \A id \in Nat : (AnswerIn(a, id) => AnswerIn(q, id) \/ id = m.d.id) /\ (OfferIn(a, id) => OfferIn(q, id))
  BY <1>1 DEF OfferIn, AnswerIn
<1>3. HasAnswer(a) /\ (HasOffer(a) => HasOffer(q))
  BY <1>1 DEF HasOffer, HasAnswer
<1>4. ASSUME NEW id \in Nat, Open(a, id) PROVE FALSE
  <2>1. PICK i \in DOMAIN a : a[i].t = "offer" /\ n < i
    BY <1>1, <1>4 DEF Open
  <2> QED BY <1>1, <2>1
<1>5. (~HasAnswer(q) => OneAnswer(a)) /\ (OneOffer(q) => OneOffer(a))
  BY <1>1 DEF OneOffer, OneAnswer, HasAnswer
<1>6. ~HasOffer(q) => AnswersFirst(a)
  BY <1>1 DEF AnswersFirst, HasOffer
<1>7. Apart(q) => Apart(a)
  BY <1>1 DEF Apart
<1> QED BY <1>2, <1>3, <1>4, <1>5, <1>6, <1>7 DEF a

\* A wire with rosters only carries none of them.
LEMMA NoSdp ==
  ASSUME NEW q, \A i \in DOMAIN q : q[i].t = "roster"
  PROVE  /\ ~HasOffer(q) /\ ~HasAnswer(q) /\ OneOffer(q) /\ OneAnswer(q) /\ AnswersFirst(q) /\ Apart(q)
         /\ \A id \in Nat : ~OfferIn(q, id) /\ ~AnswerIn(q, id) /\ ~Open(q, id)
         /\ \A g \in Nat : FitsAll(q, g)
         /\ Named(q)
BY DEF HasOffer, HasAnswer, OneOffer, OneAnswer, AnswersFirst, Apart, OfferIn, AnswerIn, Open, FitsAll, Named, Sdp

LEMMA InWire ==
  ASSUME NEW q
  PROVE  /\ \A id \in Nat : Open(q, id) => OfferIn(q, id)
         /\ \A id \in Nat : OfferIn(q, id) => HasOffer(q)
         /\ \A id \in Nat : AnswerIn(q, id) => HasAnswer(q)
BY DEF HasOffer, HasAnswer, OfferIn, AnswerIn, Open

LEMMA Ids ==
  ASSUME NEW q \in Seq(Msgs)
  PROVE  /\ HasOffer(q) => \E id \in Nat : OfferIn(q, id)
         /\ HasAnswer(q) => \E id \in Nat : AnswerIn(q, id)
<1>1. \A i \in DOMAIN q : q[i].d.id \in Nat
  <2>1. \A i \in DOMAIN q : q[i] \in Msgs
    OBVIOUS
  <2> QED BY <2>1 DEF Msgs, Descs
<1> QED BY <1>1 DEF HasOffer, HasAnswer, OfferIn, AnswerIn

-----------------------------------------------------------------------------
(* The operations chain.                                                     *)

LEMMA NoOps ==
  /\ <<>> \in Seq(Ops)
  /\ \A op : ~OpIn(<<>>, op)
  /\ \A id : ~OfferOp(<<>>, id)
<1>1. <<>> \in Seq(Ops) /\ DOMAIN <<>> = {}
  OBVIOUS
<1> QED BY <1>1 DEF OpIn, OfferOp

LEMMA OneOp ==
  ASSUME NEW o \in Ops
  PROVE  /\ <<o>> \in Seq(Ops) /\ <<o>> # <<>> /\ Head(<<o>>) = o /\ Tail(<<o>>) = <<>>
         /\ Append(<<>>, o) = <<o>>
         /\ \A op : OpIn(<<o>>, op) <=> o.op = op
         /\ \A id : OfferOp(<<o>>, id) <=> o.op = "offer" /\ o.d.id = id
<1>1. /\ DOMAIN <<o>> = {1} /\ <<o>>[1] = o
  OBVIOUS
<1>2. /\ <<o>> \in Seq(Ops) /\ <<o>> # <<>> /\ Head(<<o>>) = o /\ Append(<<>>, o) = <<o>>
  OBVIOUS
<1>3. Tail(<<o>>) = <<>>
  OBVIOUS
<1>4. \A op : OpIn(<<o>>, op) <=> o.op = op
  BY <1>1 DEF OpIn
<1>5. \A id : OfferOp(<<o>>, id) <=> o.op = "offer" /\ o.d.id = id
  BY <1>1 DEF OfferOp
<1> QED BY <1>2, <1>3, <1>4, <1>5

LEMMA TwoOps ==
  ASSUME NEW o \in Ops, NEW p \in Ops
  PROVE  /\ <<o, p>> \in Seq(Ops) /\ <<o, p>> # <<>> /\ Head(<<o, p>>) = o /\ Tail(<<o, p>>) = <<p>>
         /\ Append(<<o>>, p) = <<o, p>>
         /\ \A op : OpIn(<<o, p>>, op) <=> o.op = op \/ p.op = op
         /\ \A id : OfferOp(<<o, p>>, id) <=> (o.op = "offer" /\ o.d.id = id) \/ (p.op = "offer" /\ p.d.id = id)
<1>1. /\ DOMAIN <<o, p>> = {1, 2} /\ <<o, p>>[1] = o /\ <<o, p>>[2] = p
  OBVIOUS
<1>2. <<o, p>> \in Seq(Ops) /\ <<o, p>> # <<>> /\ Head(<<o, p>>) = o
  OBVIOUS
<1>6. Append(<<o>>, p) = <<o, p>>
  <2>1. <<o>> \in Seq(Ops) /\ Len(<<o>>) = 1 /\ <<o>>[1] = o /\ Len(<<o, p>>) = 2
    OBVIOUS
  <2>2. Append(<<o>>, p) \in Seq(Ops) /\ Len(Append(<<o>>, p)) = 2
        /\ Append(<<o>>, p)[1] = o /\ Append(<<o>>, p)[2] = p
    <3>1. Append(<<o>>, p) \in Seq(Ops) /\ Len(Append(<<o>>, p)) = Len(<<o>>) + 1
          /\ \A i \in 1..Len(<<o>>) : Append(<<o>>, p)[i] = <<o>>[i]
          /\ Append(<<o>>, p)[Len(<<o>>) + 1] = p
      BY <2>1, AppendProperties
    <3> QED BY <2>1, <3>1
  <2>3. \A i \in 1..2 : i = 1 \/ i = 2
    OBVIOUS
  <2>4. \A i \in 1..2 : Append(<<o>>, p)[i] = <<o, p>>[i]
    BY <1>1, <2>2, <2>3
  <2> QED BY <1>2, <2>1, <2>2, <2>4, SeqEqual
<1>3. Tail(<<o, p>>) = <<p>>
  <2>1. Len(<<o, p>>) = 2 /\ <<p>> \in Seq(Ops) /\ Len(<<p>>) = 1 /\ <<p>>[1] = p
    OBVIOUS
  <2>2. Tail(<<o, p>>) \in Seq(Ops) /\ Len(Tail(<<o, p>>)) = 1 /\ Tail(<<o, p>>)[1] = p
    <3>1. Len(Tail(<<o, p>>)) = 2 - 1
      BY <1>2, <2>1, HeadTailProperties
    <3>2. 1 \in 1..Len(Tail(<<o, p>>))
      BY <3>1
    <3> QED BY <1>1, <1>2, <2>1, <3>1, <3>2, HeadTailProperties
  <2> QED BY <2>1, <2>2, SeqEqual
<1>4. \A op : OpIn(<<o, p>>, op) <=> o.op = op \/ p.op = op
  BY <1>1 DEF OpIn
<1>5. \A id : OfferOp(<<o, p>>, id) <=> (o.op = "offer" /\ o.d.id = id) \/ (p.op = "offer" /\ p.d.id = id)
  BY <1>1 DEF OfferOp
<1> QED BY <1>2, <1>3, <1>4, <1>5, <1>6

LEMMA LocalOp == Local \in Ops /\ Local.op = "local"
BY Messages DEF Local, Ops

\* What a shape says of the state and of the head of the chain.
LEMMA Shapes ==
  ASSUME NEW s \in Sides, NEW p \in Conns, Shape(s, p)
  PROVE  /\ p.makingOffer => p.sig = "stable" /\ OpIn(p.chain, "local") /\ p.chain # <<>>
         /\ p.sig = "have-remote" => p.chain = <<Local>>
         /\ OpIn(p.chain, "answer") => p.sig = "have-local" /\ p.chain # <<>>
         /\ OpIn(p.chain, "offer") => p.chain # <<>> /\ p.sig # "have-remote"
         /\ \A id : OfferOp(p.chain, id) => OpIn(p.chain, "offer")
         /\ p.chain # <<>> =>
              /\ Head(p.chain).op = "answer" => p.sig = "have-local" /\ Head(p.chain).d.id = p.local.id
              /\ Head(p.chain).op = "offer" => OfferOp(p.chain, Head(p.chain).d.id)
              /\ Head(p.chain) \in Ops /\ OpIn(p.chain, Head(p.chain).op)
         /\ s = "hi" /\ p.sig = "have-local" => p.chain = <<>> \/ OpIn(p.chain, "answer")
         /\ s = "hi" /\ p.sig = "stable" /\ ~p.makingOffer => p.chain = <<>> \/ OpIn(p.chain, "offer")
         /\ p.chain # <<>> /\ p.sig = "have-local" => OpIn(p.chain, "answer") \/ OpIn(p.chain, "offer")
<1> USE LocalOp
<1>1. \A id : OfferOp(p.chain, id) => OpIn(p.chain, "offer")
  BY DEF OfferOp, OpIn
<1>2. CASE p.chain = <<>> /\ p.sig \in {"stable", "have-local"} /\ ~p.makingOffer
  BY <1>1, <1>2, NoOps, OneOp, TwoOps
<1>3. CASE p.chain = <<Local>> /\ p.sig = "stable" /\ p.makingOffer
  BY <1>1, <1>3, NoOps, OneOp, TwoOps
<1>4. CASE p.chain = <<Local>> /\ p.sig = "have-remote" /\ ~p.makingOffer
  BY <1>1, <1>4, NoOps, OneOp, TwoOps
<1>5. CASE \E o \in Ops : /\ o.op = "offer" /\ p.chain = <<o>> /\ ~p.makingOffer
                          /\ (p.sig = "stable" \/ (s = "lo" /\ p.sig = "have-local"))
  <2>1. PICK o \in Ops : /\ o.op = "offer" /\ p.chain = <<o>> /\ ~p.makingOffer
                         /\ (p.sig = "stable" \/ (s = "lo" /\ p.sig = "have-local"))
    BY <1>5
  <2> QED BY <1>1, <2>1, NoOps, OneOp, TwoOps
<1>6. CASE \E a \in Ops : /\ a.op = "answer" /\ p.chain = <<a>> /\ ~p.makingOffer
                          /\ p.sig = "have-local" /\ a.d.id = p.local.id
  <2>1. PICK a \in Ops : /\ a.op = "answer" /\ p.chain = <<a>> /\ ~p.makingOffer
                         /\ p.sig = "have-local" /\ a.d.id = p.local.id
    BY <1>6
  <2> QED BY <1>1, <2>1, NoOps, OneOp, TwoOps
<1>7. CASE \E o \in Ops : /\ s = "lo" /\ o.op = "offer" /\ p.chain = <<Local, o>> /\ p.makingOffer
                          /\ p.sig = "stable"
  <2>1. PICK o \in Ops : /\ s = "lo" /\ o.op = "offer" /\ p.chain = <<Local, o>> /\ p.makingOffer
                         /\ p.sig = "stable"
    BY <1>7
  <2>2. /\ Head(<<Local, o>>) = Local /\ Tail(<<Local, o>>) = <<o>> /\ <<Local, o>> # <<>>
        /\ \A op : OpIn(<<Local, o>>, op) <=> Local.op = op \/ o.op = op
        /\ \A id : OfferOp(<<Local, o>>, id) <=> (Local.op = "offer" /\ Local.d.id = id) \/ (o.op = "offer" /\ o.d.id = id)
    BY TwoOps
  <2> QED BY <1>1, <2>1, <2>2
<1>8. CASE \E a, o \in Ops : /\ s = "lo" /\ a.op = "answer" /\ o.op = "offer" /\ p.chain = <<a, o>>
                             /\ ~p.makingOffer /\ p.sig = "have-local" /\ a.d.id = p.local.id
  <2>1. PICK a \in Ops, o \in Ops : /\ s = "lo" /\ a.op = "answer" /\ o.op = "offer" /\ p.chain = <<a, o>>
                             /\ ~p.makingOffer /\ p.sig = "have-local" /\ a.d.id = p.local.id
    BY <1>8
  <2>2. /\ Head(<<a, o>>) = a /\ Tail(<<a, o>>) = <<o>> /\ <<a, o>> # <<>>
        /\ \A op : OpIn(<<a, o>>, op) <=> a.op = op \/ o.op = op
        /\ \A id : OfferOp(<<a, o>>, id) <=> (a.op = "offer" /\ a.d.id = id) \/ (o.op = "offer" /\ o.d.id = id)
    BY TwoOps
  <2> QED BY <1>1, <2>1, <2>2
<1> QED BY <1>2, <1>3, <1>4, <1>5, <1>6, <1>7, <1>8 DEF Shape

LEMMA Heads ==
  ASSUME NEW s \in Sides, NEW p \in Conns, Shape(s, p), p.chain # <<>>
  PROVE  LET h == Head(p.chain)
         IN /\ h \in Ops
            /\ h.op = "local" =>
                 \/ p.sig = "have-remote" /\ ~p.makingOffer /\ p.chain = <<Local>>
                 \/ /\ p.sig = "stable" /\ p.makingOffer
                    /\ p.chain = <<Local>> \/ (s = "lo" /\ \E o \in Ops : o.op = "offer" /\ p.chain = <<Local, o>>)
            /\ h.op = "offer" =>
                 p.chain = <<h>> /\ ~p.makingOffer /\ (p.sig = "stable" \/ (s = "lo" /\ p.sig = "have-local"))
            /\ h.op = "answer" =>
                 /\ ~p.makingOffer /\ p.sig = "have-local" /\ h.d.id = p.local.id
                 /\ p.chain = <<h>> \/ (s = "lo" /\ \E o \in Ops : o.op = "offer" /\ p.chain = <<h, o>>)
<1> USE LocalOp
<1> DEFINE h == Head(p.chain)
<1>3. CASE p.chain = <<Local>> /\ p.sig = "stable" /\ p.makingOffer
  <2>1. h = Local
    BY <1>3, NoOps, OneOp, TwoOps
  <2> QED BY <1>3, <2>1
<1>4. CASE p.chain = <<Local>> /\ p.sig = "have-remote" /\ ~p.makingOffer
  <2>1. h = Local
    BY <1>4, NoOps, OneOp, TwoOps
  <2> QED BY <1>4, <2>1
<1>5. ASSUME NEW o \in Ops, o.op = "offer" /\ p.chain = <<o>> /\ ~p.makingOffer
                          /\ (p.sig = "stable" \/ (s = "lo" /\ p.sig = "have-local"))
      PROVE  h = o
  BY <1>5, NoOps, OneOp, TwoOps
<1>6. ASSUME NEW a \in Ops, p.chain = <<a>> PROVE h = a
  BY <1>6, NoOps, OneOp, TwoOps
<1>7. ASSUME NEW a \in Ops, NEW o \in Ops, p.chain = <<a, o>> PROVE h = a
  BY <1>7, NoOps, OneOp, TwoOps
<1> HIDE DEF h
<1> QED BY <1>3, <1>4, <1>5, <1>6, <1>7 DEF Shape, h

\* The chain after its head is done.
LEMMA ShapeAnswered ==
  ASSUME NEW s \in Sides, NEW p \in Conns, Shape(s, p), NEW q \in Conns, p.sig = "have-remote",
         IsAnswered(p, q)
  PROVE  Shape(s, q) /\ q.chain = <<>>
<1>1. p.chain = <<Local>> /\ ~p.makingOffer
  BY DEF Shape
<1>2. Tail(p.chain) = <<>>
  BY <1>1, LocalOp, NoOps, OneOp, TwoOps
<1> QED BY <1>2 DEF Shape, IsAnswered

LEMMA ShapeOffered ==
  ASSUME NEW s \in Sides, NEW p \in Conns, Shape(s, p), NEW q \in Conns, p.sig # "have-remote",
         p.chain # <<>>, Head(p.chain).op = "local", IsOffered(p, q)
  PROVE  /\ Shape(s, q) /\ p.sig = "stable" /\ p.makingOffer /\ ~OpIn(q.chain, "answer")
         /\ \A id : OfferOp(q.chain, id) <=> OfferOp(p.chain, id)
         /\ OpIn(q.chain, "offer") <=> OpIn(p.chain, "offer")
         /\ s = "hi" => q.chain = <<>>
<1>1. CASE p.chain = <<Local>>
  <2>1. Tail(p.chain) = <<>> /\ p.sig = "stable" /\ p.makingOffer
    BY <1>1, LocalOp, NoOps, OneOp, TwoOps, Heads
  <2>2. ~OpIn(<<>>, "answer") /\ ~OpIn(<<>>, "offer") /\ ~OpIn(p.chain, "offer")
        /\ \A id : ~OfferOp(<<>>, id) /\ ~OfferOp(p.chain, id)
    BY <1>1, LocalOp, NoOps, OneOp, TwoOps
  <2> QED BY <2>1, <2>2 DEF Shape, IsOffered
<1>2. CASE p.chain # <<Local>>
  <2>1. PICK o \in Ops : s = "lo" /\ o.op = "offer" /\ p.chain = <<Local, o>> /\ p.sig = "stable" /\ p.makingOffer
    BY <1>2, Heads
  <2>2. /\ Head(<<Local, o>>) = Local /\ Tail(<<Local, o>>) = <<o>> /\ <<Local, o>> # <<>>
        /\ \A op : OpIn(<<Local, o>>, op) <=> Local.op = op \/ o.op = op
        /\ \A id : OfferOp(<<Local, o>>, id) <=> (Local.op = "offer" /\ Local.d.id = id) \/ (o.op = "offer" /\ o.d.id = id)
    BY LocalOp, TwoOps
  <2>3. /\ ~OpIn(<<o>>, "answer") /\ OpIn(<<o>>, "offer")
        /\ \A id : OfferOp(<<o>>, id) <=> o.d.id = id
    BY <2>1, OneOp
  <2>4. OpIn(p.chain, "offer") /\ \A id : OfferOp(<<o>>, id) <=> OfferOp(p.chain, id)
    BY <2>1, <2>2, <2>3, LocalOp
  <2> QED BY <2>1, <2>2, <2>3, <2>4 DEF Shape, IsOffered
<1> QED BY <1>1, <1>2

LEMMA ShapeOfferTaken ==
  ASSUME NEW s \in Sides, NEW p \in Conns, Shape(s, p), NEW q \in Conns, p.chain # <<>>,
         Head(p.chain).op = "offer", IsOfferTaken(p, q, Head(p.chain).d)
  PROVE  /\ Shape(s, q) /\ q.chain = <<Local>> /\ p.sig # "have-remote" /\ ~OpIn(q.chain, "answer")
         /\ ~OpIn(q.chain, "offer") /\ OpIn(p.chain, "offer")
         /\ \A id : OfferOp(p.chain, id) <=> id = Head(p.chain).d.id
         /\ \A id : ~OfferOp(q.chain, id)
<1> DEFINE h == Head(p.chain)
<1>1. p.chain = <<h>> /\ ~p.makingOffer /\ p.sig # "have-remote" /\ h \in Ops
  BY Heads
<1> HIDE DEF h
<1>2. Append(<<>>, Local) = <<Local>> /\ ~OpIn(<<Local>>, "answer") /\ ~OpIn(<<Local>>, "offer")
      /\ \A id : ~OfferOp(<<Local>>, id)
  BY LocalOp, OneOp
<1>3. /\ Tail(p.chain) = <<>> /\ OpIn(p.chain, "offer") /\ \A id : OfferOp(p.chain, id) <=> id = h.d.id
  <2>1. h.op = "offer"
    BY DEF h
  <2> QED BY <1>1, <2>1, OneOp
<1> QED BY <1>1, <1>2, <1>3 DEF Shape, IsOfferTaken, h

LEMMA ShapeAnswerTaken ==
  ASSUME NEW s \in Sides, NEW p \in Conns, Shape(s, p), NEW q \in Conns, p.chain # <<>>, NEW d,
         Head(p.chain).op = "answer", IsAnswerTaken(p, q, d)
  PROVE  /\ Shape(s, q) /\ OpIn(p.chain, "answer") /\ p.sig = "have-local" /\ ~OpIn(q.chain, "answer")
         /\ \A id : OfferOp(q.chain, id) <=> OfferOp(p.chain, id)
         /\ OpIn(q.chain, "offer") <=> OpIn(p.chain, "offer")
         /\ s = "hi" => q.chain = <<>>
<1> DEFINE h == Head(p.chain)
<1>1. ~p.makingOffer /\ p.sig = "have-local" /\ h \in Ops /\ h.op = "answer"
      /\ (p.chain = <<h>> \/ (s = "lo" /\ \E o \in Ops : o.op = "offer" /\ p.chain = <<h, o>>))
  BY Heads
<1> HIDE DEF h
<1>2. CASE p.chain = <<h>>
  <2>1. Tail(p.chain) = <<>>
    BY <1>1, <1>2, OneOp
  <2>2. /\ ~OpIn(<<>>, "answer") /\ ~OpIn(<<>>, "offer") /\ ~OpIn(p.chain, "offer") /\ OpIn(p.chain, "answer")
        /\ \A id : ~OfferOp(<<>>, id) /\ ~OfferOp(p.chain, id)
    BY <1>1, <1>2, NoOps, OneOp
  <2> QED BY <1>1, <2>1, <2>2 DEF Shape, IsAnswerTaken
<1>3. CASE p.chain # <<h>>
  <2>1. PICK o \in Ops : s = "lo" /\ o.op = "offer" /\ p.chain = <<h, o>>
    BY <1>1, <1>3
  <2>4. /\ Head(<<h, o>>) = h /\ Tail(<<h, o>>) = <<o>> /\ <<h, o>> # <<>>
        /\ \A op : OpIn(<<h, o>>, op) <=> h.op = op \/ o.op = op
        /\ \A id : OfferOp(<<h, o>>, id) <=> (h.op = "offer" /\ h.d.id = id) \/ (o.op = "offer" /\ o.d.id = id)
    BY <1>1, TwoOps
  <2>2. Tail(p.chain) = <<o>>
    BY <2>1, <2>4
  <2>5. /\ ~OpIn(<<o>>, "answer") /\ OpIn(<<o>>, "offer") /\ \A id : OfferOp(<<o>>, id) <=> o.d.id = id
    BY <2>1, OneOp
  <2>3. /\ ~OpIn(<<o>>, "answer") /\ OpIn(<<o>>, "offer") /\ OpIn(p.chain, "offer") /\ OpIn(p.chain, "answer")
        /\ \A id : OfferOp(<<o>>, id) <=> OfferOp(p.chain, id)
    BY <1>1, <2>1, <2>4, <2>5
  <2> QED BY <1>1, <2>1, <2>2, <2>3 DEF Shape, IsAnswerTaken
<1> QED BY <1>2, <1>3

LEMMA ShapeRefused ==
  ASSUME NEW s \in Sides, NEW p \in Conns, Shape(s, p), NEW q \in Conns, p.chain # <<>>,
         Head(p.chain).op # "local", IsRefused(p, q)
  PROVE  /\ Shape(s, q)
         /\ OpIn(q.chain, "offer") => OpIn(p.chain, "offer")
<1> DEFINE h == Head(p.chain)
<1>1. ~p.makingOffer /\ h \in Ops /\ p.sig \in {"stable", "have-local"} /\ h.op \in {"offer", "answer"}
  <2>1. h \in Ops
    BY Heads
  <2>2. h.op \in {"offer", "answer"}
    BY <2>1 DEF Ops
  <2> QED BY <2>1, <2>2, Heads
<1>4. p.chain = <<h>> \/ (s = "lo" /\ p.sig = "have-local" /\ \E o \in Ops : o.op = "offer" /\ p.chain = <<h, o>>)
  BY <1>1, Heads
<1> HIDE DEF h
<1>2. CASE p.chain = <<h>>
  <2>1. Tail(p.chain) = <<>> /\ ~OpIn(<<>>, "offer")
    BY <1>1, <1>2, NoOps, OneOp
  <2> QED BY <1>1, <2>1 DEF Shape, IsRefused
<1>3. CASE p.chain # <<h>>
  <2>1. PICK o \in Ops : s = "lo" /\ o.op = "offer" /\ p.chain = <<h, o>> /\ p.sig = "have-local"
    BY <1>3, <1>4
  <2>3. /\ Head(<<h, o>>) = h /\ Tail(<<h, o>>) = <<o>> /\ <<h, o>> # <<>>
        /\ \A op : OpIn(<<h, o>>, op) <=> h.op = op \/ o.op = op
        /\ \A id : OfferOp(<<h, o>>, id) <=> (h.op = "offer" /\ h.d.id = id) \/ (o.op = "offer" /\ o.d.id = id)
    BY <1>1, TwoOps
  <2>2. Tail(p.chain) = <<o>> /\ OpIn(p.chain, "offer")
    BY <2>1, <2>3
  <2> QED BY <1>1, <2>1, <2>2 DEF Shape, IsRefused
<1> QED BY <1>2, <1>3

\* The chain after a description is added.
LEMMA ShapeOffer ==
  ASSUME NEW s \in Sides, NEW p \in Conns, Shape(s, p), NEW q \in Conns, NEW d \in Descs,
         NEW h \in Ops, h.op = "offer", h.d = d, IsChained(p, q, h),
         p.sig # "have-remote", ~OpIn(p.chain, "offer"),
         s = "hi" => ~p.makingOffer /\ p.sig = "stable"
  PROVE  /\ Shape(s, q) /\ OpIn(q.chain, "offer") /\ \A id : OfferOp(q.chain, id) <=> id = d.id
         /\ OpIn(q.chain, "answer") <=> OpIn(p.chain, "answer")
<1> USE DEF IsChained
<1> DEFINE o == h
<1>0. o \in Ops /\ o.op = "offer" /\ o.d = d
  OBVIOUS
<1> HIDE DEF o
<1>1. CASE p.chain = <<>> /\ p.sig \in {"stable", "have-local"} /\ ~p.makingOffer
  <2>1. q.chain = <<o>> /\ \A op : ~OpIn(p.chain, op)
    BY <1>0, <1>1, NoOps, OneOp, TwoOps DEF o
  <2>2. OpIn(<<o>>, "offer") /\ ~OpIn(<<o>>, "answer") /\ \A id : OfferOp(<<o>>, id) <=> id = d.id
    BY <1>0, NoOps, OneOp, TwoOps
  <2>3. s = "lo" \/ p.sig = "stable"
    BY DEF Sides
  <2> QED BY <1>0, <1>1, <2>1, <2>2, <2>3 DEF Shape
<1>2. CASE p.chain = <<Local>> /\ p.sig = "stable" /\ p.makingOffer
  <2>1. q.chain = <<Local, o>> /\ s = "lo" /\ ~OpIn(p.chain, "answer")
    <3>1. Append(<<Local>>, o) = <<Local, o>>
      BY <1>0, LocalOp, TwoOps
    <3>2. ~OpIn(<<Local>>, "answer")
      BY LocalOp, OneOp
    <3> QED BY <1>2, <3>1, <3>2 DEF o, Sides
  <2>2. OpIn(<<Local, o>>, "offer") /\ ~OpIn(<<Local, o>>, "answer") /\ \A id : OfferOp(<<Local, o>>, id) <=> id = d.id
    <3>1. /\ \A x : OpIn(<<Local, o>>, x) <=> Local.op = x \/ o.op = x
          /\ \A id : OfferOp(<<Local, o>>, id) <=>
               (Local.op = "offer" /\ Local.d.id = id) \/ (o.op = "offer" /\ o.d.id = id)
      BY <1>0, LocalOp, TwoOps
    <3> QED BY <1>0, <3>1, LocalOp
  <2> QED BY <1>0, <1>2, <2>1, <2>2 DEF Shape
<1>3. CASE \E a \in Ops : /\ a.op = "answer" /\ p.chain = <<a>> /\ ~p.makingOffer
                          /\ p.sig = "have-local" /\ a.d.id = p.local.id
  <2>0. PICK a \in Ops : /\ a.op = "answer" /\ p.chain = <<a>> /\ ~p.makingOffer
                         /\ p.sig = "have-local" /\ a.d.id = p.local.id
    BY <1>3
  <2>1. q.chain = <<a, o>> /\ s = "lo" /\ OpIn(p.chain, "answer")
    <3>1. Append(<<a>>, o) = <<a, o>>
      BY <1>0, TwoOps
    <3>2. OpIn(<<a>>, "answer")
      BY <2>0, OneOp
    <3> QED BY <2>0, <3>1, <3>2 DEF o, Sides
  <2>3. /\ Head(<<a, o>>) = a /\ Tail(<<a, o>>) = <<o>> /\ <<a, o>> # <<>>
        /\ \A op : OpIn(<<a, o>>, op) <=> a.op = op \/ o.op = op
        /\ \A id : OfferOp(<<a, o>>, id) <=> (a.op = "offer" /\ a.d.id = id) \/ (o.op = "offer" /\ o.d.id = id)
    BY <1>0, TwoOps
  <2>2. OpIn(<<a, o>>, "offer") /\ OpIn(<<a, o>>, "answer") /\ \A id : OfferOp(<<a, o>>, id) <=> id = d.id
    BY <1>0, <2>0, <2>3
  <2> QED BY <1>0, <2>0, <2>1, <2>2 DEF Shape
<1>4. ASSUME NEW x \in Ops, x.op = "offer", p.chain = <<x>> PROVE FALSE
  BY <1>4, NoOps, OneOp, TwoOps
<1>5. ASSUME NEW x \in Ops, NEW y \in Ops, y.op = "offer", p.chain = <<x, y>> PROVE FALSE
  <2>1. OpIn(<<x, y>>, "offer")
    BY <1>5, TwoOps
  <2> QED BY <1>5, <2>1
<1> QED BY <1>1, <1>2, <1>3, <1>4, <1>5, LocalOp DEF Shape

LEMMA ShapeAnswer ==
  ASSUME NEW s \in Sides, NEW p \in Conns, Shape(s, p), NEW q \in Conns, NEW d \in Descs,
         NEW h \in Ops, h.op = "answer", h.d = d, IsChained(p, q, h),
         p.chain = <<>>, p.sig = "have-local", p.local.id = d.id
  PROVE  /\ Shape(s, q) /\ OpIn(q.chain, "answer") /\ ~OpIn(q.chain, "offer") /\ \A id : ~OfferOp(q.chain, id)
<1> USE DEF IsChained
<1> DEFINE o == h
<1>0. o \in Ops /\ o.op = "answer" /\ o.d = d
  OBVIOUS
<1> HIDE DEF o
<1>1. q.chain = <<o>> /\ ~p.makingOffer
  BY <1>0, LocalOp, NoOps, OneOp, TwoOps DEF o, Shape
<1>2. OpIn(<<o>>, "answer") /\ ~OpIn(<<o>>, "offer") /\ \A id : ~OfferOp(<<o>>, id)
  BY <1>0, NoOps, OneOp, TwoOps
<1> QED BY <1>0, <1>1, <1>2 DEF Shape

-----------------------------------------------------------------------------
(* What a wire says of who is there.                                         *)

LEMMA AloneTail ==
  ASSUME NEW s \in Sides, NEW q \in Seq(Msgs), q # <<>>
  PROVE  LET t == Tail(q)
         IN /\ AloneLast(s, q) => AloneLast(s, t)
            /\ HasAlone(s, t) => HasAlone(s, q)
            /\ AloneLate(s, t) => AloneLate(s, q)
            /\ AloneLast(s, q) /\ Alone(s, Head(q)) => t = <<>>
            /\ Alone(s, Head(q)) => HasAlone(s, q)
            /\ Alone(s, Head(q)) /\ AloneFirst(s, q) => AloneFirst(s, t)
            /\ Alone(s, Head(q)) /\ RosterFirst(s, q) => RosterFirst(s, t)
            /\ ~Alone(s, Head(q)) /\ AloneFirst(s, q) => AloneLast(s, t)
            /\ ~Alone(s, Head(q)) /\ HasAlone(s, t) => AloneLate(s, q)
            /\ RosterFirst(s, q) => Head(q).t = "roster"
<1> DEFINE t == Tail(q)
<1>1. /\ \A i \in DOMAIN q : i \in Nat /\ i >= 1
      /\ \A i \in DOMAIN t : i \in Nat /\ i >= 1 /\ i + 1 \in DOMAIN q /\ t[i] = q[i + 1]
      /\ \A i \in DOMAIN q : i # 1 => i - 1 \in DOMAIN t /\ t[i - 1] = q[i]
      /\ Head(q) = q[1] /\ 1 \in DOMAIN q /\ Len(q) \in Nat /\ Len(t) = Len(q) - 1 /\ t \in Seq(Msgs)
  BY Parts
<1>e. Len(q) = 1 => t = <<>>
  BY <1>1, EmptySeq
<1> HIDE DEF t
<1>2. AloneLast(s, q) => AloneLast(s, t)
  <2> SUFFICES ASSUME AloneLast(s, q), NEW i \in DOMAIN t, Alone(s, t[i]) PROVE i = Len(t)
    BY DEF AloneLast
  <2>1. i + 1 \in DOMAIN q /\ Alone(s, q[i + 1]) /\ i \in Nat
    BY <1>1
  <2>2. i + 1 = Len(q)
    BY <2>1 DEF AloneLast
  <2> QED BY <1>1, <2>1, <2>2
<1>3. HasAlone(s, t) => HasAlone(s, q)
  BY <1>1 DEF HasAlone
<1>4. AloneLate(s, t) => AloneLate(s, q)
  <2> SUFFICES ASSUME NEW i \in DOMAIN t, NEW j \in DOMAIN t, j < i, Alone(s, t[i]), ~Alone(s, t[j])
               PROVE  AloneLate(s, q)
    BY DEF AloneLate
  <2>1. i + 1 \in DOMAIN q /\ j + 1 \in DOMAIN q /\ j + 1 < i + 1 /\ t[i] = q[i + 1] /\ t[j] = q[j + 1]
    BY <1>1
  <2> QED BY <2>1 DEF AloneLate
<1>5. AloneLast(s, q) /\ Alone(s, Head(q)) => t = <<>>
  BY <1>1, <1>e DEF AloneLast
<1>6. Alone(s, Head(q)) => HasAlone(s, q)
  BY <1>1 DEF HasAlone
<1>7. Alone(s, Head(q)) /\ AloneFirst(s, q) => AloneFirst(s, t)
  <2> SUFFICES ASSUME AloneFirst(s, q), NEW i \in DOMAIN t, Alone(s, t[i]), i # Len(t),
                      NEW j \in DOMAIN t, j < i
               PROVE  Alone(s, t[j])
    BY DEF AloneFirst
  <2>1. /\ i + 1 \in DOMAIN q /\ t[i] = q[i + 1] /\ j + 1 \in DOMAIN q /\ t[j] = q[j + 1]
        /\ i \in Nat /\ j \in Nat
    BY <1>1
  <2>2. i + 1 # Len(q)
    <3>1. Len(q) \in Nat /\ Len(t) = Len(q) - 1 /\ i # Len(t) /\ i \in Nat
      BY <1>1, <2>1
    <3> QED BY <3>1
  <2>3. j + 1 < i + 1
    BY <2>1
  <2> QED BY <2>1, <2>2, <2>3 DEF AloneFirst
<1>8. Alone(s, Head(q)) /\ RosterFirst(s, q) => RosterFirst(s, t)
  <2> SUFFICES ASSUME Alone(s, q[1]), RosterFirst(s, q), NEW i \in DOMAIN t, t[i].t # "roster"
               PROVE  \E j \in DOMAIN t : j < i /\ t[j].t = "roster" /\ Other(s) \in t[j].who
    BY <1>1 DEF RosterFirst
  <2>1. i + 1 \in DOMAIN q /\ t[i] = q[i + 1] /\ i \in Nat
    BY <1>1
  <2>2. PICK j \in DOMAIN q : j < i + 1 /\ q[j].t = "roster" /\ Other(s) \in q[j].who
    BY <2>1 DEF RosterFirst
  <2>3. j # 1
    BY <2>2 DEF Alone
  <2>4. j - 1 \in DOMAIN t /\ t[j - 1] = q[j] /\ j \in Nat
    BY <1>1, <2>3
  <2>5. j - 1 < i
    BY <2>1, <2>2, <2>4
  <2> QED BY <2>2, <2>4, <2>5
<1>9. ~Alone(s, Head(q)) /\ AloneFirst(s, q) => AloneLast(s, t)
  <2> SUFFICES ASSUME ~Alone(s, q[1]), AloneFirst(s, q), NEW i \in DOMAIN t, Alone(s, t[i]) PROVE i = Len(t)
    BY <1>1 DEF AloneLast
  <2>1. i + 1 \in DOMAIN q /\ t[i] = q[i + 1] /\ 1 < i + 1 /\ i \in Nat
    BY <1>1
  <2>2. i + 1 = Len(q)
    BY <1>1, <2>1 DEF AloneFirst
  <2> QED BY <1>1, <2>1, <2>2
<1>10. ~Alone(s, Head(q)) /\ HasAlone(s, t) => AloneLate(s, q)
  <2> SUFFICES ASSUME ~Alone(s, q[1]), NEW i \in DOMAIN t, Alone(s, t[i]) PROVE AloneLate(s, q)
    BY <1>1 DEF HasAlone
  <2>1. i + 1 \in DOMAIN q /\ t[i] = q[i + 1] /\ 1 < i + 1 /\ 1 \in DOMAIN q
    BY <1>1
  <2> QED BY <2>1 DEF AloneLate
<1>11. RosterFirst(s, q) => Head(q).t = "roster"
  <2> SUFFICES ASSUME RosterFirst(s, q), q[1].t # "roster" PROVE FALSE
    BY <1>1
  <2>1. PICK j \in DOMAIN q : j < 1
    BY <1>1 DEF RosterFirst
  <2> QED BY <1>1, <2>1
<1> QED BY <1>2, <1>3, <1>4, <1>5, <1>6, <1>7, <1>8, <1>9, <1>10, <1>11 DEF t

LEMMA AlonePut ==
  ASSUME NEW s \in Sides, NEW q \in Seq(Msgs), NEW m \in Msgs
  PROVE  LET a == Append(q, m)
         IN /\ ~HasAlone(s, q) => AloneLast(s, a)
            /\ ~Alone(s, m) /\ HasAlone(s, a) => HasAlone(s, q)
            /\ ~Alone(s, m) /\ AloneLate(s, a) => AloneLate(s, q)
            /\ AloneFirst(s, q) /\ ~AloneLate(s, q) => AloneFirst(s, a)
            /\ RosterFirst(s, q) /\ m.t = "roster" => RosterFirst(s, a)
            /\ RosterFirst(s, q) /\ (\E i \in DOMAIN q : q[i].t = "roster" /\ Other(s) \in q[i].who) =>
                 RosterFirst(s, a)
<1> DEFINE a == Append(q, m)
           n == Len(q) + 1
<1>1. /\ \A i \in DOMAIN q : i \in DOMAIN a /\ a[i] = q[i] /\ i < n /\ i \in Nat
      /\ \A i \in DOMAIN a : i \in DOMAIN q \/ i = n
      /\ a[n] = m /\ n \in DOMAIN a /\ n \in Nat /\ Len(a) = n
  BY Added
<1> HIDE DEF a, n
<1>2. ~HasAlone(s, q) => AloneLast(s, a)
  BY <1>1 DEF HasAlone, AloneLast
<1>3. ~Alone(s, m) /\ HasAlone(s, a) => HasAlone(s, q)
  BY <1>1 DEF HasAlone
<1>x. \A i \in DOMAIN q : ~(n < i)
  BY <1>1
<1>4. ~Alone(s, m) /\ AloneLate(s, a) => AloneLate(s, q)
  BY <1>1, <1>x DEF AloneLate
<1>5. AloneFirst(s, q) /\ ~AloneLate(s, q) => AloneFirst(s, a)
  <2> SUFFICES ASSUME ~AloneLate(s, q), NEW i \in DOMAIN a, Alone(s, a[i]), i # n, NEW j \in DOMAIN a, j < i
               PROVE  Alone(s, a[j])
    BY <1>1 DEF AloneFirst
  <2>1. i \in DOMAIN q /\ j \in DOMAIN q
    BY <1>1, <1>x
  <2> QED BY <1>1, <2>1 DEF AloneLate
<1>6. RosterFirst(s, q) /\ m.t = "roster" => RosterFirst(s, a)
  BY <1>1 DEF RosterFirst
<1>7. RosterFirst(s, q) /\ (\E i \in DOMAIN q : q[i].t = "roster" /\ Other(s) \in q[i].who) => RosterFirst(s, a)
  BY <1>1 DEF RosterFirst
<1> QED BY <1>2, <1>3, <1>4, <1>5, <1>6, <1>7 DEF a

\* A wire that tells s of nobody else.
LEMMA AloneOnly ==
  ASSUME NEW s \in Sides, NEW q \in Seq(Msgs), Named(q), \A i \in DOMAIN q : q[i].who = {s}
  PROVE  /\ \A i \in DOMAIN q : q[i].t = "roster"
         /\ AloneFirst(s, q) /\ RosterFirst(s, q) /\ ~AloneLate(s, q)
<1>1. {s} # {} /\ Other(s) \notin {s}
  BY TheSides
<1>2. \A i \in DOMAIN q : q[i].t = "roster" /\ Alone(s, q[i])
  BY <1>1 DEF Named, Alone
<1> QED BY <1>2 DEF AloneFirst, RosterFirst, AloneLate

\* What may have been put on the wire to u: a message of T, while both are there.
Says(u, T) ==
  \/ wire'[u] = wire[u]
  \/ \E m \in Msgs : m.t \in T /\ m.who = {} /\ Both /\ wire'[u] = Append(wire[u], m)
Talk == {"state", "watch"}

LEMMA Present ==
  ASSUME TypeInv, RosterInv, Hearing
  PROVE  /\ roster = {s \in Sides : joined[s]} /\ \A s \in Sides : Up(s) <=> Both
         /\ \A s \in Sides : Both => joined[s] /\ joined[Other(s)]
         /\ \A s \in Sides : joined[s] /\ joined[Other(s)] => Both
         /\ \A s \in Sides : HasPeer(s) => joined[s]
         /\ \A s \in Sides : pc[s] \in Conns \/ (pc[s] = NoPeer /\ ~HasPeer(s))
<1>1. roster = {s \in Sides : joined[s]}
  BY DEF RosterInv, Hearing
<1>2. \A s \in Sides : Up(s) <=> Both
  BY <1>1 DEF Up, Both, Hearing, Sides, Other
<1>3. \A s \in Sides : /\ Both => joined[s] /\ joined[Other(s)]
                       /\ joined[s] /\ joined[Other(s)] => Both
  BY DEF Both, Sides, Other
<1>4. \A s \in Sides : HasPeer(s) => joined[s]
  BY DEF TypeInv, Owned
<1>5. \A s \in Sides : pc[s] \in Conns \/ (pc[s] = NoPeer /\ ~HasPeer(s))
  BY DEF TypeInv, HasPeer
<1> QED BY <1>1, <1>2, <1>3, <1>4, <1>5

LEMMA HeardSaid ==
  ASSUME TypeInv, RosterInv, Hearing, NEW u \in Sides, UNCHANGED joined,
         HasPeer(u)' <=> HasPeer(u), Says(u, Talk \union Sdp)
  PROVE  Named(wire'[u]) /\ Heard(u)'
<1>0. Named(wire[u]) /\ Heard(u) /\ wire[u] \in Seq(Msgs) /\ Told(u)
  BY DEF Hearing, TypeInv, RosterInv
<1>1. CASE wire'[u] = wire[u]
  BY <1>0, <1>1 DEF Heard
<1>2. CASE wire'[u] # wire[u]
  <2>1. PICK m \in Msgs : /\ m.t \in Talk \union Sdp /\ m.who = {} /\ Both
                          /\ wire'[u] = Append(wire[u], m)
    BY <1>2 DEF Says
  <2>2. ~Alone(u, m) /\ m.t # "roster"
    BY <2>1 DEF Alone, Talk, Sdp
  <2>3. Named(wire'[u])
    BY <1>0, <2>1, PutMore DEF Fits
  <2>4. joined[u] /\ joined[Other(u)]
    BY <2>1, Present
  <2>5. CASE HasPeer(u)
    <3>1. ~HasAlone(u, wire[u])
      BY <1>0, <2>4, <2>5 DEF Heard
    <3>2. AloneLast(u, wire'[u]) /\ ~HasAlone(u, wire'[u])
      BY <1>0, <2>1, <2>2, <3>1, AlonePut
    <3> QED BY <2>3, <2>5, <3>2 DEF Heard
  <2>6. CASE ~HasPeer(u)
    <3>1. AloneFirst(u, wire[u]) /\ RosterFirst(u, wire[u]) /\ ~AloneLate(u, wire[u])
      BY <1>0, <2>4, <2>6 DEF Heard
    <3>2. \E i \in DOMAIN wire[u] : wire[u][i].t = "roster" /\ Other(u) \in wire[u][i].who
      <4>1. u \in roster /\ Other(u) \in roster
        BY <2>4, TheSides, Present
      <4>2. Due(roster, u, wire[u])
        BY <1>0, <2>6, <4>1 DEF Told
      <4> QED BY <4>1, <4>2 DEF Due
    <3>3. AloneFirst(u, wire'[u]) /\ RosterFirst(u, wire'[u]) /\ ~AloneLate(u, wire'[u])
      BY <1>0, <2>1, <2>2, <3>1, <3>2, AlonePut
    <3> QED BY <2>3, <2>6, <3>3 DEF Heard
  <2> QED BY <2>5, <2>6
<1> QED BY <1>1, <1>2

LEMMA HeardTaken ==
  ASSUME TypeInv, Hearing, NEW u \in Sides, UNCHANGED joined, wire[u] # <<>>, wire'[u] = Tail(wire[u]),
         \/ ~joined[u]
         \/ HasPeer(u) /\ HasPeer(u)'
         \/ Alone(u, Head(wire[u])) /\ ~HasPeer(u)'
         \/ ~Alone(u, Head(wire[u])) /\ ~HasPeer(u) /\ HasPeer(u)'
  PROVE  Named(wire'[u]) /\ Heard(u)'
<1> DEFINE q == wire[u]
<1>0. Named(q) /\ Heard(u) /\ q \in Seq(Msgs)
  BY DEF Hearing, TypeInv
<1>1. Named(wire'[u])
  BY <1>0, TailLess
<1>2. CASE ~joined[u]
  BY <1>1, <1>2 DEF Heard
<1>3. CASE joined[u] /\ HasPeer(u) /\ HasPeer(u)'
  BY <1>0, <1>1, <1>3, AloneTail DEF Heard
<1>4. CASE joined[u] /\ Alone(u, Head(q)) /\ ~HasPeer(u)' /\ HasPeer(u)
  <2>1. Tail(q) = <<>>
    BY <1>0, <1>4, AloneTail DEF Heard
  <2>2. AloneFirst(u, <<>>) /\ RosterFirst(u, <<>>) /\ ~AloneLate(u, <<>>)
    BY DEF AloneFirst, RosterFirst, AloneLate
  <2> QED BY <1>1, <1>4, <2>1, <2>2 DEF Heard
<1>5. CASE joined[u] /\ Alone(u, Head(q)) /\ ~HasPeer(u)' /\ ~HasPeer(u)
  BY <1>0, <1>1, <1>5, AloneTail DEF Heard
<1>6. CASE joined[u] /\ ~Alone(u, Head(q)) /\ ~HasPeer(u) /\ HasPeer(u)'
  BY <1>0, <1>1, <1>6, AloneTail DEF Heard
<1> QED BY <1>2, <1>3, <1>4, <1>5, <1>6

\* The other one comes: u, if there, has no connection and is told.
LEMMA HeardJoin ==
  ASSUME TypeInv, RosterInv, Hearing, NEW s \in Sides, Join(s), ~rushed'
  PROVE  /\ Hearing' /\ \A u \in Sides : ~HasPeer(u)'
         /\ \A u \in Sides : \A i \in DOMAIN wire'[u] : wire'[u][i].t = "roster"
<1> USE TheSides
<1>1. /\ ~joined[s] /\ Noticed(s) /\ UNCHANGED <<online, pc>> /\ joined' = [joined EXCEPT ![s] = TRUE]
      /\ wire' = [u \in Sides |-> IF u \in roster \union {s} /\ online[u]
                                THEN Append(wire[u], Roster(roster \union {s})) ELSE wire[u]]
  BY DEF Join, Enter
<1>2. roster = {u \in Sides : joined[u]} /\ joined \in [Sides -> BOOLEAN] /\ roster \in SUBSET Sides
  BY Present DEF TypeInv
<1>3. \A u \in Sides : ~HasPeer(u) /\ ~HasPeer(u)'
  BY <1>1, Present DEF Noticed, HasPeer
<1>4. ASSUME NEW u \in Sides
      PROVE  Named(wire'[u]) /\ Heard(u)' /\ \A i \in DOMAIN wire'[u] : wire'[u][i].t = "roster"
  <2> DEFINE q == wire[u]
             m == Roster(roster \union {s})
  <2>1. q \in Seq(Msgs) /\ Named(q) /\ \A i \in DOMAIN q : q[i].who = {u}
    BY <1>1 DEF TypeInv, Hearing, Noticed
  <2>2. /\ \A i \in DOMAIN q : q[i].t = "roster"
        /\ AloneFirst(u, q) /\ RosterFirst(u, q) /\ ~AloneLate(u, q)
    BY <2>1, AloneOnly
  <2>3. m \in Msgs /\ m.t = "roster"
    BY <1>2, Messages
  <2> HIDE DEF m
  <2>4. CASE wire'[u] = q /\ ~joined'[u]
    BY <2>1, <2>2, <2>4 DEF Heard
  <2>5. CASE wire'[u] = Append(q, m)
    <3>1. Named(wire'[u]) /\ \A i \in DOMAIN wire'[u] : wire'[u][i].t = "roster"
      <4>1. /\ \A i \in DOMAIN q : wire'[u][i] = q[i]
            /\ \A i \in DOMAIN wire'[u] : i \in DOMAIN q \/ i = Len(q) + 1
            /\ wire'[u][Len(q) + 1] = m
        BY <2>1, <2>3, <2>5, Added
      <4> QED BY <2>2, <2>3, <4>1 DEF Named
    <3>2. AloneFirst(u, wire'[u]) /\ RosterFirst(u, wire'[u])
      BY <2>1, <2>2, <2>3, <2>5, AlonePut
    <3>3. ~AloneLate(u, wire'[u])
      <4>1. /\ \A i \in DOMAIN q : wire'[u][i] = q[i] /\ i < Len(q) + 1
            /\ \A i \in DOMAIN wire'[u] : i \in DOMAIN q \/ i = Len(q) + 1
            /\ DOMAIN q \subseteq Nat /\ Len(q) \in Nat
        BY <2>1, <2>3, <2>5, Added
      <4>2. \A i \in DOMAIN q : Alone(u, q[i])
        BY <2>1, <2>2 DEF Alone
      <4>3. \A j \in DOMAIN wire'[u] : ~Alone(u, wire'[u][j]) => j = Len(q) + 1
        BY <4>1, <4>2
      <4>4. \A i \in DOMAIN wire'[u] : ~(Len(q) + 1 < i)
        BY <4>1
      <4> QED BY <4>3, <4>4 DEF AloneLate
    <3> QED BY <1>3, <3>1, <3>2, <3>3 DEF Heard
  <2>6. (wire'[u] = q /\ ~joined'[u]) \/ wire'[u] = Append(q, m)
    <3>1. wire'[u] = IF u \in roster \union {s} /\ online[u] THEN Append(q, m) ELSE q
      BY <1>1 DEF m
    <3>2. online[u] /\ (u \notin roster \union {s} => ~joined'[u])
      BY <1>1, <1>2 DEF Hearing
    <3> QED BY <3>1, <3>2
  <2> QED BY <2>4, <2>5, <2>6
<1> QED BY <1>1, <1>3, <1>4 DEF Hearing

\* The other one leaves: u, if there, is told at the end of its wire.
LEMMA HeardLeave ==
  ASSUME TypeInv, RosterInv, Hearing, NEW s \in Sides, Leave(s)
  PROVE  /\ Hearing' /\ ~Both' /\ ~HasPeer(s)' /\ pc'[Other(s)] = pc[Other(s)]
         /\ \A u \in Sides : wire'[u] = wire[u] \/ wire'[u] = Append(wire[u], Roster(roster \ {s}))
         /\ joined' = [joined EXCEPT ![s] = FALSE]
<1> USE TheSides
<1>1. /\ joined[s] /\ UNCHANGED online /\ pc' = [pc EXCEPT ![s] = NoPeer]
      /\ joined' = [joined EXCEPT ![s] = FALSE]
      /\ wire' = [u \in Sides |-> IF u \in roster \ {s} /\ s \in roster /\ online[u]
                                THEN Append(wire[u], Roster(roster \ {s})) ELSE wire[u]]
  BY DEF Leave, Exit, Forget, Hearing
<1>2. /\ roster = {u \in Sides : joined[u]} /\ joined \in [Sides -> BOOLEAN] /\ roster \in SUBSET Sides
      /\ pc \in [Sides -> Conns \union {NoPeer}]
  BY Present DEF TypeInv
<1>3. ~Both' /\ ~HasPeer(s)' /\ pc'[Other(s)] = pc[Other(s)] /\ ~joined'[s]
  BY <1>1, <1>2 DEF Both, HasPeer, Sides
<1>4. ASSUME NEW u \in Sides
      PROVE  /\ Named(wire'[u]) /\ Heard(u)'
             /\ wire'[u] = wire[u] \/ wire'[u] = Append(wire[u], Roster(roster \ {s}))
  <2> DEFINE q == wire[u]
             m == Roster(roster \ {s})
  <2>1. q \in Seq(Msgs) /\ Named(q) /\ Heard(u) /\ online[u]
    BY DEF TypeInv, Hearing
  <2>2. m \in Msgs /\ m.t = "roster"
    BY <1>2, Messages
  <2>3. wire'[u] = IF u \in roster \ {s} /\ s \in roster THEN Append(q, m) ELSE q
    BY <1>1, <2>1
  <2> HIDE DEF m
  <2>4. CASE u = s
    BY <1>3, <2>1, <2>3, <2>4 DEF Heard
  <2>5. CASE u = Other(s) /\ ~joined[u]
    <3>1. ~joined'[u] /\ wire'[u] = q
      BY <1>1, <1>2, <2>3, <2>5
    <3> QED BY <2>1, <3>1 DEF Heard
  <2>6. CASE u = Other(s) /\ joined[u]
    <3>1. wire'[u] = Append(q, m) /\ joined'[u] /\ joined[Other(u)] /\ ~joined'[Other(u)]
          /\ (HasPeer(u)' <=> HasPeer(u))
      BY <1>1, <1>2, <1>3, <2>3, <2>6 DEF HasPeer
    <3>2. Named(wire'[u])
      BY <2>1, <2>2, <3>1, PutMore DEF Sdp
    <3>3. CASE HasPeer(u)
      <4>1. ~HasAlone(u, q)
        BY <2>1, <2>6, <3>1, <3>3 DEF Heard
      <4>2. AloneLast(u, wire'[u])
        BY <2>1, <2>2, <3>1, <4>1, AlonePut
      <4> QED BY <3>1, <3>2, <3>3, <4>2 DEF Heard, m
    <3>4. CASE ~HasPeer(u)
      <4>1. AloneFirst(u, q) /\ RosterFirst(u, q) /\ ~AloneLate(u, q)
        BY <2>1, <2>6, <3>1, <3>4 DEF Heard
      <4>2. AloneFirst(u, wire'[u]) /\ RosterFirst(u, wire'[u])
        BY <2>1, <2>2, <3>1, <4>1, AlonePut
      <4> QED BY <3>1, <3>2, <3>4, <4>2 DEF Heard, m
    <3> QED BY <2>3, <3>1, <3>3, <3>4 DEF m
  <2>7. wire'[u] = q \/ wire'[u] = Append(q, m)
    BY <2>3
  <2> QED BY <2>4, <2>5, <2>6, <2>7 DEF m
<1> QED BY <1>1, <1>3, <1>4 DEF Hearing

-----------------------------------------------------------------------------
(* Steps that leave the negotiation alone.                                   *)

\* As far as descriptions go, wire r carries what q did.
SameSdp(q, r) ==
  /\ \A id \in Nat : /\ OfferIn(r, id) <=> OfferIn(q, id)
                     /\ AnswerIn(r, id) <=> AnswerIn(q, id)
                     /\ Open(r, id) <=> Open(q, id)
  /\ HasOffer(r) <=> HasOffer(q)
  /\ HasAnswer(r) <=> HasAnswer(q)
  /\ OneOffer(q) => OneOffer(r)
  /\ OneAnswer(q) => OneAnswer(r)
  /\ AnswersFirst(q) => AnswersFirst(r)
  /\ Apart(q) => Apart(r)
  /\ \A g \in Nat : FitsAll(q, g) => FitsAll(r, g)

LEMMA SameWire ==
  ASSUME NEW q \in Seq(Msgs)
  PROVE  /\ SameSdp(q, q)
         /\ q # <<>> /\ Head(q).t \notin Sdp => SameSdp(q, Tail(q))
         /\ \A m \in Msgs : m.t \notin Sdp => SameSdp(q, Append(q, m))
<1>1. SameSdp(q, q)
  BY DEF SameSdp
<1>2. q # <<>> /\ Head(q).t \notin Sdp => SameSdp(q, Tail(q))
  <2> SUFFICES ASSUME q # <<>>, Head(q).t \notin Sdp PROVE SameSdp(q, Tail(q))
    OBVIOUS
  <2>1. /\ \A id \in Nat : OfferIn(Tail(q), id) => OfferIn(q, id)
        /\ \A id \in Nat : AnswerIn(Tail(q), id) => AnswerIn(q, id)
        /\ HasOffer(Tail(q)) => HasOffer(q)
        /\ HasAnswer(Tail(q)) => HasAnswer(q)
        /\ OneOffer(q) => OneOffer(Tail(q))
        /\ OneAnswer(q) => OneAnswer(Tail(q))
        /\ AnswersFirst(q) => AnswersFirst(Tail(q))
        /\ Apart(q) => Apart(Tail(q))
        /\ \A g \in Nat : FitsAll(q, g) => FitsAll(Tail(q), g)
    BY TailLess
  <2>2. /\ \A id \in Nat : OfferIn(q, id) => OfferIn(Tail(q), id)
        /\ \A id \in Nat : AnswerIn(q, id) => AnswerIn(Tail(q), id)
        /\ \A id \in Nat : Open(Tail(q), id) <=> Open(q, id)
        /\ HasOffer(q) => HasOffer(Tail(q))
        /\ HasAnswer(q) => HasAnswer(Tail(q))
    BY TailOther
  <2> QED BY <2>1, <2>2 DEF SameSdp
<1>3. ASSUME NEW m \in Msgs, m.t \notin Sdp PROVE SameSdp(q, Append(q, m))
  <2>1. /\ \A id \in Nat : OfferIn(q, id) => OfferIn(Append(q, m), id)
        /\ \A id \in Nat : AnswerIn(q, id) => AnswerIn(Append(q, m), id)
        /\ HasOffer(q) => HasOffer(Append(q, m))
        /\ HasAnswer(q) => HasAnswer(Append(q, m))
        /\ \A g \in Nat : FitsAll(q, g) => FitsAll(Append(q, m), g)
    BY <1>3, PutMore
  <2>2. /\ \A id \in Nat : OfferIn(Append(q, m), id) => OfferIn(q, id)
        /\ \A id \in Nat : AnswerIn(Append(q, m), id) => AnswerIn(q, id)
        /\ \A id \in Nat : Open(Append(q, m), id) <=> Open(q, id)
        /\ HasOffer(Append(q, m)) => HasOffer(q)
        /\ HasAnswer(Append(q, m)) => HasAnswer(q)
        /\ OneOffer(q) => OneOffer(Append(q, m))
        /\ OneAnswer(q) => OneAnswer(Append(q, m))
        /\ AnswersFirst(q) => AnswersFirst(Append(q, m))
        /\ Apart(q) => Apart(Append(q, m))
    BY <1>3, PutOther
  <2> QED BY <2>1, <2>2 DEF SameSdp
<1> QED BY <1>1, <1>2, <1>3

LEMMA SaidSame ==
  ASSUME TypeInv, NEW u \in Sides, Says(u, Talk) PROVE SameSdp(wire[u], wire'[u])
<1>1. wire[u] \in Seq(Msgs)
  BY DEF TypeInv
<1>2. CASE wire'[u] = wire[u]
  BY <1>1, <1>2, SameWire
<1>3. CASE wire'[u] # wire[u]
  <2>1. PICK m \in Msgs : m.t \in Talk /\ wire'[u] = Append(wire[u], m)
    BY <1>3 DEF Says
  <2>2. m.t \notin Sdp
    BY <2>1 DEF Talk, Sdp
  <2> QED BY <1>1, <2>1, <2>2, SameWire
<1> QED BY <1>2, <1>3

\* The connection of u negotiates as before, with no less of its voice.
IsKept(p, q) ==
  /\ p \in Conns /\ q \in Conns /\ q.gen = p.gen /\ q.far = p.far /\ q.sig = p.sig /\ q.chain = p.chain
  /\ q.makingOffer = p.makingOffer /\ q.sent = p.sent /\ q.local = p.local /\ q.remote = p.remote
  /\ "mic" \in p.tracks => "mic" \in q.tracks
Keeps(u) == pc'[u] = pc[u] \/ IsKept(pc[u], pc'[u])

LEMMA Kept ==
  ASSUME NEW u, Keeps(u)
  PROVE  /\ HasPeer(u)' <=> HasPeer(u)
         /\ pc'[u].gen = pc[u].gen
         /\ \A id : (Takes(u, id)' <=> Takes(u, id)) /\ (Waits(u, id)' <=> Waits(u, id))
         /\ Taken(u)' <=> Taken(u)
         /\ Free(u)' <=> Free(u)
         /\ HasRemote(u)' <=> HasRemote(u)
<1>1. CASE pc'[u] = pc[u]
  BY <1>1 DEF HasPeer, Takes, Waits, Taken, Free, HasRemote
<1>2. CASE IsKept(pc[u], pc'[u])
  <2>1. HasPeer(u)' /\ HasPeer(u)
    BY <1>2, ConnsArePeers DEF IsKept, HasPeer
  <2> QED BY <1>2, <2>1 DEF IsKept, Takes, Waits, Taken, Free, HasRemote
<1> QED BY <1>1, <1>2 DEF Keeps

LEMMA ShapeKept ==
  ASSUME NEW s, NEW p, NEW q, IsKept(p, q), Shape(s, p) PROVE Shape(s, q)
BY DEF Shape, IsKept

LEMMA Gens == ASSUME TypeInv, NEW u \in Sides PROVE pc[u].gen \in Nat
BY DEF TypeInv, Conns, NoPeer

LEMMA QuietMatching ==
  ASSUME TypeInv, Matching, UNCHANGED joined,
         \A u \in Sides : Keeps(u) /\ SameSdp(wire[u], wire'[u])
  PROVE  Matching'
<1>1. ASSUME NEW u \in Sides PROVE AnswersWaited(u)' /\ (HasPeer(u)' => Shape(u, pc'[u]))
  <2>1. Keeps(u) /\ AnswersWaited(u) /\ (HasPeer(u) => Shape(u, pc[u])) /\ SameSdp(wire[u], wire'[u])
    BY DEF Matching
  <2>2. AnswersWaited(u)'
    BY <2>1, Kept DEF AnswersWaited, SameSdp
  <2>3. HasPeer(u)' => Shape(u, pc'[u])
    BY <2>1, Kept, ShapeKept DEF Keeps
  <2> QED BY <2>2, <2>3
<1>2. ToLo'
  <2>1. "lo" \in Sides /\ Keeps("lo") /\ SameSdp(wire["lo"], wire'["lo"]) /\ ToLo
    BY DEF Sides, Matching
  <2>2. Taken("lo")' <=> Taken("lo")
    BY <2>1, Kept
  <2> QED BY <2>1, <2>2 DEF ToLo, SameSdp
<1>3. ToHi'
  <2>1. "hi" \in Sides /\ Keeps("hi") /\ SameSdp(wire["hi"], wire'["hi"]) /\ ToHi
    BY DEF Sides, Matching
  <2>2. Taken("hi")' <=> Taken("hi")
    BY <2>1, Kept
  <2> QED BY <2>1, <2>2 DEF ToHi, SameSdp
<1> QED BY <1>1, <1>2, <1>3 DEF Matching

LEMMA QuietDialogue ==
  ASSUME TypeInv, Dialogue, UNCHANGED joined, lostOffer => lostOffer',
         \A u \in Sides : Keeps(u) /\ SameSdp(wire[u], wire'[u])
  PROVE  Dialogue'
<1> SUFFICES ASSUME Both' PROVE Dialogue'
  BY DEF Dialogue
<1>1. /\ OffersOfHi /\ OffersOfLo /\ HiWaits /\ HiAnswered /\ LoWaits /\ LoLate
      /\ \A s \in Sides : Voiced(s) /\ Fitting(s)
  BY DEF Dialogue, Both
<1>2. /\ "lo" \in Sides /\ "hi" \in Sides /\ Keeps("lo") /\ Keeps("hi")
      /\ SameSdp(wire["lo"], wire'["lo"]) /\ SameSdp(wire["hi"], wire'["hi"])
  BY DEF Sides
<1>3. /\ (HasPeer("lo")' <=> HasPeer("lo")) /\ (Taken("lo")' <=> Taken("lo"))
      /\ (Free("lo")' <=> Free("lo")) /\ (HasRemote("lo")' <=> HasRemote("lo"))
      /\ \A id : (Takes("lo", id)' <=> Takes("lo", id)) /\ (Waits("lo", id)' <=> Waits("lo", id))
  BY <1>2, Kept
<1>4. /\ (HasPeer("hi")' <=> HasPeer("hi")) /\ (Taken("hi")' <=> Taken("hi"))
      /\ (Free("hi")' <=> Free("hi")) /\ (HasRemote("hi")' <=> HasRemote("hi"))
      /\ \A id : (Takes("hi", id)' <=> Takes("hi", id)) /\ (Waits("hi", id)' <=> Waits("hi", id))
  BY <1>2, Kept
<1>5. /\ pc'["lo"] = pc["lo"] \/ IsKept(pc["lo"], pc'["lo"])
      /\ pc'["hi"] = pc["hi"] \/ IsKept(pc["hi"], pc'["hi"])
  BY <1>2 DEF Keeps
<1>6. (Answered("lo")' <=> Answered("lo")) /\ (Answered("hi")' <=> Answered("hi"))
  BY <1>2, <1>3, <1>4, <1>5 DEF Answered, SameSdp, IsKept
<1>7. OffersOfHi'
  BY <1>1, <1>2, <1>3, <1>4 DEF OffersOfHi, SameSdp
<1>8. OffersOfLo'
  BY <1>1, <1>2, <1>3, <1>4, <1>6 DEF OffersOfLo, SameSdp
<1>9. ASSUME NEW s \in Sides PROVE Voiced(s)' /\ Fitting(s)'
  <2>1. /\ Voiced(s) /\ Fitting(s) /\ SameSdp(wire[s], wire'[s]) /\ Other(s) \in Sides
        /\ pc'[s] = pc[s] \/ IsKept(pc[s], pc'[s])
    BY <1>1, TheSides DEF Keeps
  <2>2. /\ (HasPeer(s)' <=> HasPeer(s)) /\ (HasPeer(Other(s))' <=> HasPeer(Other(s)))
        /\ pc'[Other(s)].gen = pc[Other(s)].gen /\ pc[Other(s)].gen \in Nat
    BY <2>1, Kept, Gens
  <2>3. Voiced(s)'
    BY <2>1, <2>2 DEF Voiced, IsKept
  <2>4. Fitting(s)'
    BY <2>1, <2>2 DEF Fitting, SameSdp
  <2> QED BY <2>3, <2>4
<1>10. HiWaits'
  BY <1>1, <1>2, <1>3, <1>4, <1>5, <1>6 DEF HiWaits, SameSdp, IsKept
<1>11. (LoHeard => LoHeard') /\ (LoSpared => LoSpared')
  BY <1>3, <1>5 DEF LoHeard, LoSpared, IsKept
<1>12. HiAnswered'
  BY <1>1, <1>6, <1>11 DEF HiAnswered
<1>13. LoWaits'
  BY <1>1, <1>2, <1>3, <1>4, <1>5, <1>6, <1>11 DEF LoWaits, SameSdp, IsKept
<1>14. LoLate'
  BY <1>1, <1>2, <1>3, <1>5 DEF LoLate, SameSdp, IsKept
<1> QED BY <1>7, <1>8, <1>9, <1>10, <1>12, <1>13, <1>14 DEF Dialogue

LEMMA Unsharing ==
  ASSUME TypeInv, NEW s \in Sides, pc' = Untracked(s)
  PROVE  \A u \in Sides : Keeps(u)
<1>0. pc \in [Sides -> Conns \union {NoPeer}]
  BY DEF TypeInv
<1>1. CASE ~HasPeer(s)
  BY <1>1 DEF Untracked, Keeps
<1>2. CASE HasPeer(s)
  <2>1. pc[s] \in Conns /\ pc' = [pc EXCEPT ![s].tracks = @ \ {"screen"}]
    BY <1>0, <1>2 DEF HasPeer, Untracked
  <2>2. PICK q : q = [pc[s] EXCEPT !.tracks = @ \ {"screen"}]
    OBVIOUS
  <2>3. IsKept(pc[s], q)
    BY <2>1, <2>2 DEF IsKept, Conns, Tracks
  <2>4. pc'[s] = q /\ \A u \in Sides : u # s => pc'[u] = pc[u]
    BY <1>0, <2>1, <2>2
  <2> QED BY <2>3, <2>4 DEF Keeps
<1> QED BY <1>1, <1>2

LEMMA Spoken ==
  ASSUME TypeInv, RosterInv, Hearing, NEW s \in Sides, NEW T, NEW m \in Msgs, m.t \in T, m.who = {},
         wire' = Sent(s, <<m>>) \/ wire' = wire
  PROVE  \A u \in Sides : Says(u, T)
<1>0. wire \in [Sides -> Seq(Msgs)] /\ Other(s) \in Sides
  BY TheSides DEF TypeInv
<1>1. wire' = wire \/ wire' = IF Up(s) THEN [wire EXCEPT ![Other(s)] = Append(@, m)] ELSE wire
  BY <1>0, Sending
<1>2. ASSUME NEW u \in Sides PROVE wire'[u] = wire[u] \/ (Both /\ wire'[u] = Append(wire[u], m))
  BY <1>0, <1>1, Present
<1> QED BY <1>2 DEF Says

LEMMA QuietUser ==
  ASSUME TypeInv, RosterInv, Hearing, NEW s \in Sides, StartShare(s) \/ StopShare(s) \/ Click(s)
  PROVE  /\ UNCHANGED <<joined, online, lostOffer>>
         /\ \A u \in Sides : Keeps(u) /\ Says(u, Talk)
<1>0. /\ wire \in [Sides -> Seq(Msgs)] /\ pc \in [Sides -> Conns \union {NoPeer}]
      /\ watching \in [Sides -> BOOLEAN]
  BY DEF TypeInv
<1>t. "state" \in Talk /\ "watch" \in Talk
  BY DEF Talk
<1>1. CASE StartShare(s)
  <2>1. /\ UNCHANGED <<joined, online, lostOffer, pc>>
        /\ wire' = Sent(s, <<[Msg("state") EXCEPT !.on = TRUE]>>) \/ wire' = wire
    BY <1>1 DEF StartShare, history
  <2>2. /\ [Msg("state") EXCEPT !.on = TRUE] \in Msgs
        /\ [Msg("state") EXCEPT !.on = TRUE].t \in Talk
        /\ [Msg("state") EXCEPT !.on = TRUE].who = {}
    <3>1. /\ [Msg("state") EXCEPT !.on = TRUE] \in Msgs
          /\ [Msg("state") EXCEPT !.on = TRUE].t = "state"
          /\ [Msg("state") EXCEPT !.on = TRUE].who = {}
      BY Messages
    <3> QED BY <1>t, <3>1
  <2>3. \A u \in Sides : Says(u, Talk)
    BY <2>1, <2>2, Spoken
  <2> QED BY <2>1, <2>3 DEF Keeps
<1>2. CASE StopShare(s)
  <2>1. /\ UNCHANGED <<joined, online, lostOffer>> /\ pc' = Untracked(s)
        /\ wire' = Sent(s, <<Msg("state")>>) \/ wire' = wire
    BY <1>2 DEF StopShare, history
  <2>2. Msg("state") \in Msgs /\ Msg("state").t \in Talk /\ Msg("state").who = {}
    BY <1>t, Messages
  <2>3. \A u \in Sides : Says(u, Talk)
    BY <2>1, <2>2, Spoken
  <2>4. \A u \in Sides : Keeps(u)
    BY <2>1, Unsharing
  <2> QED BY <2>1, <2>3, <2>4
<1>3. CASE Click(s)
  <2>1. PICK on \in BOOLEAN : on = ~watching[s]
    OBVIOUS
  <2>2. /\ UNCHANGED <<joined, online, lostOffer, pc>> /\ (wire' = Sent(s, Asks(s, on)) \/ wire' = wire)
    BY <1>3, <2>1 DEF Click, SetWatching, history
  <2>3. Asks(s, on) = <<>> \/ Asks(s, on) = <<Watch(on)>>
    BY <1>0, Asking
  <2>4. Watch(on) \in Msgs /\ Watch(on).t \in Talk /\ Watch(on).who = {} /\ Sent(s, <<>>) = wire
    BY <1>0, <1>t, Messages, Sending
  <2>5. wire' = Sent(s, <<Watch(on)>>) \/ wire' = wire
    BY <2>2, <2>3, <2>4
  <2>6. \A u \in Sides : Says(u, Talk)
    BY <2>4, <2>5, Spoken
  <2> QED BY <2>2, <2>6 DEF Keeps
<1> QED BY <1>1, <1>2, <1>3

\* What s takes from the wire when it makes no connection, ends none and hears
\* no description.
LEMMA QuietReceive ==
  ASSUME TypeInv, RosterInv, Hearing, NEW s \in Sides, Receive(s), joined[s],
         LET m == Head(wire[s])
         IN \/ OnState(s, m) \/ OnWatch(s, m)
            \/ OnRoster(s, m) /\ (HasPeer(s) <=> Other(s) \in m.who)
  PROVE  /\ UNCHANGED <<joined, online, lostOffer>> /\ wire[s] # <<>> /\ wire'[s] = Tail(wire[s])
         /\ Head(wire[s]).t \notin Sdp
         /\ HasPeer(s) \/ Alone(s, Head(wire[s]))
         /\ Says(Other(s), Talk) /\ \A u \in Sides : Keeps(u)
<1> USE TheSides
<1> DEFINE m == Head(wire[s])
           o == Other(s)
<1>0. /\ wire[s] # <<>> /\ m \in Msgs /\ UNCHANGED <<online, lostOffer>>
      /\ wire \in [Sides -> Seq(Msgs)] /\ pc \in [Sides -> Conns \union {NoPeer}]
      /\ Rest(s)[s] = Tail(wire[s]) /\ Rest(s)[o] = wire[o]
  BY Resting DEF Receive, TypeInv, OnState, OnWatch, OnRoster, history
<1>m. OnState(s, m) \/ OnWatch(s, m) \/ (OnRoster(s, m) /\ (HasPeer(s) <=> o \in m.who))
  OBVIOUS
<1> HIDE DEF m
<1>1. CASE OnState(s, m)
  <2>1. PICK on \in BOOLEAN : on = (IF m.on THEN watching[s] \/ (~seesLive[s] /\ AutoWatch[s]) ELSE FALSE)
    BY ConstantsAssumption DEF TypeInv
  <2>2. /\ m.t = "state" /\ pc' = pc /\ UNCHANGED joined /\ HasPeer(s)
        /\ wire' = [Rest(s) EXCEPT ![Other(s)] = IF Up(s) THEN @ \o Asks(s, on) ELSE @]
    BY <1>1, <2>1 DEF OnState
  <2>3. /\ wire'[s] = Tail(wire[s])
        /\ wire'[o] = wire[o] \/ (Up(s) /\ wire'[o] = Append(wire[o], Watch(on)))
    BY <1>0, <2>2, Answering
  <2>4. Watch(on) \in Msgs /\ Watch(on).t = "watch" /\ Watch(on).who = {}
    BY Messages
  <2>5. Says(o, Talk)
    BY <2>3, <2>4, Present DEF Says, Talk
  <2> QED BY <1>0, <2>2, <2>3, <2>5 DEF Keeps, Sdp, m
<1>2. CASE OnWatch(s, m)
  <2>1. wire' = Rest(s) /\ m.t = "watch" /\ HasPeer(s) /\ UNCHANGED joined
    BY <1>2 DEF OnWatch
  <2>2. pc[s] \in Conns
    BY <1>0, <2>1 DEF HasPeer
  <2>3. \A u \in Sides : Keeps(u)
    <3>1. CASE pc' = pc
      BY <3>1 DEF Keeps
    <3>2. CASE pc' = Untracked(s)
      BY <3>2, Unsharing
    <3>3. CASE pc' = [pc EXCEPT ![s].tracks = @ \union {"screen"}]
      <4>1. PICK q : q = [pc[s] EXCEPT !.tracks = @ \union {"screen"}]
        OBVIOUS
      <4>2. IsKept(pc[s], q)
        BY <2>2, <4>1 DEF IsKept, Conns, Tracks
      <4>3. pc'[s] = q /\ \A u \in Sides : u # s => pc'[u] = pc[u]
        BY <1>0, <3>3, <4>1
      <4> QED BY <4>2, <4>3 DEF Keeps
    <3> QED BY <1>2, <3>1, <3>2, <3>3 DEF OnWatch
  <2> QED BY <1>0, <2>1, <2>3 DEF Says, Sdp, m
<1>3. CASE OnRoster(s, m) /\ HasPeer(s) /\ o \in m.who
  <2>1. wire' = Rest(s) /\ m.t = "roster" /\ UNCHANGED <<joined, pc>>
    BY <1>3 DEF OnRoster
  <2> QED BY <1>0, <1>3, <2>1 DEF Says, Keeps, Sdp, m
<1>4. CASE OnRoster(s, m) /\ ~HasPeer(s) /\ o \notin m.who
  <2>1. wire' = Rest(s) /\ m.t = "roster" /\ UNCHANGED joined /\ pc' = [pc EXCEPT ![s] = NoPeer]
    BY <1>4 DEF OnRoster, DropPeer
  <2>2. pc' = pc
    BY <1>0, <1>4, <2>1 DEF HasPeer
  <2> QED BY <1>0, <1>4, <2>1, <2>2 DEF Says, Keeps, Sdp, Alone, m
<1> QED BY <1>m, <1>1, <1>2, <1>3, <1>4

\* The invariant of the calm, when a step leaves the negotiation alone.
Going == Hearing /\ Matching /\ Dialogue

LEMMA QuietGoing ==
  ASSUME TypeInv, RosterInv, Going, NEW s \in Sides,
         \/ StartShare(s) \/ StopShare(s) \/ Click(s)
         \/ /\ Receive(s) /\ joined[s]
            /\ LET m == Head(wire[s])
               IN \/ OnState(s, m) \/ OnWatch(s, m)
                  \/ OnRoster(s, m) /\ (HasPeer(s) <=> Other(s) \in m.who)
  PROVE  Going'
<1> USE TheSides
<1>0. Hearing /\ Matching /\ Dialogue /\ wire \in [Sides -> Seq(Msgs)]
  BY DEF Going, TypeInv
<1>w. ASSUME UNCHANGED <<joined, online, lostOffer>>,
             \A u \in Sides : Keeps(u) /\ SameSdp(wire[u], wire'[u]) /\ Named(wire'[u]) /\ Heard(u)'
      PROVE  Going'
  BY <1>0, <1>w, QuietMatching, QuietDialogue DEF Going, Hearing
<1>1. CASE StartShare(s) \/ StopShare(s) \/ Click(s)
  <2>1. /\ UNCHANGED <<joined, online, lostOffer>>
        /\ \A u \in Sides : Keeps(u) /\ Says(u, Talk)
    BY <1>0, <1>1, QuietUser
  <2>2. ASSUME NEW u \in Sides PROVE SameSdp(wire[u], wire'[u]) /\ Named(wire'[u]) /\ Heard(u)'
    <3>1. HasPeer(u)' <=> HasPeer(u)
      BY <2>1, Kept
    <3>2. Says(u, Talk \union Sdp)
      BY <2>1 DEF Says
    <3> QED BY <1>0, <2>1, <3>1, <3>2, SaidSame, HeardSaid
  <2> QED BY <1>w, <2>1, <2>2
<1>2. CASE ~(StartShare(s) \/ StopShare(s) \/ Click(s))
  <2>1. /\ UNCHANGED <<joined, online, lostOffer>> /\ wire[s] # <<>> /\ wire'[s] = Tail(wire[s])
        /\ Head(wire[s]).t \notin Sdp
        /\ HasPeer(s) \/ Alone(s, Head(wire[s]))
        /\ Says(Other(s), Talk) /\ \A u \in Sides : Keeps(u)
    BY <1>0, <1>2, QuietReceive
  <2>2. \A u \in Sides : HasPeer(u)' <=> HasPeer(u)
    BY <2>1, Kept
  <2>3. Named(wire'[s]) /\ Heard(s)'
    BY <1>0, <2>1, <2>2, HeardTaken
  <2>4. Says(Other(s), Talk \union Sdp)
    BY <2>1 DEF Says
  <2>5. Named(wire'[Other(s)]) /\ Heard(Other(s))' /\ SameSdp(wire[Other(s)], wire'[Other(s)])
    BY <1>0, <2>1, <2>2, <2>4, SaidSame, HeardSaid
  <2>6. SameSdp(wire[s], wire'[s])
    BY <1>0, <2>1, SameWire
  <2>7. \A u \in Sides : SameSdp(wire[u], wire'[u]) /\ Named(wire'[u]) /\ Heard(u)'
    BY <2>3, <2>5, <2>6
  <2> QED BY <1>w, <2>1, <2>7
<1> QED BY <1>1, <1>2

-----------------------------------------------------------------------------
(* Connections come and go.                                                  *)

\* Without a connection there is nothing that takes, waits or answers.
LEMMA Nobody ==
  ASSUME NEW u, ~HasPeer(u)'
  PROVE  ~Taken(u)' /\ ~HasRemote(u)' /\ \A id : ~Takes(u, id)' /\ ~Waits(u, id)'
BY DEF Taken, HasRemote, Takes, Waits

LEMMA JoinGoing ==
  ASSUME TypeInv, RosterInv, Going, NEW s \in Sides, Join(s), ~rushed'
  PROVE  Going'
<1>1. /\ Hearing' /\ \A u \in Sides : ~HasPeer(u)'
      /\ \A u \in Sides : \A i \in DOMAIN wire'[u] : wire'[u][i].t = "roster"
  BY HeardJoin DEF Going
<1>2. ASSUME NEW u \in Sides
      PROVE  /\ ~Taken(u)' /\ ~HasRemote(u)' /\ \A id : ~Takes(u, id)' /\ ~Waits(u, id)'
             /\ ~HasOffer(wire'[u]) /\ ~HasAnswer(wire'[u]) /\ OneOffer(wire'[u]) /\ OneAnswer(wire'[u])
             /\ AnswersFirst(wire'[u]) /\ Apart(wire'[u])
             /\ \A id \in Nat : ~OfferIn(wire'[u], id) /\ ~AnswerIn(wire'[u], id) /\ ~Open(wire'[u], id)
             /\ \A g \in Nat : FitsAll(wire'[u], g)
             /\ FitsAll(wire'[u], pc'[Other(u)].gen)
             /\ ~Answered(u)'
  <2>1. ~Taken(u)' /\ ~HasRemote(u)' /\ \A id : ~Takes(u, id)' /\ ~Waits(u, id)'
    BY <1>1, Nobody
  <2>2. /\ ~HasOffer(wire'[u]) /\ ~HasAnswer(wire'[u]) /\ OneOffer(wire'[u]) /\ OneAnswer(wire'[u])
        /\ AnswersFirst(wire'[u]) /\ Apart(wire'[u])
        /\ \A id \in Nat : ~OfferIn(wire'[u], id) /\ ~AnswerIn(wire'[u], id) /\ ~Open(wire'[u], id)
        /\ \A g \in Nat : FitsAll(wire'[u], g)
    BY <1>1, NoSdp
  <2>3. FitsAll(wire'[u], pc'[Other(u)].gen)
    BY <1>1 DEF FitsAll, Sdp
  <2>4. ~Answered(u)'
    BY <1>1, <2>2 DEF Answered
  <2> QED BY <2>1, <2>2, <2>3, <2>4
<1>3. "lo" \in Sides /\ "hi" \in Sides
  BY DEF Sides
<1>4. Matching'
  BY <1>1, <1>2, <1>3 DEF Matching, AnswersWaited, ToLo, ToHi
<1>5. OffersOfHi' /\ OffersOfLo'
  BY <1>2, <1>3 DEF OffersOfHi, OffersOfLo
<1>6. HiWaits' /\ HiAnswered' /\ LoWaits' /\ LoLate'
  BY <1>1, <1>2, <1>3 DEF HiWaits, HiAnswered, LoWaits, LoLate
<1>7. \A u \in Sides : Voiced(u)' /\ Fitting(u)'
  BY <1>1, <1>2 DEF Voiced, Fitting
<1>8. Dialogue'
  BY <1>5, <1>6, <1>7 DEF Dialogue
<1> QED BY <1>1, <1>4, <1>8 DEF Going

\* The other's connection is not touched.
LEMMA Same == ASSUME NEW u, pc'[u] = pc[u] PROVE Keeps(u)
BY DEF Keeps

\* After one is gone there is no dialogue, and each wire is as good as before.
LEMMA GoneGoing ==
  ASSUME Matching, NEW s \in Sides, Hearing', ~Both', ~HasPeer(s)',
         pc'[Other(s)] = pc[Other(s)],
         \A u \in Sides : joined'[u] => joined[u],
         wire[s] \in Seq(Msgs), wire[Other(s)] \in Seq(Msgs),
         SameSdp(wire[Other(s)], wire'[Other(s)]),
         \/ joined'[s] /\ wire'[s] = <<>>
         \/ ~joined'[s] /\ (SameSdp(wire[s], wire'[s]) \/ (wire[s] # <<>> /\ wire'[s] = Tail(wire[s])))
  PROVE  Going'
<1> USE TheSides
<1>1. Dialogue'
  BY DEF Dialogue
<1>2. /\ Keeps(Other(s)) /\ AnswersWaited(Other(s)) /\ (HasPeer(Other(s)) => Shape(Other(s), pc[Other(s)]))
  BY Same DEF Matching
<1>3. AnswersWaited(Other(s))'
  BY <1>2, Kept DEF AnswersWaited, SameSdp
<1>4. HasPeer(Other(s))' => Shape(Other(s), pc'[Other(s)])
  BY <1>2, Kept
<1>5. AnswersWaited(s)'
  <2>1. CASE joined'[s]
    <3>1. \A i \in DOMAIN wire'[s] : wire'[s][i].t = "roster"
      BY <2>1
    <3> QED BY <3>1, NoSdp DEF AnswersWaited
  <2> QED BY <2>1 DEF AnswersWaited
<1>6. ~Taken(s)' /\ (Taken(Other(s))' <=> Taken(Other(s)))
  BY <1>2, Nobody, Kept
<1>7. /\ OneOffer(wire[s]) => OneOffer(wire'[s])
      /\ Apart(wire[s]) => Apart(wire'[s])
      /\ joined'[s] => AnswersFirst(wire'[s])
  <2>1. CASE joined'[s]
    <3>1. \A i \in DOMAIN wire'[s] : wire'[s][i].t = "roster"
      BY <2>1
    <3> QED BY <3>1, NoSdp
  <2>2. CASE SameSdp(wire[s], wire'[s]) /\ ~joined'[s]
    BY <2>2 DEF SameSdp
  <2>3. CASE wire[s] # <<>> /\ wire'[s] = Tail(wire[s]) /\ ~joined'[s]
    BY <2>3, TailLess
  <2> QED BY <2>1, <2>2, <2>3
<1>8. ToLo'
  <2>1. ToLo
    BY DEF Matching
  <2>2. CASE s = "lo"
    BY <1>6, <1>7, <2>1, <2>2 DEF ToLo
  <2>3. CASE Other(s) = "lo"
    BY <1>6, <2>1, <2>3 DEF ToLo, SameSdp
  <2> QED BY <2>2, <2>3 DEF Other, Sides
<1>9. ToHi'
  <2>1. ToHi
    BY DEF Matching
  <2>2. CASE s = "hi"
    BY <1>6, <1>7, <2>1, <2>2 DEF ToHi
  <2>3. CASE Other(s) = "hi"
    BY <1>6, <2>1, <2>3 DEF ToHi, SameSdp
  <2> QED BY <2>2, <2>3 DEF Other, Sides
<1>10. \A u \in Sides : AnswersWaited(u)' /\ (HasPeer(u)' => Shape(u, pc'[u]))
  BY <1>3, <1>4, <1>5
<1> QED BY <1>1, <1>8, <1>9, <1>10 DEF Going, Matching

LEMMA LeaveGoing ==
  ASSUME TypeInv, RosterInv, Going, NEW s \in Sides, Leave(s) PROVE Going'
<1> USE TheSides
<1>0. Hearing /\ Matching /\ wire \in [Sides -> Seq(Msgs)] /\ joined \in [Sides -> BOOLEAN]
      /\ roster \in SUBSET Sides
  BY DEF Going, TypeInv
<1>1. /\ Hearing' /\ ~Both' /\ ~HasPeer(s)' /\ pc'[Other(s)] = pc[Other(s)]
      /\ \A u \in Sides : wire'[u] = wire[u] \/ wire'[u] = Append(wire[u], Roster(roster \ {s}))
      /\ joined' = [joined EXCEPT ![s] = FALSE]
  BY <1>0, HeardLeave
<1>2. Roster(roster \ {s}) \in Msgs /\ Roster(roster \ {s}).t \notin Sdp
  <2>1. roster \ {s} \in SUBSET Sides
    BY <1>0
  <2> QED BY <2>1, Messages DEF Sdp
<1>3. ASSUME NEW u \in Sides PROVE SameSdp(wire[u], wire'[u])
  <2>1. wire[u] \in Seq(Msgs) /\ (wire'[u] = wire[u] \/ wire'[u] = Append(wire[u], Roster(roster \ {s})))
    BY <1>0, <1>1
  <2>2. SameSdp(wire[u], wire[u]) /\ SameSdp(wire[u], Append(wire[u], Roster(roster \ {s})))
    BY <1>2, <2>1, SameWire
  <2> QED BY <2>1, <2>2
<1>4. ~joined'[s] /\ \A u \in Sides : joined'[u] => joined[u]
  BY <1>0, <1>1
<1> QED BY <1>0, <1>1, <1>3, <1>4, GoneGoing

LEMMA UnheardGoing ==
  ASSUME TypeInv, RosterInv, Going, NEW s \in Sides, Receive(s), Unheard(s) PROVE Going'
<1> USE TheSides
<1>0. /\ Hearing /\ Matching /\ wire \in [Sides -> Seq(Msgs)] /\ wire[s] # <<>> /\ ~joined[s]
      /\ UNCHANGED <<joined, online, pc>> /\ wire' = Rest(s)
  BY DEF Going, TypeInv, Receive, Unheard, call
<1>1. wire'[s] = Tail(wire[s]) /\ wire'[Other(s)] = wire[Other(s)]
  BY <1>0, Resting
<1>2. Named(wire'[s]) /\ Heard(s)'
  BY <1>0, <1>1, HeardTaken
<1>3. Named(wire'[Other(s)]) /\ Heard(Other(s))'
  BY <1>0, <1>1 DEF Hearing, Heard, HasPeer
<1>4. Hearing'
  BY <1>0, <1>2, <1>3 DEF Hearing
<1>5. ~HasPeer(s)' /\ ~Both'
  BY <1>0, Present DEF HasPeer, Both, Sides
<1>6. SameSdp(wire[Other(s)], wire'[Other(s)])
  BY <1>0, <1>1, SameWire
<1> QED BY <1>0, <1>1, <1>4, <1>5, <1>6, GoneGoing

\* The connection is dropped with the last message there is.
LEMMA DropPeerGoing ==
  ASSUME TypeInv, RosterInv, Going, NEW s \in Sides, Receive(s), joined[s],
         HasPeer(s), OnRoster(s, Head(wire[s])), Other(s) \notin Head(wire[s]).who
  PROVE  Going'
<1> USE TheSides
<1>0. /\ Hearing /\ Matching /\ wire \in [Sides -> Seq(Msgs)] /\ wire[s] # <<>>
      /\ UNCHANGED <<joined, online>> /\ wire' = Rest(s) /\ pc' = [pc EXCEPT ![s] = NoPeer]
      /\ pc \in [Sides -> Conns \union {NoPeer}] /\ Head(wire[s]).t = "roster"
  BY DEF Going, TypeInv, Receive, OnRoster, DropPeer
<1>1. wire'[s] = Tail(wire[s]) /\ wire'[Other(s)] = wire[Other(s)] /\ wire[s] \in Seq(Msgs)
  BY <1>0, Resting
<1>2. ~HasPeer(s)' /\ pc'[Other(s)] = pc[Other(s)]
  BY <1>0 DEF HasPeer
<1>3. Alone(s, Head(wire[s])) /\ Heard(s)
  BY <1>0 DEF Alone, Hearing
<1>4. wire'[s] = <<>> /\ ~joined[Other(s)]
  BY <1>0, <1>1, <1>3, AloneTail DEF Heard
<1>5. Named(wire'[s]) /\ Heard(s)'
  BY <1>0, <1>1, <1>2, <1>3, HeardTaken
<1>6. Named(wire'[Other(s)]) /\ Heard(Other(s))'
  BY <1>0, <1>1, <1>2 DEF Hearing, Heard, HasPeer
<1>7. Hearing'
  BY <1>0, <1>5, <1>6 DEF Hearing
<1>8. ~Both'
  BY <1>0, <1>4, Present DEF Both
<1>9. SameSdp(wire[Other(s)], wire'[Other(s)])
  BY <1>0, <1>1, SameWire
<1> QED BY <1>0, <1>1, <1>2, <1>4, <1>7, <1>8, <1>9, GoneGoing

\* Of somebody unknown a roster comes first.
LEMMA NoStranger ==
  ASSUME TypeInv, Hearing, NEW s \in Sides, Receive(s), joined[s], ~HasPeer(s)
  PROVE  Head(wire[s]).t = "roster"
<1>1. wire[s] # <<>> /\ wire[s] \in Seq(Msgs) /\ Heard(s)
  BY DEF Receive, TypeInv, Hearing
<1> QED BY <1>1, AloneTail DEF Heard

LEMMA CreateGoing ==
  ASSUME TypeInv, RosterInv, Going, NEW s \in Sides, Receive(s), joined[s],
         ~HasPeer(s), OnRoster(s, Head(wire[s])), Other(s) \in Head(wire[s]).who
  PROVE  Going'
<1> USE TheSides
<1> DEFINE o == Other(s)
<1>0. /\ Hearing /\ Matching /\ wire \in [Sides -> Seq(Msgs)] /\ wire[s] # <<>> /\ wire[s] \in Seq(Msgs)
      /\ UNCHANGED <<joined, online, lostOffer>> /\ Create(s, Rest(s)) /\ Head(wire[s]).t = "roster"
      /\ Rest(s) \in [Sides -> Seq(Msgs)] /\ pc \in [Sides -> Conns \union {NoPeer}]
  BY Resting DEF Going, TypeInv, Receive, OnRoster, history
<1>1. /\ pc' = [pc EXCEPT ![s] = NewPeer(s)] /\ NewPeer(s) \in Conns
      /\ wire' = IF Up(s) THEN [Rest(s) EXCEPT ![o] = Append(@, State(s))] ELSE Rest(s)
  BY <1>0, Creating
<1>2. /\ State(s) \in Msgs /\ State(s).t = "state" /\ State(s).who = {}
  BY Messages DEF State, TypeInv
<1>3. /\ wire'[s] = Tail(wire[s])
      /\ wire'[o] = wire[o] \/ (Up(s) /\ wire'[o] = Append(wire[o], State(s)))
      /\ pc'[s] = NewPeer(s) /\ pc'[o] = pc[o]
  BY <1>0, <1>1, Resting
<1>4. Says(o, Talk) /\ Says(o, Talk \union Sdp)
  BY <1>0, <1>2, <1>3, Present DEF Says, Talk
<1>5. PICK q \in Conns :
        /\ pc'[s] = q /\ q.sig = "stable" /\ q.chain = <<>> /\ q.makingOffer = FALSE
        /\ q.tracks = {"mic"} /\ q.far = 0
  BY <1>1, <1>3 DEF NewPeer
<1>6. HasPeer(s)' /\ (HasPeer(o)' <=> HasPeer(o)) /\ Keeps(o)
  BY <1>3, <1>5, ConnsArePeers DEF HasPeer, Keeps
<1>7. /\ ~Taken(s) /\ ~HasRemote(s) /\ (\A id : ~Takes(s, id) /\ ~Waits(s, id))
      /\ ~Taken(s)' /\ ~HasRemote(s)' /\ (\A id : ~Takes(s, id)' /\ ~Waits(s, id)')
  <2>1. ~OpIn(<<>>, "offer") /\ \A id : ~OfferOp(<<>>, id)
    BY NoOps
  <2> QED BY <1>5, <1>6, <2>1 DEF Taken, HasRemote, Takes, Waits
<1>8. /\ (Taken(o)' <=> Taken(o)) /\ (HasRemote(o)' <=> HasRemote(o)) /\ (Free(o)' <=> Free(o))
      /\ \A id : (Takes(o, id)' <=> Takes(o, id)) /\ (Waits(o, id)' <=> Waits(o, id))
  BY <1>6, Kept
<1>9. SameSdp(wire[s], wire'[s]) /\ SameSdp(wire[o], wire'[o])
  <2>1. Head(wire[s]).t \notin Sdp
    BY <1>0 DEF Sdp
  <2> QED BY <1>0, <1>3, <1>4, <2>1, SameWire, SaidSame
<1>10. (Answered(s)' <=> Answered(s)) /\ (Answered(o)' <=> Answered(o))
  <2>1. ~OpIn(<<>>, "answer")
    BY NoOps
  <2>2. Answered(s)' <=> Answered(s)
    BY <1>5, <1>6, <1>9, <2>1 DEF Answered, SameSdp
  <2>3. Answered(o)' <=> Answered(o)
    BY <1>3, <1>6, <1>9 DEF Answered, SameSdp
  <2> QED BY <2>2, <2>3
<1>11. Hearing'
  <2>1. ~Alone(s, Head(wire[s]))
    BY DEF Alone
  <2>2. Named(wire'[s]) /\ Heard(s)'
    BY <1>0, <1>3, <1>6, <2>1, HeardTaken
  <2>3. Named(wire'[o]) /\ Heard(o)'
    BY <1>0, <1>4, <1>6, HeardSaid
  <2> QED BY <1>0, <2>2, <2>3 DEF Hearing
<1>12. Matching'
  <2>1. AnswersWaited(s)'
    BY <1>0, <1>7, <1>9 DEF Matching, AnswersWaited, SameSdp
  <2>2. AnswersWaited(o)'
    BY <1>0, <1>8, <1>9 DEF Matching, AnswersWaited, SameSdp
  <2>3. Shape(s, pc'[s]) /\ (HasPeer(o)' => Shape(o, pc'[o]))
    <3>1. Shape(s, pc'[s])
      BY <1>5 DEF Shape
    <3>2. HasPeer(o)' => Shape(o, pc'[o])
      BY <1>0, <1>3, <1>6 DEF Matching
    <3> QED BY <3>1, <3>2
  <2>4. ToLo'
    BY <1>0, <1>7, <1>8, <1>9 DEF Matching, ToLo, SameSdp, Other, Sides
  <2>5. ToHi'
    BY <1>0, <1>7, <1>8, <1>9 DEF Matching, ToHi, SameSdp, Other, Sides
  <2> QED BY <2>1, <2>2, <2>3, <2>4, <2>5 DEF Matching
<1>13. Dialogue'
  <2> SUFFICES ASSUME Both' PROVE Dialogue'
    BY DEF Dialogue
  <2>1. /\ OffersOfHi /\ OffersOfLo /\ HiWaits /\ HiAnswered /\ LoWaits /\ LoLate
        /\ \A u \in Sides : Voiced(u) /\ Fitting(u)
    BY <1>0 DEF Going, Dialogue, Both
  <2>2. (s = "lo" /\ o = "hi") \/ (s = "hi" /\ o = "lo")
    BY DEF Sides, Other
  <2>3. OffersOfHi'
    BY <1>7, <1>8, <1>9, <2>1, <2>2 DEF OffersOfHi, SameSdp
  <2>4. OffersOfLo'
    <3>1. CASE s = "lo" /\ o = "hi"
      BY <1>7, <1>8, <1>9, <1>10, <2>1, <3>1 DEF OffersOfLo, SameSdp
    <3>2. CASE s = "hi" /\ o = "lo"
      BY <1>7, <1>8, <1>9, <1>10, <2>1, <3>2 DEF OffersOfLo, SameSdp
    <3> QED BY <2>2, <3>1, <3>2
  <2>5. Voiced(s)'
    <3>1. DOMAIN <<>> = {}
      OBVIOUS
    <3> QED BY <1>5, <3>1 DEF Voiced
  <2>6. Voiced(o)'
    <3>1. Voiced(o) /\ Other(o) = s
      BY <2>1
    <3> QED BY <1>3, <1>6, <3>1 DEF Voiced
  <2>7. Fitting(s)'
    <3>1. Fitting(s) /\ pc[o].gen \in Nat
      BY <2>1, Gens
    <3> QED BY <1>3, <1>6, <1>9, <3>1 DEF Fitting, SameSdp
  <2>8. Fitting(o)'
    <3>1. Fitting(o) /\ Other(o) = s
      BY <2>1
    <3>2. ~HasOffer(wire'[o]) /\ ~HasAnswer(wire'[o])
      BY <1>9, <3>1 DEF Fitting, SameSdp
    <3>3. FitsAll(wire'[o], pc'[s].gen)
      BY <3>2 DEF FitsAll, Sdp, HasOffer, HasAnswer
    <3> QED BY <3>1, <3>2, <3>3 DEF Fitting
  <2>9. HiWaits'
    <3>1. CASE s = "hi"
      BY <1>5, <3>1 DEF HiWaits
    <3>2. CASE s = "lo" /\ o = "hi"
      BY <1>3, <1>6, <1>7, <1>9, <1>10, <2>1, <3>2 DEF HiWaits, SameSdp
    <3> QED BY <2>2, <3>1, <3>2
  <2>10. HiAnswered'
    <3>1. CASE s = "lo"
      BY <1>10, <2>1, <2>2, <3>1 DEF HiAnswered, LoHeard
    <3>2. CASE s = "hi"
      BY <1>3, <1>6, <1>10, <2>1, <2>2, <3>2 DEF HiAnswered, LoHeard
    <3> QED BY <2>2, <3>1, <3>2
  <2>11. LoWaits'
    <3>1. CASE s = "lo"
      BY <1>5, <3>1 DEF LoWaits
    <3>2. CASE s = "hi" /\ o = "lo"
      BY <1>0, <1>3, <1>6, <1>7, <1>8, <1>9, <1>10, <2>1, <3>2 DEF LoWaits, LoSpared, LoHeard, SameSdp
    <3> QED BY <2>2, <3>1, <3>2
  <2>12. LoLate'
    <3>1. CASE s = "lo"
      BY <1>5, <3>1 DEF LoLate
    <3>2. CASE s = "hi" /\ o = "lo"
      BY <1>3, <1>6, <1>9, <2>1, <3>2 DEF LoLate, SameSdp
    <3> QED BY <2>2, <3>1, <3>2
  <2> QED BY <2>2, <2>3, <2>4, <2>5, <2>6, <2>7, <2>8, <2>9, <2>10, <2>11, <2>12 DEF Dialogue, Sides
<1> QED BY <1>11, <1>12, <1>13 DEF Going

-----------------------------------------------------------------------------
(* The connection of s negotiates.                                           *)

\* What its change is, and that the other's is as before.
LEMMA Acted ==
  ASSUME TypeInv, NEW s \in Sides, NEW q \in Conns, pc[s] \in Conns, pc' = [pc EXCEPT ![s] = q]
  PROVE  /\ HasPeer(s) /\ HasPeer(s)' /\ pc'[s] = q /\ pc'[Other(s)] = pc[Other(s)]
         /\ Taken(s) <=> OpIn(pc[s].chain, "offer") \/ pc[s].sig = "have-remote"
         /\ Taken(s)' <=> OpIn(q.chain, "offer") \/ q.sig = "have-remote"
         /\ HasRemote(s) <=> pc[s].sig = "have-remote"
         /\ HasRemote(s)' <=> q.sig = "have-remote"
         /\ Free(s) <=> pc[s].chain = <<>>
         /\ Free(s)' <=> q.chain = <<>>
         /\ Answered(s) <=> HasAnswer(wire[s]) \/ OpIn(pc[s].chain, "answer")
         /\ Answered(s)' <=> HasAnswer(wire'[s]) \/ OpIn(q.chain, "answer")
         /\ \A id : /\ Takes(s, id) <=> \/ OfferOp(pc[s].chain, id)
                                        \/ pc[s].sig = "have-remote" /\ pc[s].remote.id = id
                    /\ Takes(s, id)' <=> OfferOp(q.chain, id) \/ (q.sig = "have-remote" /\ q.remote.id = id)
                    /\ Waits(s, id) <=> pc[s].sig = "have-local" /\ pc[s].local.id = id
                    /\ Waits(s, id)' <=> q.sig = "have-local" /\ q.local.id = id
<1>1. pc'[s] = q /\ pc'[Other(s)] = pc[Other(s)]
  BY TheSides DEF TypeInv
<1>2. HasPeer(s) /\ HasPeer(s)'
  BY <1>1, ConnsArePeers DEF HasPeer
<1> QED BY <1>1, <1>2 DEF Taken, HasRemote, Free, Answered, Takes, Waits

LEMMA Spared ==
  ASSUME NEW u, pc'[u] = pc[u]
  PROVE  /\ HasPeer(u)' <=> HasPeer(u)
         /\ Taken(u)' <=> Taken(u)
         /\ HasRemote(u)' <=> HasRemote(u)
         /\ Free(u)' <=> Free(u)
         /\ \A id : (Takes(u, id)' <=> Takes(u, id)) /\ (Waits(u, id)' <=> Waits(u, id))
         /\ (HasAnswer(wire'[u]) <=> HasAnswer(wire[u])) => (Answered(u)' <=> Answered(u))
         /\ (HasAnswer(wire'[u]) => HasAnswer(wire[u])) => (Answered(u)' => Answered(u))
BY DEF HasPeer, Taken, HasRemote, Free, Takes, Waits, Answered

\* Who takes an offer takes one in particular.
LEMMA TakenIds ==
  ASSUME TypeInv, NEW u \in Sides
  PROVE  /\ Taken(u) => \E id \in Nat : Takes(u, id)
         /\ HasRemote(u) => Taken(u)
<1>1. CASE pc[u] \in Conns
  <2>1. pc[u].chain \in Seq(Ops) /\ pc[u].remote.id \in Nat
    BY <1>1 DEF Conns, Descs
  <2>2. \A i \in DOMAIN pc[u].chain : pc[u].chain[i].d.id \in Nat
    <3>1. \A i \in DOMAIN pc[u].chain : pc[u].chain[i] \in Ops
      BY <2>1
    <3> QED BY <3>1 DEF Ops, Descs
  <2>3. OpIn(pc[u].chain, "offer") => \E id \in Nat : OfferOp(pc[u].chain, id)
    BY <2>2 DEF OpIn, OfferOp
  <2> QED BY <2>1, <2>3 DEF Taken, Takes, HasRemote
<1>2. CASE pc[u] = NoPeer
  BY <1>2 DEF Taken, HasRemote, HasPeer
<1> QED BY <1>1, <1>2 DEF TypeInv

\* Only answers to its own offer come to a side.
LEMMA NoAnswers ==
  ASSUME TypeInv, Matching, NEW s \in Sides, joined[s], pc[s].sig # "have-local" \/ pc[s].chain # <<>>
  PROVE  ~HasAnswer(wire[s]) /\ \A id \in Nat : ~AnswerIn(wire[s], id)
<1>1. \A id \in Nat : ~(Waits(s, id) /\ Free(s))
  BY DEF Waits, Free
<1>2. \A id \in Nat : ~AnswerIn(wire[s], id)
  BY <1>1 DEF Matching, AnswersWaited
<1>3. wire[s] \in Seq(Msgs)
  BY DEF TypeInv
<1> QED BY <1>2, <1>3, Ids

\* While the impolite side waits for nothing the polite one is offered nothing;
\* and while the polite one waits for nothing the impolite one takes nothing.
LEMMA NoneOffered ==
  ASSUME TypeInv, Dialogue, Both
  PROVE  /\ (\A id \in Nat : ~(Waits("hi", id) /\ Free("hi"))) =>
              /\ ~HasOffer(wire["lo"]) /\ ~Taken("lo")
              /\ \A id \in Nat : ~OfferIn(wire["lo"], id) /\ ~Takes("lo", id)
         /\ (\A id \in Nat : ~(Waits("lo", id) /\ Free("lo"))) =>
              ~Taken("hi") /\ \A id \in Nat : ~Takes("hi", id)
<1>1. OffersOfHi /\ OffersOfLo /\ "lo" \in Sides /\ "hi" \in Sides /\ wire["lo"] \in Seq(Msgs)
  BY DEF Dialogue, TypeInv, Sides
<1>2. ASSUME \A id \in Nat : ~(Waits("hi", id) /\ Free("hi"))
      PROVE  /\ ~HasOffer(wire["lo"]) /\ ~Taken("lo")
             /\ \A id \in Nat : ~OfferIn(wire["lo"], id) /\ ~Takes("lo", id)
  <2>1. \A id \in Nat : ~OfferIn(wire["lo"], id) /\ ~Takes("lo", id)
    BY <1>1, <1>2 DEF OffersOfHi
  <2> QED BY <1>1, <2>1, Ids, TakenIds
<1>3. ASSUME \A id \in Nat : ~(Waits("lo", id) /\ Free("lo"))
      PROVE  ~Taken("hi") /\ \A id \in Nat : ~Takes("hi", id)
  <2>1. \A id \in Nat : ~Takes("hi", id)
    BY <1>1, <1>3 DEF OffersOfLo
  <2> QED BY <1>1, <2>1, TakenIds
<1> QED BY <1>2, <1>3

LEMMA BrowserHearing ==
  ASSUME TypeInv, RosterInv, Hearing, UNCHANGED <<joined, online>>,
         \A u \in Sides : (HasPeer(u)' <=> HasPeer(u)) /\ Says(u, Sdp)
  PROVE  Hearing'
<1>1. ASSUME NEW u \in Sides PROVE Named(wire'[u]) /\ Heard(u)'
  <2>1. Says(u, Talk \union Sdp)
    BY DEF Says
  <2> QED BY <2>1, HeardSaid
<1> QED BY <1>1 DEF Hearing

\* What every operation starts from.
LEMMA Started ==
  ASSUME TypeInv, RosterInv, Going, NEW s \in Sides, pc[s] \in Conns
  PROVE  /\ Hearing /\ Matching /\ Dialogue /\ joined[s] /\ Shape(s, pc[s])
         /\ wire[s] \in Seq(Msgs) /\ wire[Other(s)] \in Seq(Msgs) /\ Other(s) \in Sides
         /\ AnswersWaited(s) /\ AnswersWaited(Other(s)) /\ ToLo /\ ToHi
         /\ HasPeer(Other(s)) => Shape(Other(s), pc[Other(s)])
         /\ (s = "lo" /\ Other(s) = "hi") \/ (s = "hi" /\ Other(s) = "lo")
<1>1. HasPeer(s) /\ joined[s] /\ Other(s) \in Sides
  BY ConnsArePeers, TheSides DEF HasPeer, TypeInv, Owned
<1> QED BY <1>1 DEF Going, Matching, TypeInv, Other, Sides

LEMMA BegunGoing ==
  ASSUME TypeInv, RosterInv, Going, NEW s \in Sides, NEW q \in Conns, pc[s] \in Conns,
         UNCHANGED <<joined, online, wire>>, pc' = [pc EXCEPT ![s] = q],
         lostOffer => lostOffer',
         pc[s].sig = "stable", pc[s].chain = <<>>, IsBegun(pc[s], q)
  PROVE  Going'
<1> DEFINE p == pc[s]
           o == Other(s)
<1>1. /\ Hearing /\ Matching /\ Dialogue /\ joined[s] /\ Shape(s, p)
      /\ AnswersWaited(s) /\ AnswersWaited(o) /\ ToLo /\ ToHi /\ o \in Sides
      /\ HasPeer(o) => Shape(o, pc[o])
      /\ (s = "lo" /\ o = "hi") \/ (s = "hi" /\ o = "lo")
  BY Started
<1>2. /\ ~OpIn(q.chain, "offer") /\ ~OpIn(q.chain, "answer") /\ \A id : ~OfferOp(q.chain, id)
      /\ ~OpIn(p.chain, "offer") /\ ~OpIn(p.chain, "answer") /\ \A id : ~OfferOp(p.chain, id)
  BY NoOps, OneOp, LocalOp DEF IsBegun
<1>3. /\ pc'[s] = q /\ pc'[o] = pc[o] /\ HasPeer(s) /\ HasPeer(s)' /\ ~Taken(s) /\ ~Taken(s)'
      /\ ~HasRemote(s) /\ ~HasRemote(s)' /\ (Answered(s)' <=> Answered(s))
      /\ \A id : ~Takes(s, id) /\ ~Takes(s, id)' /\ ~Waits(s, id) /\ ~Waits(s, id)'
  BY <1>2, Acted DEF IsBegun
<1>4. /\ (HasPeer(o)' <=> HasPeer(o)) /\ (Taken(o)' <=> Taken(o)) /\ (HasRemote(o)' <=> HasRemote(o))
      /\ (Free(o)' <=> Free(o)) /\ (Answered(o)' <=> Answered(o))
      /\ \A id : (Takes(o, id)' <=> Takes(o, id)) /\ (Waits(o, id)' <=> Waits(o, id))
  BY <1>3, Spared
<1>5. Hearing'
  BY <1>1, <1>3, <1>4, BrowserHearing, TheSides DEF Says
<1>6. Matching'
  <2>1. Shape(s, q)
    <3>1. ~p.makingOffer
      BY <1>1, LocalOp, OneOp, TwoOps DEF Shape
    <3> QED BY DEF Shape, IsBegun
  <2>2. ToLo' /\ ToHi'
    BY <1>1, <1>3, <1>4 DEF ToLo, ToHi
  <2>3. AnswersWaited(s)' /\ AnswersWaited(o)'
    BY <1>1, <1>3, <1>4 DEF AnswersWaited
  <2> QED BY <1>1, <1>3, <1>4, <2>1, <2>2, <2>3, TheSides DEF Matching
<1>7. Dialogue'
  <2> SUFFICES ASSUME Both' PROVE Dialogue'
    BY DEF Dialogue
  <2>1. /\ OffersOfHi /\ OffersOfLo /\ HiWaits /\ HiAnswered /\ LoWaits /\ LoLate
        /\ \A u \in Sides : Voiced(u) /\ Fitting(u)
    BY <1>1 DEF Dialogue, Both
  <2>2. OffersOfHi' /\ OffersOfLo'
    <3>1. CASE s = "lo" /\ o = "hi"
      BY <1>3, <1>4, <2>1, <3>1 DEF OffersOfHi, OffersOfLo
    <3>2. CASE s = "hi" /\ o = "lo"
      BY <1>3, <1>4, <2>1, <3>2 DEF OffersOfHi, OffersOfLo
    <3> QED BY <1>1, <3>1, <3>2
  <2>3. Voiced(s)' /\ Voiced(o)'
    <3>1. DOMAIN <<Local>> = {1} /\ <<Local>>[1].op = "local"
      BY LocalOp
    <3>2. Voiced(s)'
      BY <1>3, <1>4, <2>1, <3>1 DEF Voiced, IsBegun, Sdp
    <3>3. Voiced(o)'
      <4>1. Other(o) = s /\ Voiced(o) /\ q.gen = p.gen
        BY <1>1, <2>1, TheSides DEF IsBegun
      <4> QED BY <1>3, <1>4, <4>1 DEF Voiced
    <3> QED BY <3>2, <3>3
  <2>4. Fitting(s)' /\ Fitting(o)'
    <3>1. Other(o) = s /\ Fitting(o) /\ Fitting(s) /\ q.gen = p.gen
      BY <1>1, <2>1, TheSides DEF IsBegun
    <3> QED BY <1>3, <1>4, <3>1 DEF Fitting
  <2>5. (LoHeard => LoHeard') /\ (LoSpared => LoSpared')
    BY <1>1, <1>3, <1>4 DEF LoHeard, LoSpared, IsBegun
  <2>6. HiWaits' /\ HiAnswered'
    BY <1>1, <1>3, <1>4, <2>1, <2>5 DEF HiWaits, HiAnswered, IsBegun
  <2>7. LoWaits' /\ LoLate'
    BY <1>1, <1>3, <1>4, <2>1, <2>5 DEF LoWaits, LoLate, IsBegun
  <2> QED BY <1>1, <2>2, <2>3, <2>4, <2>6, <2>7, TheSides DEF Dialogue
<1> QED BY <1>5, <1>6, <1>7 DEF Going

\* The offer is made, and sent to who is there.
LEMMA OfferedGoing ==
  ASSUME TypeInv, RosterInv, Going, NEW s \in Sides, NEW q \in Conns, pc[s] \in Conns,
         UNCHANGED <<joined, online>>, pc' = [pc EXCEPT ![s] = q],
         lostOffer => lostOffer',
         pc[s].chain # <<>>, Head(pc[s].chain).op = "local", pc[s].sig # "have-remote",
         IsOffered(pc[s], q), NEW m \in Msgs, m.t = "offer", m.who = {}, m.d = Offer(pc[s]),
         wire'[s] = wire[s],
         wire'[Other(s)] = IF Both THEN Append(wire[Other(s)], m) ELSE wire[Other(s)]
  PROVE  Going'
<1> DEFINE p == pc[s]
           o == Other(s)
           n == p.offers + 1
<1>1. /\ Hearing /\ Matching /\ Dialogue /\ joined[s] /\ Shape(s, p)
      /\ wire[s] \in Seq(Msgs) /\ wire[o] \in Seq(Msgs)
      /\ AnswersWaited(s) /\ AnswersWaited(o) /\ ToLo /\ ToHi /\ o \in Sides
      /\ HasPeer(o) => Shape(o, pc[o])
      /\ (s = "lo" /\ o = "hi") \/ (s = "hi" /\ o = "lo")
  BY Started
<1>2. /\ Shape(s, q) /\ p.sig = "stable" /\ ~OpIn(q.chain, "answer")
      /\ \A id : OfferOp(q.chain, id) <=> OfferOp(p.chain, id)
      /\ OpIn(q.chain, "offer") <=> OpIn(p.chain, "offer")
      /\ s = "hi" => q.chain = <<>>
  BY <1>1, ShapeOffered
<1>o. /\ q.sig = "have-local" /\ q.local.id = n /\ n \in Nat /\ m.d.id = n /\ m.d.gen = p.gen /\ q.gen = p.gen
      /\ q.local.tracks = p.tracks /\ m.d.lines = p.lines \union p.tracks
      /\ q.sent = p.sent /\ q.tracks = p.tracks /\ q.far = p.far
  BY DEF IsOffered, Offer, Conns
<1>3. /\ pc'[s] = q /\ pc'[o] = pc[o] /\ HasPeer(s) /\ HasPeer(s)' /\ (Taken(s)' <=> Taken(s))
      /\ ~HasRemote(s) /\ ~HasRemote(s)'
      /\ \A id : (Takes(s, id)' <=> Takes(s, id)) /\ ~Waits(s, id) /\ (Waits(s, id)' <=> id = n)
      /\ s = "hi" => Free(s)' /\ ~Taken(s)' /\ \A id : ~Takes(s, id)'
  <2>1. s = "hi" => ~OpIn(q.chain, "offer") /\ \A id : ~OfferOp(q.chain, id)
    BY <1>2, NoOps
  <2>2. /\ pc'[s] = q /\ pc'[o] = pc[o] /\ HasPeer(s) /\ HasPeer(s)'
        /\ ~HasRemote(s) /\ ~HasRemote(s)'
        /\ s = "hi" => Free(s)' /\ ~Taken(s)'
        /\ Taken(s)' <=> Taken(s)
    BY <1>2, <1>o, <2>1, Acted
  <2>3. \A id : /\ Takes(s, id) <=> OfferOp(p.chain, id)
                /\ Takes(s, id)' <=> OfferOp(q.chain, id)
                /\ ~Waits(s, id) /\ (Waits(s, id)' <=> id = n)
    <3>1. p.sig = "stable" /\ q.sig = "have-local" /\ q.local.id = n
      BY <1>2, <1>o
    <3>2. \A id : /\ Takes(s, id) <=> OfferOp(p.chain, id) \/ (p.sig = "have-remote" /\ p.remote.id = id)
                  /\ Takes(s, id)' <=> OfferOp(q.chain, id) \/ (q.sig = "have-remote" /\ q.remote.id = id)
                  /\ Waits(s, id) <=> p.sig = "have-local" /\ p.local.id = id
                  /\ Waits(s, id)' <=> q.sig = "have-local" /\ q.local.id = id
      BY Acted
    <3> HIDE DEF p, n
    <3> QED BY <3>1, <3>2
  <2> QED BY <1>2, <2>1, <2>2, <2>3
<1>4. /\ ~HasAnswer(wire[s]) /\ ~HasAnswer(wire'[s]) /\ ~Answered(s)'
      /\ \A id \in Nat : ~AnswerIn(wire'[s], id)
  BY <1>1, <1>2, <1>3, NoAnswers, Acted
<1>5. /\ (HasPeer(o)' <=> HasPeer(o)) /\ (Taken(o)' <=> Taken(o)) /\ (HasRemote(o)' <=> HasRemote(o))
      /\ (Free(o)' <=> Free(o))
      /\ \A id : (Takes(o, id)' <=> Takes(o, id)) /\ (Waits(o, id)' <=> Waits(o, id))
  BY <1>3, Spared
<1>6. Hearing'
  <2>1. Says(s, Sdp) /\ Says(o, Sdp)
    BY DEF Says, Sdp
  <2> QED BY <1>1, <1>3, <1>5, <2>1, BrowserHearing, TheSides
<1>7. Both => /\ \A id \in Nat : OfferIn(wire'[o], id) => OfferIn(wire[o], id) \/ id = n
              /\ \A id \in Nat : AnswerIn(wire'[o], id) => AnswerIn(wire[o], id)
              /\ \A id \in Nat : Open(wire'[o], id) => Open(wire[o], id) \/ id = n
              /\ HasOffer(wire'[o]) /\ Open(wire'[o], n)
              /\ HasAnswer(wire'[o]) <=> HasAnswer(wire[o])
              /\ ~HasOffer(wire[o]) => OneOffer(wire'[o])
              /\ OneAnswer(wire[o]) => OneAnswer(wire'[o])
              /\ AnswersFirst(wire[o]) => AnswersFirst(wire'[o])
              /\ Apart(wire[o]) /\ (\A id \in Nat : ~Open(wire[o], id)) => Apart(wire'[o])
  <2> SUFFICES ASSUME Both PROVE
              /\ \A id \in Nat : OfferIn(wire'[o], id) => OfferIn(wire[o], id) \/ id = n
              /\ \A id \in Nat : AnswerIn(wire'[o], id) => AnswerIn(wire[o], id)
              /\ \A id \in Nat : Open(wire'[o], id) => Open(wire[o], id) \/ id = n
              /\ HasOffer(wire'[o]) /\ Open(wire'[o], n)
              /\ HasAnswer(wire'[o]) <=> HasAnswer(wire[o])
              /\ ~HasOffer(wire[o]) => OneOffer(wire'[o])
              /\ OneAnswer(wire[o]) => OneAnswer(wire'[o])
              /\ AnswersFirst(wire[o]) => AnswersFirst(wire'[o])
              /\ Apart(wire[o]) /\ (\A id \in Nat : ~Open(wire[o], id)) => Apart(wire'[o])
    OBVIOUS
  <2>1. wire'[o] = Append(wire[o], m)
    OBVIOUS
  <2>2. HasAnswer(wire[o]) => HasAnswer(wire'[o])
    BY <1>1, <2>1, PutMore
  <2> QED BY <1>1, <1>o, <2>1, <2>2, PutOffer
<1>8. Both => Dialogue'
  <2> SUFFICES ASSUME Both PROVE Dialogue'
    OBVIOUS
  <2>1. /\ OffersOfHi /\ OffersOfLo /\ HiWaits /\ HiAnswered /\ LoWaits /\ LoLate
        /\ \A u \in Sides : Voiced(u) /\ Fitting(u)
    BY <1>1 DEF Dialogue
  <2>2. Answered(o)' <=> Answered(o)
    BY <1>3, <1>7, Spared
  <2>3. OffersOfHi'
    <3>1. CASE s = "lo" /\ o = "hi"
      BY <1>3, <1>5, <1>7, <2>1, <3>1 DEF OffersOfHi
    <3>2. CASE s = "hi" /\ o = "lo"
      <4>1. \A id \in Nat : ~OfferIn(wire["lo"], id) /\ ~Takes("lo", id)
        BY <1>1, <1>3, <3>2, NoneOffered
      <4> QED BY <1>3, <1>4, <1>5, <1>7, <3>2, <4>1 DEF OffersOfHi
    <3> QED BY <1>1, <3>1, <3>2
  <2>4. OffersOfLo'
    <3>1. CASE s = "lo" /\ o = "hi"
      <4>1. ~Taken("hi") /\ \A id \in Nat : ~Takes("hi", id)
        BY <1>1, <1>3, <3>1, NoneOffered
      <4>2. \A id \in Nat : ~Open(wire["hi"], id)
        BY <1>3, <2>1, <3>1 DEF OffersOfLo
      <4> QED BY <1>3, <1>4, <1>5, <1>7, <3>1, <4>1, <4>2 DEF OffersOfLo
    <3>2. CASE s = "hi" /\ o = "lo"
      <4>1. \A id \in Nat : ~Takes("hi", id)'
        BY <1>3, <3>2
      <4> QED BY <1>3, <1>5, <1>7, <2>1, <2>2, <3>2, <4>1 DEF OffersOfLo
    <3> QED BY <1>1, <3>1, <3>2
  <2>5. Voiced(s)'
    <3>1. \A i \in DOMAIN q.chain : \E k \in DOMAIN p.chain : q.chain[i] = p.chain[k]
      <4>1. q.chain = Tail(p.chain) /\ p.chain \in Seq(Ops)
        BY DEF IsOffered, Conns
      <4> QED BY <4>1, Tails
    <3> QED BY <1>3, <1>5, <1>o, <2>1, <3>1 DEF Voiced
  <2>6. Voiced(o)'
    <3>1. Other(o) = s /\ Voiced(o)
      BY <2>1, TheSides
    <3> QED BY <1>3, <1>5, <1>o, <3>1 DEF Voiced
  <2>7. Fitting(s)'
    BY <1>3, <1>5, <2>1 DEF Fitting
  <2>8. Fitting(o)'
    <3>1. Other(o) = s /\ Fitting(o) /\ "mic" \in p.tracks
      BY <1>3, <2>1, TheSides DEF Voiced
    <3>2. p.gen \in Nat /\ Fits(m.d, p.gen)
      BY <1>o, <3>1 DEF Fits, Conns
    <3>3. FitsAll(wire'[o], p.gen)
      BY <1>1, <3>1, <3>2, PutMore DEF Fitting
    <3> QED BY <1>3, <1>o, <3>1, <3>3 DEF Fitting
  <2>9. LoHeard => LoHeard'
    BY <1>1, <1>3, <1>5, <1>o DEF LoHeard
  <2>10. HiWaits' /\ HiAnswered'
    <3>1. CASE s = "lo" /\ o = "hi"
      BY <1>3, <1>5, <2>1, <2>2, <2>9, <3>1 DEF HiWaits, HiAnswered
    <3>2. CASE s = "hi" /\ o = "lo"
      BY <1>4, <1>7, <3>2 DEF HiWaits, HiAnswered
    <3> QED BY <1>1, <3>1, <3>2
  <2>11. LoWaits'
    BY <1>1, <1>7 DEF LoWaits
  <2>12. LoLate'
    <3>1. CASE s = "lo" /\ o = "hi"
      BY <1>7, <1>o, <3>1 DEF LoLate
    <3>2. CASE s = "hi" /\ o = "lo"
      BY <1>3, <1>4, <1>5, <2>1, <3>2 DEF LoLate
    <3> QED BY <1>1, <3>1, <3>2
  <2> QED BY <1>1, <2>3, <2>4, <2>5, <2>6, <2>7, <2>8, <2>10, <2>11, <2>12, TheSides DEF Dialogue
<1>9. Matching'
  <2>1. AnswersWaited(s)' /\ AnswersWaited(o)'
    BY <1>1, <1>4, <1>5, <1>7 DEF AnswersWaited
  <2>2. ToLo' /\ ToHi'
    <3>1. CASE ~Both
      BY <1>1, <1>3, <1>5, <3>1 DEF ToLo, ToHi
    <3>2. CASE Both /\ s = "lo" /\ o = "hi"
      <4>1. ~Taken("hi") /\ OffersOfLo
        BY <1>1, <1>3, <3>2, NoneOffered DEF Dialogue
      <4>2. \A id \in Nat : ~Open(wire["hi"], id)
        BY <1>3, <3>2, <4>1 DEF OffersOfLo
      <4> QED BY <1>1, <1>3, <1>5, <1>7, <3>2, <4>1, <4>2 DEF ToLo, ToHi
    <3>3. CASE Both /\ s = "hi" /\ o = "lo"
      <4>1. ~HasOffer(wire["lo"]) /\ ~Taken("lo")
        BY <1>1, <1>3, <3>3, NoneOffered
      <4> QED BY <1>1, <1>3, <1>5, <1>7, <3>3, <4>1 DEF ToLo, ToHi
    <3> QED BY <1>1, <3>1, <3>2, <3>3
  <2> QED BY <1>1, <1>2, <1>3, <1>5, <2>1, <2>2, TheSides DEF Matching
<1>10. Dialogue'
  BY <1>8 DEF Dialogue, Both
<1> QED BY <1>6, <1>9, <1>10 DEF Going

\* The answer is made, and sent to who made the offer.
LEMMA AnsweredGoing ==
  ASSUME TypeInv, RosterInv, Going, NEW s \in Sides, NEW q \in Conns, pc[s] \in Conns,
         UNCHANGED <<joined, online>>, pc' = [pc EXCEPT ![s] = q],
         lostOffer => lostOffer',
         pc[s].chain # <<>>, pc[s].sig = "have-remote", IsAnswered(pc[s], q),
         NEW m \in Msgs, m.t = "answer", m.who = {}, m.d = Answer(pc[s]),
         wire'[s] = wire[s],
         wire'[Other(s)] = IF Both THEN Append(wire[Other(s)], m) ELSE wire[Other(s)]
  PROVE  Going'
<1> DEFINE p == pc[s]
           o == Other(s)
           n == p.remote.id
<1>1. /\ Hearing /\ Matching /\ Dialogue /\ joined[s] /\ Shape(s, p)
      /\ wire[s] \in Seq(Msgs) /\ wire[o] \in Seq(Msgs)
      /\ AnswersWaited(s) /\ AnswersWaited(o) /\ ToLo /\ ToHi /\ o \in Sides
      /\ HasPeer(o) => Shape(o, pc[o])
      /\ (s = "lo" /\ o = "hi") \/ (s = "hi" /\ o = "lo")
  BY Started
<1>2. Shape(s, q) /\ q.chain = <<>> /\ ~OpIn(q.chain, "answer") /\ ~OpIn(q.chain, "offer")
      /\ \A id : ~OfferOp(q.chain, id)
  BY <1>1, ShapeAnswered, NoOps
<1>o. /\ q.sig = "stable" /\ n \in Nat /\ m.d.id = n /\ m.d.gen = p.gen /\ q.gen = p.gen
      /\ m.d.lines = p.remote.lines /\ q.sent = p.tracks \intersect p.remote.lines
      /\ q.tracks = p.tracks /\ q.far = p.far
  <2>1. p.remote \in Descs
    BY DEF Conns
  <2> QED BY <2>1 DEF IsAnswered, Answer, Descs
<1>3. /\ pc'[s] = q /\ pc'[o] = pc[o] /\ HasPeer(s) /\ HasPeer(s)' /\ Taken(s) /\ ~Taken(s)'
      /\ HasRemote(s) /\ ~HasRemote(s)' /\ Takes(s, n)
      /\ \A id : ~Takes(s, id)' /\ ~Waits(s, id) /\ ~Waits(s, id)'
  BY <1>2, <1>o, Acted
<1>4. /\ ~HasAnswer(wire[s]) /\ ~HasAnswer(wire'[s]) /\ ~Answered(s)'
      /\ \A id \in Nat : ~AnswerIn(wire'[s], id)
  BY <1>1, <1>2, <1>3, NoAnswers, Acted
<1>5. /\ (HasPeer(o)' <=> HasPeer(o)) /\ (Taken(o)' <=> Taken(o)) /\ (HasRemote(o)' <=> HasRemote(o))
      /\ (Free(o)' <=> Free(o))
      /\ \A id : (Takes(o, id)' <=> Takes(o, id)) /\ (Waits(o, id)' <=> Waits(o, id))
  BY <1>3, Spared
<1>6. Hearing'
  <2>1. Says(s, Sdp) /\ Says(o, Sdp)
    BY DEF Says, Sdp
  <2> QED BY <1>1, <1>3, <1>5, <2>1, BrowserHearing, TheSides
<1>7. ASSUME Both
      PROVE   /\ \A id \in Nat : OfferIn(wire'[o], id) => OfferIn(wire[o], id)
              /\ \A id \in Nat : AnswerIn(wire'[o], id) => AnswerIn(wire[o], id) \/ id = n
              /\ \A id \in Nat : ~Open(wire'[o], id)
              /\ HasAnswer(wire'[o])
              /\ HasOffer(wire'[o]) <=> HasOffer(wire[o])
              /\ ~HasAnswer(wire[o]) => OneAnswer(wire'[o])
              /\ OneOffer(wire[o]) => OneOffer(wire'[o])
              /\ ~HasOffer(wire[o]) => AnswersFirst(wire'[o])
              /\ Apart(wire[o]) => Apart(wire'[o])
              /\ Answered(o)'
  <2>1. wire'[o] = Append(wire[o], m)
    BY <1>7
  <2>2. HasOffer(wire[o]) => HasOffer(wire'[o])
    BY <1>1, <2>1, PutMore
  <2>3. HasAnswer(wire'[o])
    BY <1>1, <2>1, PutAnswer
  <2>4. Answered(o)'
    BY <2>3 DEF Answered
  <2> QED BY <1>1, <1>o, <2>1, <2>2, <2>4, PutAnswer
\* It is the offer that the other waits about.
<1>a. ASSUME Both
      PROVE  /\ Waits(o, n) /\ Free(o) /\ ~HasAnswer(wire[o])
             /\ s = "hi" => ~HasOffer(wire[o])
             /\ \A id \in Nat : ~AnswerIn(wire[o], id)
  <2>1. OffersOfHi /\ OffersOfLo
    BY <1>1, <1>a DEF Dialogue
  <2>2. Waits(o, n) /\ Free(o) /\ ~HasAnswer(wire[o]) /\ (s = "hi" => ~HasOffer(wire[o]))
    <3>1. CASE s = "lo" /\ o = "hi"
      BY <1>3, <1>o, <2>1, <3>1 DEF OffersOfHi
    <3>2. CASE s = "hi" /\ o = "lo"
      BY <1>3, <1>o, <2>1, <3>2 DEF OffersOfLo
    <3> QED BY <1>1, <3>1, <3>2
  <2> QED BY <2>2, InWire
<1>8. ASSUME Both PROVE Dialogue'
  <2>1. /\ OffersOfHi /\ OffersOfLo /\ HiWaits /\ HiAnswered /\ LoWaits /\ LoLate
        /\ \A u \in Sides : Voiced(u) /\ Fitting(u)
    BY <1>1, <1>8 DEF Dialogue
  <2>2. ~Taken(o)' /\ \A id \in Nat : ~Takes(o, id)'
    <3>1. CASE s = "lo" /\ o = "hi"
      BY <1>1, <1>3, <1>5, <1>8, <3>1, NoneOffered
    <3>2. CASE s = "hi" /\ o = "lo"
      BY <1>1, <1>3, <1>5, <1>8, <3>2, NoneOffered
    <3> QED BY <1>1, <3>1, <3>2
  <2>3. OffersOfHi'
    <3>1. CASE s = "lo" /\ o = "hi"
      <4>1. ~HasOffer(wire["lo"])
        BY <1>1, <1>3, <3>1 DEF ToLo
      <4>2. \A id \in Nat : ~OfferIn(wire'["lo"], id)
        BY <3>1, <4>1, InWire
      <4> QED BY <1>3, <3>1, <4>2 DEF OffersOfHi
    <3>2. CASE s = "hi" /\ o = "lo"
      <4>1. \A id \in Nat : ~OfferIn(wire'["lo"], id)
        BY <1>7, <1>8, <1>a, <3>2, InWire
      <4> QED BY <2>2, <3>2, <4>1 DEF OffersOfHi
    <3> QED BY <1>1, <3>1, <3>2
  <2>4. OffersOfLo'
    <3>1. CASE s = "lo" /\ o = "hi"
      BY <1>4, <1>7, <1>8, <2>2, <3>1 DEF OffersOfLo
    <3>2. CASE s = "hi" /\ o = "lo"
      <4>1. ~HasOffer(wire'["hi"])
        BY <1>1, <1>3, <3>2 DEF ToHi
      <4>2. \A id \in Nat : ~Open(wire'["hi"], id)
        BY <4>1, InWire
      <4> QED BY <1>3, <3>2, <4>1, <4>2 DEF OffersOfLo
    <3> QED BY <1>1, <3>1, <3>2
  <2>5. Voiced(s)'
    <3>1. DOMAIN q.chain = {}
      BY <1>2
    <3> QED BY <1>3, <1>5, <1>o, <2>1, <3>1 DEF Voiced
  <2>6. Voiced(o)'
    <3>1. Other(o) = s /\ Voiced(o)
      BY <1>1, <2>1, TheSides
    <3> QED BY <1>3, <1>5, <1>o, <3>1 DEF Voiced
  <2>7. Fitting(s)'
    BY <1>3, <1>5, <2>1 DEF Fitting
  <2>8. Fitting(o)'
    <3>1. Other(o) = s /\ Fitting(o) /\ "mic" \in p.remote.lines
      BY <1>1, <1>3, <2>1, TheSides DEF Voiced
    <3>2. p.gen \in Nat /\ Fits(m.d, p.gen)
      BY <1>o, <3>1 DEF Fits, Conns
    <3>3. FitsAll(wire'[o], p.gen)
      BY <1>1, <1>8, <3>1, <3>2, PutMore DEF Fitting
    <3> QED BY <1>3, <1>o, <3>1, <3>3 DEF Fitting
  <2>9. "mic" \in q.sent
    BY <1>3, <1>o, <2>1 DEF Voiced
  <2>10. HiWaits' /\ HiAnswered' /\ LoWaits'
    <3>1. CASE s = "lo" /\ o = "hi"
      BY <1>3, <1>7, <1>8, <1>o, <2>9, <3>1 DEF HiWaits, HiAnswered, LoWaits, LoHeard
    <3>2. CASE s = "hi" /\ o = "lo"
      BY <1>3, <1>4, <1>7, <1>8, <1>o, <3>2 DEF HiWaits, HiAnswered, LoWaits
    <3> QED BY <1>1, <3>1, <3>2
  <2>11. LoLate'
    <3>1. CASE s = "lo" /\ o = "hi"
      BY <1>3, <1>4, <1>5, <1>o, <2>1, <3>1 DEF LoLate
    <3>2. CASE s = "hi" /\ o = "lo"
      BY <1>3, <1>4, <1>5, <2>1, <3>2 DEF LoLate
    <3> QED BY <1>1, <3>1, <3>2
  <2> QED BY <1>1, <2>3, <2>4, <2>5, <2>6, <2>7, <2>8, <2>10, <2>11, TheSides DEF Dialogue
<1>9. Matching'
  <2>1. AnswersWaited(s)'
    BY <1>1, <1>4 DEF AnswersWaited
  <2>3. AnswersWaited(o)'
    <3>1. CASE Both
      <4>1. \A id \in Nat : AnswerIn(wire'[o], id) => Waits(o, id)' /\ Free(o)'
        BY <1>5, <1>7, <1>a, <3>1
      <4>2. OneAnswer(wire'[o])
        BY <1>7, <1>a, <3>1
      <4> QED BY <4>1, <4>2 DEF AnswersWaited
    <3>2. CASE ~Both
      <4>1. wire'[o] = wire[o]
        BY <3>2
      <4> QED BY <1>1, <1>5, <4>1 DEF AnswersWaited
    <3> QED BY <3>1, <3>2
  <2>2. ToLo' /\ ToHi'
    <3>1. CASE ~Both
      BY <1>1, <1>3, <1>5, <3>1 DEF ToLo, ToHi
    <3>2. CASE Both /\ s = "lo" /\ o = "hi"
      BY <1>1, <1>3, <1>5, <1>7, <3>2 DEF ToLo, ToHi
    <3>3. CASE Both /\ s = "hi" /\ o = "lo"
      BY <1>1, <1>3, <1>5, <1>7, <1>a, <3>3 DEF ToLo, ToHi
    <3> QED BY <1>1, <3>1, <3>2, <3>3
  <2> QED BY <1>1, <1>2, <1>3, <1>5, <2>1, <2>2, <2>3, TheSides DEF Matching
<1>10. Dialogue'
  BY <1>8 DEF Dialogue, Both
<1> QED BY <1>6, <1>9, <1>10 DEF Going

\* The offer is set: s is to answer it.
LEMMA OfferTakenGoing ==
  ASSUME TypeInv, RosterInv, Going, NEW s \in Sides, NEW q \in Conns, pc[s] \in Conns,
         UNCHANGED <<joined, online, wire>>, pc' = [pc EXCEPT ![s] = q],
         lostOffer => lostOffer',
         pc[s].chain # <<>>, Head(pc[s].chain).op = "offer",
         IsOfferTaken(pc[s], q, Head(pc[s].chain).d)
  PROVE  Going'
<1> DEFINE p == pc[s]
           o == Other(s)
           d == Head(p.chain).d
<1>1. /\ Hearing /\ Matching /\ Dialogue /\ joined[s] /\ Shape(s, p)
      /\ wire[s] \in Seq(Msgs) /\ wire[o] \in Seq(Msgs)
      /\ AnswersWaited(s) /\ AnswersWaited(o) /\ ToLo /\ ToHi /\ o \in Sides
      /\ HasPeer(o) => Shape(o, pc[o])
      /\ (s = "lo" /\ o = "hi") \/ (s = "hi" /\ o = "lo")
  BY Started
<1>2. /\ Shape(s, q) /\ q.chain = <<Local>> /\ p.sig # "have-remote" /\ ~OpIn(q.chain, "answer")
      /\ ~OpIn(q.chain, "offer") /\ OpIn(p.chain, "offer")
      /\ \A id : OfferOp(p.chain, id) <=> id = d.id
      /\ \A id : ~OfferOp(q.chain, id)
  BY <1>1, ShapeOfferTaken
<1>o. /\ q.sig = "have-remote" /\ q.remote = d /\ q.gen = p.gen /\ q.sent = p.sent
      /\ q.tracks = p.tracks /\ q.far = d.gen /\ q.makingOffer = p.makingOffer
  BY DEF IsOfferTaken
<1>3. /\ pc'[s] = q /\ pc'[o] = pc[o] /\ HasPeer(s) /\ HasPeer(s)' /\ Taken(s) /\ Taken(s)'
      /\ HasRemote(s)' /\ ~Free(s)
      /\ \A id : (Takes(s, id)' <=> Takes(s, id)) /\ ~Waits(s, id)'
  <2>1. \A id : /\ Takes(s, id) <=> OfferOp(p.chain, id) \/ (p.sig = "have-remote" /\ p.remote.id = id)
                /\ Takes(s, id)' <=> OfferOp(q.chain, id) \/ (q.sig = "have-remote" /\ q.remote.id = id)
                /\ Waits(s, id) <=> p.sig = "have-local" /\ p.local.id = id
                /\ Waits(s, id)' <=> q.sig = "have-local" /\ q.local.id = id
    BY Acted
  <2>2. \A id : (Takes(s, id)' <=> Takes(s, id)) /\ ~Waits(s, id)'
    <3> HIDE DEF p, d
    <3> QED BY <1>2, <1>o, <2>1
  <2> QED BY <1>2, <1>o, <2>2, Acted
<1>4. /\ ~HasAnswer(wire[s]) /\ ~HasAnswer(wire'[s]) /\ ~Answered(s)'
      /\ \A id \in Nat : ~AnswerIn(wire'[s], id)
  BY <1>1, <1>2, <1>3, NoAnswers, Acted
<1>5. /\ (HasPeer(o)' <=> HasPeer(o)) /\ (Taken(o)' <=> Taken(o)) /\ (HasRemote(o)' <=> HasRemote(o))
      /\ (Free(o)' <=> Free(o)) /\ (Answered(o)' <=> Answered(o))
      /\ \A id : (Takes(o, id)' <=> Takes(o, id)) /\ (Waits(o, id)' <=> Waits(o, id))
  BY <1>3, Spared
<1>6. Hearing'
  BY <1>1, <1>3, <1>5, BrowserHearing, TheSides DEF Says
<1>7. Matching'
  <2>1. AnswersWaited(s)' /\ AnswersWaited(o)'
    BY <1>1, <1>4, <1>5 DEF AnswersWaited
  <2>2. ToLo' /\ ToHi'
    BY <1>1, <1>3, <1>5 DEF ToLo, ToHi
  <2> QED BY <1>1, <1>2, <1>3, <1>5, <2>1, <2>2, TheSides DEF Matching
<1>8. ASSUME Both PROVE Dialogue'
  <2>1. /\ OffersOfHi /\ OffersOfLo /\ HiWaits /\ HiAnswered /\ LoWaits /\ LoLate
        /\ \A u \in Sides : Voiced(u) /\ Fitting(u)
    BY <1>1, <1>8 DEF Dialogue
  <2>2. \A id \in Nat : ~Takes(o, id)
    <3>1. CASE s = "lo" /\ o = "hi"
      BY <1>1, <1>3, <1>8, <3>1, NoneOffered
    <3>2. CASE s = "hi" /\ o = "lo"
      BY <1>1, <1>3, <1>8, <3>2, NoneOffered
    <3> QED BY <1>1, <3>1, <3>2
  <2>3. OffersOfHi'
    <3>1. CASE s = "lo" /\ o = "hi"
      BY <1>3, <1>5, <2>1, <3>1 DEF OffersOfHi
    <3>2. CASE s = "hi" /\ o = "lo"
      <4>1. \A id \in Nat : ~OfferIn(wire["lo"], id)
        BY <1>1, <1>3, <1>8, <3>2, NoneOffered
      <4> QED BY <1>5, <2>2, <3>2, <4>1 DEF OffersOfHi
    <3> QED BY <1>1, <3>1, <3>2
  <2>4. OffersOfLo'
    <3>1. CASE s = "lo" /\ o = "hi"
      BY <1>3, <1>4, <1>5, <2>2, <3>1 DEF OffersOfLo
    <3>2. CASE s = "hi" /\ o = "lo"
      BY <1>3, <1>5, <2>1, <3>2 DEF OffersOfLo
    <3> QED BY <1>1, <3>1, <3>2
  <2>5. HasPeer(o) /\ Fits(d, pc[o].gen)
    <3>1. p.chain \in Seq(Ops) /\ 1 \in DOMAIN p.chain /\ p.chain[1] = Head(p.chain)
      <4>1. p.chain \in Seq(Ops)
        BY DEF Conns
      <4> QED BY <4>1, Tails
    <3> QED BY <1>3, <2>1, <3>1 DEF Voiced, Sdp
  <2>6. Voiced(s)'
    <3>1. DOMAIN <<Local>> = {1} /\ <<Local>>[1].op = "local"
      BY LocalOp
    <3> QED BY <1>2, <1>3, <1>5, <1>o, <2>1, <2>5, <3>1 DEF Voiced, Fits, Sdp
  <2>7. Voiced(o)'
    <3>1. Other(o) = s /\ Voiced(o)
      BY <1>1, <2>1, TheSides
    <3> QED BY <1>3, <1>5, <1>o, <3>1 DEF Voiced
  <2>8. Fitting(s)' /\ Fitting(o)'
    <3>1. Other(o) = s /\ Fitting(o) /\ Fitting(s)
      BY <1>1, <2>1, TheSides
    <3> QED BY <1>3, <1>5, <1>o, <3>1 DEF Fitting
  <2>9. (LoHeard => LoHeard') /\ (LoSpared => LoSpared')
    BY <1>1, <1>3, <1>5, <1>o DEF LoHeard, LoSpared
  <2>10. HiWaits' /\ HiAnswered' /\ LoWaits'
    <3>1. CASE s = "lo" /\ o = "hi"
      BY <1>3, <1>5, <1>o, <2>1, <2>9, <3>1 DEF HiWaits, HiAnswered, LoWaits
    <3>2. CASE s = "hi" /\ o = "lo"
      BY <1>3, <1>4, <1>5, <1>o, <2>1, <3>2 DEF HiWaits, HiAnswered, LoWaits
    <3> QED BY <1>1, <3>1, <3>2
  <2>11. LoLate'
    <3>1. CASE s = "lo" /\ o = "hi"
      BY <1>3, <1>4, <1>5, <1>o, <2>1, <3>1 DEF LoLate
    <3>2. CASE s = "hi" /\ o = "lo"
      BY <1>3, <1>4, <1>5, <2>1, <3>2 DEF LoLate
    <3> QED BY <1>1, <3>1, <3>2
  <2> QED BY <1>1, <2>3, <2>4, <2>6, <2>7, <2>8, <2>10, <2>11, TheSides DEF Dialogue
<1>9. Dialogue'
  BY <1>8 DEF Dialogue, Both
<1> QED BY <1>6, <1>7, <1>9 DEF Going

\* The answer is set: what was offered is what s sends.
LEMMA AnswerTakenGoing ==
  ASSUME TypeInv, RosterInv, Going, NEW s \in Sides, NEW q \in Conns, pc[s] \in Conns,
         UNCHANGED <<joined, online, wire>>, pc' = [pc EXCEPT ![s] = q],
         lostOffer => lostOffer',
         pc[s].chain # <<>>, Head(pc[s].chain).op = "answer",
         IsAnswerTaken(pc[s], q, Head(pc[s].chain).d)
  PROVE  Going'
<1> DEFINE p == pc[s]
           o == Other(s)
           d == Head(p.chain).d
<1>1. /\ Hearing /\ Matching /\ Dialogue /\ joined[s] /\ Shape(s, p)
      /\ wire[s] \in Seq(Msgs) /\ wire[o] \in Seq(Msgs)
      /\ AnswersWaited(s) /\ AnswersWaited(o) /\ ToLo /\ ToHi /\ o \in Sides
      /\ HasPeer(o) => Shape(o, pc[o])
      /\ (s = "lo" /\ o = "hi") \/ (s = "hi" /\ o = "lo")
  BY Started
<1>2. /\ Shape(s, q) /\ OpIn(p.chain, "answer") /\ p.sig = "have-local" /\ ~OpIn(q.chain, "answer")
      /\ \A id : OfferOp(q.chain, id) <=> OfferOp(p.chain, id)
      /\ OpIn(q.chain, "offer") <=> OpIn(p.chain, "offer")
  <2>1. IsAnswerTaken(p, q, d) /\ Head(p.chain).op = "answer" /\ p.chain # <<>> /\ p \in Conns
    OBVIOUS
  <2> HIDE DEF p, d
  <2> QED BY <1>1, <2>1, ShapeAnswerTaken
<1>o. /\ q.sig = "stable" /\ q.gen = p.gen /\ q.sent = p.local.tracks
      /\ q.tracks = p.tracks /\ q.far = d.gen /\ q.makingOffer = p.makingOffer
  BY DEF IsAnswerTaken
<1>3. /\ pc'[s] = q /\ pc'[o] = pc[o] /\ HasPeer(s) /\ HasPeer(s)' /\ (Taken(s)' <=> Taken(s))
      /\ ~HasRemote(s) /\ ~HasRemote(s)' /\ ~Free(s) /\ Answered(s)
      /\ \A id : (Takes(s, id)' <=> Takes(s, id)) /\ ~Waits(s, id)'
  <2>1. \A id : /\ Takes(s, id) <=> OfferOp(p.chain, id) \/ (p.sig = "have-remote" /\ p.remote.id = id)
                /\ Takes(s, id)' <=> OfferOp(q.chain, id) \/ (q.sig = "have-remote" /\ q.remote.id = id)
                /\ Waits(s, id) <=> p.sig = "have-local" /\ p.local.id = id
                /\ Waits(s, id)' <=> q.sig = "have-local" /\ q.local.id = id
    BY Acted
  <2>2. \A id : (Takes(s, id)' <=> Takes(s, id)) /\ ~Waits(s, id)'
    <3> HIDE DEF p, d
    <3> QED BY <1>2, <1>o, <2>1
  <2> QED BY <1>2, <1>o, <2>2, Acted
<1>4. /\ ~HasAnswer(wire[s]) /\ ~HasAnswer(wire'[s]) /\ ~Answered(s)'
      /\ \A id \in Nat : ~AnswerIn(wire'[s], id)
  BY <1>1, <1>2, <1>3, NoAnswers, Acted
<1>5. /\ (HasPeer(o)' <=> HasPeer(o)) /\ (Taken(o)' <=> Taken(o)) /\ (HasRemote(o)' <=> HasRemote(o))
      /\ (Free(o)' <=> Free(o)) /\ (Answered(o)' <=> Answered(o))
      /\ \A id : (Takes(o, id)' <=> Takes(o, id)) /\ (Waits(o, id)' <=> Waits(o, id))
  BY <1>3, Spared
<1>6. Hearing'
  BY <1>1, <1>3, <1>5, BrowserHearing, TheSides DEF Says
<1>7. Matching'
  <2>1. AnswersWaited(s)' /\ AnswersWaited(o)'
    BY <1>1, <1>4, <1>5 DEF AnswersWaited
  <2>2. ToLo' /\ ToHi'
    BY <1>1, <1>3, <1>5 DEF ToLo, ToHi
  <2> QED BY <1>1, <1>2, <1>3, <1>5, <2>1, <2>2, TheSides DEF Matching
<1>8. ASSUME Both PROVE Dialogue'
  <2>1. /\ OffersOfHi /\ OffersOfLo /\ HiWaits /\ HiAnswered /\ LoWaits /\ LoLate
        /\ \A u \in Sides : Voiced(u) /\ Fitting(u)
    BY <1>1, <1>8 DEF Dialogue
  <2>3. OffersOfHi'
    <3>1. CASE s = "lo" /\ o = "hi"
      BY <1>3, <1>5, <2>1, <3>1 DEF OffersOfHi
    <3>2. CASE s = "hi" /\ o = "lo"
      <4>1. \A id \in Nat : ~OfferIn(wire["lo"], id) /\ ~Takes("lo", id)
        BY <1>1, <1>3, <1>8, <3>2, NoneOffered
      <4> QED BY <1>5, <3>2, <4>1 DEF OffersOfHi
    <3> QED BY <1>1, <3>1, <3>2
  <2>4. OffersOfLo'
    <3>1. CASE s = "lo" /\ o = "hi"
      <4>1. \A id \in Nat : ~Takes("hi", id)
        BY <1>1, <1>3, <1>8, <3>1, NoneOffered
      <4>2. ~HasOffer(wire["hi"])
        BY <1>3, <2>1, <3>1 DEF OffersOfLo
      <4>3. \A id \in Nat : ~Open(wire["hi"], id)
        BY <4>2, InWire
      <4> QED BY <1>4, <1>5, <3>1, <4>1, <4>3 DEF OffersOfLo
    <3>2. CASE s = "hi" /\ o = "lo"
      BY <1>3, <1>5, <2>1, <3>2 DEF OffersOfLo
    <3> QED BY <1>1, <3>1, <3>2
  <2>5. HasPeer(o) /\ d.gen = pc[o].gen
    <3>1. p.chain \in Seq(Ops) /\ 1 \in DOMAIN p.chain /\ p.chain[1] = Head(p.chain)
      <4>1. p.chain \in Seq(Ops)
        BY DEF Conns
      <4> QED BY <4>1, Tails
    <3> QED BY <1>3, <2>1, <3>1 DEF Voiced, Sdp, Fits
  <2>6. Voiced(s)'
    <3>1. \A i \in DOMAIN q.chain : \E k \in DOMAIN p.chain : q.chain[i] = p.chain[k]
      <4>1. q.chain = Tail(p.chain) /\ p.chain \in Seq(Ops)
        BY DEF IsAnswerTaken, Conns
      <4> QED BY <4>1, Tails
    <3> QED BY <1>3, <1>5, <1>o, <2>1, <2>5, <3>1 DEF Voiced
  <2>7. Voiced(o)'
    <3>1. Other(o) = s /\ Voiced(o)
      BY <1>1, <2>1, TheSides
    <3> QED BY <1>3, <1>5, <1>o, <3>1 DEF Voiced
  <2>8. Fitting(s)' /\ Fitting(o)'
    <3>1. Other(o) = s /\ Fitting(o) /\ Fitting(s)
      BY <1>1, <2>1, TheSides
    <3> QED BY <1>3, <1>5, <1>o, <3>1 DEF Fitting
  <2>9. /\ s = "lo" => LoHeard'
        /\ (LoHeard => LoHeard') /\ (LoSpared => LoSpared')
    <3>1. "mic" \in q.sent
      BY <1>2, <1>3, <1>o, <2>1 DEF Voiced
    <3> QED BY <1>1, <1>3, <1>5, <3>1 DEF LoHeard, LoSpared
  <2>10. HiWaits' /\ HiAnswered' /\ LoWaits'
    <3>1. CASE s = "lo" /\ o = "hi"
      BY <1>3, <1>5, <1>o, <2>1, <2>9, <3>1 DEF HiWaits, HiAnswered, LoWaits
    <3>2. CASE s = "hi" /\ o = "lo"
      BY <1>3, <1>4, <1>5, <1>o, <2>1, <2>9, <3>2 DEF HiWaits, HiAnswered, LoWaits
    <3> QED BY <1>1, <3>1, <3>2
  <2>11. LoLate'
    <3>1. CASE s = "lo" /\ o = "hi"
      BY <1>3, <1>4, <1>5, <1>o, <2>1, <3>1 DEF LoLate
    <3>2. CASE s = "hi" /\ o = "lo"
      BY <1>3, <1>4, <1>5, <2>1, <3>2 DEF LoLate
    <3> QED BY <1>1, <3>1, <3>2
  <2> QED BY <1>1, <2>3, <2>4, <2>6, <2>7, <2>8, <2>10, <2>11, TheSides DEF Dialogue
<1>9. Dialogue'
  BY <1>8 DEF Dialogue, Both
<1> QED BY <1>6, <1>7, <1>9 DEF Going

\* What comes too late, or of an earlier connection, is refused: only once the
\* other has gone.
LEMMA RefusedGoing ==
  ASSUME TypeInv, RosterInv, Going, NEW s \in Sides, NEW q \in Conns, pc[s] \in Conns,
         UNCHANGED <<joined, online, wire>>, pc' = [pc EXCEPT ![s] = q],
         pc[s].chain # <<>>, Head(pc[s].chain).op # "local", IsRefused(pc[s], q),
         \/ Head(pc[s].chain).op = "answer" /\ pc[s].sig # "have-local"
         \/ pc[s].far # 0 /\ pc[s].far # Head(pc[s].chain).d.gen
  PROVE  Going'
<1> DEFINE p == pc[s]
           o == Other(s)
           h == Head(p.chain)
<1>1. /\ Hearing /\ Matching /\ Dialogue /\ joined[s] /\ Shape(s, p)
      /\ wire[s] \in Seq(Msgs) /\ wire[o] \in Seq(Msgs)
      /\ AnswersWaited(s) /\ AnswersWaited(o) /\ ToLo /\ ToHi /\ o \in Sides
      /\ HasPeer(o) => Shape(o, pc[o])
      /\ (s = "lo" /\ o = "hi") \/ (s = "hi" /\ o = "lo")
  BY Started
<1>2. Shape(s, q) /\ (OpIn(q.chain, "offer") => OpIn(p.chain, "offer"))
  BY <1>1, ShapeRefused
<1>3. /\ pc'[s] = q /\ pc'[o] = pc[o] /\ HasPeer(s) /\ HasPeer(s)' /\ ~Free(s)
      /\ Taken(s)' => Taken(s)
  <2>1. q.sig = p.sig
    BY DEF IsRefused
  <2> QED BY <1>2, <2>1, Acted
<1>4. ~HasAnswer(wire[s]) /\ \A id \in Nat : ~AnswerIn(wire'[s], id)
  BY <1>1, NoAnswers
<1>5. /\ (HasPeer(o)' <=> HasPeer(o)) /\ (Taken(o)' <=> Taken(o)) /\ (Free(o)' <=> Free(o))
      /\ \A id : Waits(o, id)' <=> Waits(o, id)
  BY <1>3, Spared
<1>6. Hearing'
  BY <1>1, <1>3, <1>5, BrowserHearing, TheSides DEF Says
<1>7. Matching'
  <2>1. AnswersWaited(s)' /\ AnswersWaited(o)'
    BY <1>1, <1>4, <1>5 DEF AnswersWaited
  <2>2. ToLo' /\ ToHi'
    BY <1>1, <1>3, <1>5 DEF ToLo, ToHi
  <2> QED BY <1>1, <1>2, <1>3, <1>5, <2>1, <2>2, TheSides DEF Matching
<1>8. ~Both
  <2> SUFFICES ASSUME Both PROVE FALSE
    OBVIOUS
  <2>1. Voiced(s)
    BY <1>1 DEF Dialogue
  <2>2. p.chain \in Seq(Ops) /\ 1 \in DOMAIN p.chain /\ p.chain[1] = h /\ h \in Ops
    <3>1. p.chain \in Seq(Ops)
      BY DEF Conns
    <3> QED BY <3>1, Tails
  <2>3. h.op \in Sdp
    BY <2>2 DEF Ops, Sdp
  <2>4. HasPeer(o) /\ h.d.gen = pc[o].gen /\ (p.far = 0 \/ p.far = pc[o].gen)
    BY <1>3, <2>1, <2>2, <2>3 DEF Voiced, Fits
  <2>5. h.op = "answer" => p.sig = "have-local"
    BY <1>1, Shapes
  <2> QED BY <2>4, <2>5
<1>9. Dialogue'
  BY <1>8 DEF Dialogue, Both
<1> QED BY <1>6, <1>7, <1>9 DEF Going

-----------------------------------------------------------------------------
(* A description comes.                                                      *)

LEMMA SdpHearing ==
  ASSUME TypeInv, RosterInv, Hearing, NEW s \in Sides, UNCHANGED <<joined, online>>,
         wire[s] # <<>>, wire'[s] = Tail(wire[s]), wire'[Other(s)] = wire[Other(s)],
         HasPeer(s), HasPeer(s)', HasPeer(Other(s))' <=> HasPeer(Other(s))
  PROVE  Hearing'
<1>1. Named(wire'[s]) /\ Heard(s)'
  BY HeardTaken
<1>2. Says(Other(s), Talk \union Sdp) /\ Other(s) \in Sides
  BY TheSides DEF Says
<1>3. Named(wire'[Other(s)]) /\ Heard(Other(s))'
  BY <1>2, HeardSaid
<1> QED BY <1>1, <1>3, TheSides DEF Hearing

LEMMA AnswerHeardGoing ==
  ASSUME TypeInv, RosterInv, Going, NEW s \in Sides, NEW q \in Conns, pc[s] \in Conns,
         UNCHANGED <<joined, online>>, pc' = [pc EXCEPT ![s] = q],
         lostOffer => lostOffer',
         wire[s] # <<>>, wire'[s] = Tail(wire[s]), wire'[Other(s)] = wire[Other(s)],
         NEW d \in Descs, Head(wire[s]).t = "answer", Head(wire[s]).d = d,
         NEW h \in Ops, h.op = "answer", h.d = d, IsChained(pc[s], q, h)
  PROVE  Going'
<1> DEFINE p == pc[s]
           o == Other(s)
<1>1. /\ Hearing /\ Matching /\ Dialogue /\ joined[s] /\ Shape(s, p)
      /\ wire[s] \in Seq(Msgs) /\ wire[o] \in Seq(Msgs)
      /\ AnswersWaited(s) /\ AnswersWaited(o) /\ ToLo /\ ToHi /\ o \in Sides
      /\ HasPeer(o) => Shape(o, pc[o])
      /\ (s = "lo" /\ o = "hi") \/ (s = "hi" /\ o = "lo")
  BY Started
<1>o. /\ q.chain = Append(p.chain, h) /\ q.sig = p.sig /\ q.local = p.local
      /\ q.makingOffer = p.makingOffer /\ q.gen = p.gen /\ q.far = p.far /\ q.sent = p.sent
      /\ q.tracks = p.tracks /\ q.remote = p.remote
  BY DEF IsChained
<1>t. /\ AnswerIn(wire[s], d.id) /\ HasAnswer(wire[s]) /\ ~HasAnswer(wire'[s])
      /\ \A x \in Nat : OfferIn(wire[s], x) <=> OfferIn(wire'[s], x)
      /\ \A x \in Nat : Open(wire'[s], x) => Open(wire[s], x)
      /\ \A x \in Nat : ~AnswerIn(wire'[s], x)
      /\ HasOffer(wire[s]) <=> HasOffer(wire'[s])
      /\ OneOffer(wire[s]) => OneOffer(wire'[s])
      /\ OneAnswer(wire[s]) => OneAnswer(wire'[s])
      /\ AnswersFirst(wire[s]) => AnswersFirst(wire'[s])
      /\ Apart(wire[s]) => Apart(wire'[s])
      /\ \A g \in Nat : FitsAll(wire[s], g) => FitsAll(wire'[s], g)
  <2>1. OneAnswer(wire[s])
    BY <1>1 DEF AnswersWaited
  <2>2. /\ AnswerIn(wire[s], d.id) /\ HasAnswer(wire[s]) /\ ~HasAnswer(wire'[s])
        /\ \A x \in Nat : OfferIn(wire[s], x) => OfferIn(wire'[s], x)
        /\ \A x \in Nat : Open(wire'[s], x) => Open(wire[s], x)
        /\ HasOffer(wire[s]) => HasOffer(wire'[s])
    BY <1>1, <2>1, TailAnswer
  <2>3. \A x \in Nat : ~AnswerIn(wire'[s], x)
    BY <2>2, InWire
  <2> QED BY <1>1, <2>2, <2>3, TailLess
<1>2. Waits(s, d.id) /\ Free(s) /\ d.id \in Nat /\ p.chain = <<>> /\ p.sig = "have-local" /\ p.local.id = d.id
  <2>1. d.id \in Nat
    BY DEF Descs
  <2>2. Waits(s, d.id) /\ Free(s)
    BY <1>1, <1>t, <2>1 DEF AnswersWaited
  <2> QED BY <2>1, <2>2 DEF Waits, Free
<1>s. /\ Shape(s, q) /\ OpIn(q.chain, "answer") /\ ~OpIn(q.chain, "offer") /\ \A id : ~OfferOp(q.chain, id)
      /\ ~OpIn(p.chain, "offer") /\ \A id : ~OfferOp(p.chain, id)
  BY <1>1, <1>2, <1>o, ShapeAnswer, NoOps
<1>3. /\ pc'[s] = q /\ pc'[o] = pc[o] /\ HasPeer(s) /\ HasPeer(s)' /\ ~Taken(s) /\ ~Taken(s)'
      /\ ~HasRemote(s) /\ ~HasRemote(s)' /\ Answered(s) /\ Answered(s)'
      /\ \A id : ~Takes(s, id) /\ ~Takes(s, id)' /\ (Waits(s, id)' <=> Waits(s, id))
  <2>1. \A id : /\ Takes(s, id) <=> OfferOp(p.chain, id) \/ (p.sig = "have-remote" /\ p.remote.id = id)
                /\ Takes(s, id)' <=> OfferOp(q.chain, id) \/ (q.sig = "have-remote" /\ q.remote.id = id)
                /\ Waits(s, id) <=> p.sig = "have-local" /\ p.local.id = id
                /\ Waits(s, id)' <=> q.sig = "have-local" /\ q.local.id = id
    BY Acted
  <2>2. \A id : ~Takes(s, id) /\ ~Takes(s, id)' /\ (Waits(s, id)' <=> Waits(s, id))
    <3> HIDE DEF p
    <3> QED BY <1>2, <1>s, <1>o, <2>1
  <2> QED BY <1>2, <1>s, <1>o, <1>t, <2>2, Acted
<1>5. /\ (HasPeer(o)' <=> HasPeer(o)) /\ (Taken(o)' <=> Taken(o)) /\ (HasRemote(o)' <=> HasRemote(o))
      /\ (Free(o)' <=> Free(o)) /\ (Answered(o)' <=> Answered(o))
      /\ \A id : (Takes(o, id)' <=> Takes(o, id)) /\ (Waits(o, id)' <=> Waits(o, id))
  BY <1>3, Spared
<1>6. Hearing'
  BY <1>1, <1>3, <1>5, SdpHearing
<1>7. Matching'
  <2>1. AnswersWaited(s)' /\ AnswersWaited(o)'
    BY <1>1, <1>t, <1>5 DEF AnswersWaited
  <2>2. ToLo' /\ ToHi'
    BY <1>1, <1>t, <1>3, <1>5 DEF ToLo, ToHi
  <2> QED BY <1>1, <1>s, <1>3, <1>5, <2>1, <2>2, TheSides DEF Matching
<1>8. ASSUME Both PROVE Dialogue'
  <2>1. /\ OffersOfHi /\ OffersOfLo /\ HiWaits /\ HiAnswered /\ LoWaits /\ LoLate
        /\ \A u \in Sides : Voiced(u) /\ Fitting(u)
    BY <1>1, <1>8 DEF Dialogue
  <2>3. OffersOfHi'
    <3>1. CASE s = "lo" /\ o = "hi"
      BY <1>t, <1>3, <1>5, <2>1, <3>1 DEF OffersOfHi
    <3>2. CASE s = "hi" /\ o = "lo"
      <4>1. \A id \in Nat : ~OfferIn(wire["lo"], id) /\ ~Takes("lo", id)
        BY <1>t, <2>1, <3>2 DEF OffersOfHi
      <4> QED BY <1>5, <3>2, <4>1 DEF OffersOfHi
    <3> QED BY <1>1, <3>1, <3>2
  <2>4. OffersOfLo'
    <3>1. CASE s = "lo" /\ o = "hi"
      <4>1. \A id \in Nat : ~Takes("hi", id)
        BY <1>t, <2>1, <3>1 DEF OffersOfLo
      <4>2. \A id \in Nat : ~Open(wire["hi"], id)
        BY <1>3, <2>1, <3>1 DEF OffersOfLo
      <4> QED BY <1>3, <1>5, <2>1, <3>1, <4>1, <4>2 DEF OffersOfLo
    <3>2. CASE s = "hi" /\ o = "lo"
      BY <1>t, <1>3, <1>5, <2>1, <3>2 DEF OffersOfLo
    <3> QED BY <1>1, <3>1, <3>2
  <2>5. HasPeer(o) /\ Fits(d, pc[o].gen)
    <3>1. HasPeer(o) /\ FitsAll(wire[s], pc[o].gen)
      BY <1>t, <2>1 DEF Fitting
    <3>2. Head(wire[s]) = wire[s][1] /\ 1 \in DOMAIN wire[s]
      BY <1>1, Parts
    <3> QED BY <3>1, <3>2 DEF FitsAll, Sdp
  <2>6. Voiced(s)'
    <3>1. DOMAIN q.chain = {1} /\ q.chain[1].d = d
      BY <1>2, <1>o
    <3> QED BY <1>2, <1>3, <1>5, <1>o, <2>1, <2>5, <3>1 DEF Voiced
  <2>7. Voiced(o)'
    <3>1. Other(o) = s /\ Voiced(o)
      BY <1>1, <2>1, TheSides
    <3> QED BY <1>3, <1>5, <1>o, <3>1 DEF Voiced
  <2>8. Fitting(s)' /\ Fitting(o)'
    <3>1. Other(o) = s /\ Fitting(o) /\ Fitting(s) /\ pc[o].gen \in Nat
      BY <1>1, <2>1, TheSides, Gens
    <3> QED BY <1>t, <1>3, <1>5, <1>o, <3>1 DEF Fitting
  <2>9. (LoHeard => LoHeard') /\ (LoSpared => LoSpared')
    BY <1>1, <1>3, <1>5, <1>o DEF LoHeard, LoSpared
  <2>10. HiWaits' /\ HiAnswered' /\ LoWaits'
    <3>1. CASE s = "lo" /\ o = "hi"
      BY <1>t, <1>3, <1>5, <1>o, <2>1, <2>9, <3>1 DEF HiWaits, HiAnswered, LoWaits
    <3>2. CASE s = "hi" /\ o = "lo"
      BY <1>t, <1>3, <1>5, <1>o, <2>1, <2>9, <3>2 DEF HiWaits, HiAnswered, LoWaits
    <3> QED BY <1>1, <3>1, <3>2
  <2>11. LoLate'
    <3>1. CASE s = "lo" /\ o = "hi"
      BY <1>t, <1>3, <1>5, <1>o, <2>1, <3>1 DEF LoLate
    <3>2. CASE s = "hi" /\ o = "lo"
      BY <1>t, <1>3, <1>5, <2>1, <3>2 DEF LoLate
    <3> QED BY <1>1, <3>1, <3>2
  <2> QED BY <1>1, <2>3, <2>4, <2>6, <2>7, <2>8, <2>10, <2>11, TheSides DEF Dialogue
<1>9. Dialogue'
  BY <1>8 DEF Dialogue, Both
<1> QED BY <1>6, <1>7, <1>9 DEF Going

\* The offer is taken up: s has nothing of its own that it would not give up.
LEMMA OfferHeardGoing ==
  ASSUME TypeInv, RosterInv, Going, NEW s \in Sides, NEW q \in Conns, pc[s] \in Conns,
         UNCHANGED <<joined, online>>, pc' = [pc EXCEPT ![s] = q],
         lostOffer => lostOffer',
         wire[s] # <<>>, wire'[s] = Tail(wire[s]), wire'[Other(s)] = wire[Other(s)],
         NEW d \in Descs, Head(wire[s]).t = "offer", Head(wire[s]).d = d,
         NEW h \in Ops, h.op = "offer", h.d = d, IsChained(pc[s], q, h),
         s = "hi" => ~pc[s].makingOffer /\ pc[s].sig = "stable"
  PROVE  Going'
<1> DEFINE p == pc[s]
           o == Other(s)
<1>1. /\ Hearing /\ Matching /\ Dialogue /\ joined[s] /\ Shape(s, p)
      /\ wire[s] \in Seq(Msgs) /\ wire[o] \in Seq(Msgs)
      /\ AnswersWaited(s) /\ AnswersWaited(o) /\ ToLo /\ ToHi /\ o \in Sides
      /\ HasPeer(o) => Shape(o, pc[o])
      /\ (s = "lo" /\ o = "hi") \/ (s = "hi" /\ o = "lo")
  BY Started
<1>o. /\ q.chain = Append(p.chain, h) /\ q.sig = p.sig /\ q.local = p.local
      /\ q.makingOffer = p.makingOffer /\ q.gen = p.gen /\ q.far = p.far /\ q.sent = p.sent
      /\ q.tracks = p.tracks /\ q.remote = p.remote /\ d.id \in Nat
  BY DEF IsChained, Descs
<1>h. /\ OfferIn(wire[s], d.id) /\ HasOffer(wire[s]) /\ ~HasAnswer(wire[s]) /\ ~Taken(s)
      /\ Open(wire[s], d.id)
  <2>1. OfferIn(wire[s], d.id) /\ HasOffer(wire[s])
    BY <1>1, TailOffer
  <2>2. ~Taken(s)
    BY <1>1, <2>1 DEF ToLo, ToHi
  <2>3. ~HasAnswer(wire[s])
    <3>1. CASE s = "lo"
      <4>1. AnswersFirst(wire[s])
        BY <1>1, <3>1 DEF ToLo
      <4> QED BY <1>1, <4>1, TailOffer
    <3>2. CASE s = "hi"
      BY <1>1, <3>2, NoAnswers
    <3> QED BY <1>1, <3>1, <3>2
  <2> QED BY <1>1, <2>1, <2>2, <2>3, TailOffer
<1>t. /\ ~HasOffer(wire'[s]) /\ ~HasAnswer(wire'[s])
      /\ \A x \in Nat : ~OfferIn(wire'[s], x) /\ ~AnswerIn(wire'[s], x) /\ ~Open(wire'[s], x)
      /\ OneOffer(wire[s]) => OneOffer(wire'[s])
      /\ OneAnswer(wire[s]) => OneAnswer(wire'[s])
      /\ AnswersFirst(wire[s]) => AnswersFirst(wire'[s])
      /\ Apart(wire[s]) => Apart(wire'[s])
      /\ \A g \in Nat : FitsAll(wire[s], g) => FitsAll(wire'[s], g)
  <2>1. ~HasOffer(wire'[s])
    BY <1>1, <1>h, TailOffer DEF ToLo, ToHi
  <2>2. ~HasAnswer(wire'[s])
    BY <1>1, <1>h, TailLess
  <2>3. \A x \in Nat : ~OfferIn(wire'[s], x) /\ ~AnswerIn(wire'[s], x) /\ ~Open(wire'[s], x)
    BY <2>1, <2>2, InWire
  <2> QED BY <1>1, <2>1, <2>2, <2>3, TailLess
<1>s. /\ Shape(s, q) /\ OpIn(q.chain, "offer") /\ (\A id : OfferOp(q.chain, id) <=> id = d.id)
      /\ OpIn(q.chain, "answer") <=> OpIn(p.chain, "answer")
      /\ p.sig # "have-remote" /\ ~OpIn(p.chain, "offer") /\ (\A id : ~OfferOp(p.chain, id))
  <2>1. p.sig # "have-remote" /\ ~OpIn(p.chain, "offer")
    BY <1>h, Acted
  <2>2. \A id : ~OfferOp(p.chain, id)
    BY <1>1, <2>1, Shapes
  <2>3. s = "hi" => ~p.makingOffer /\ p.sig = "stable"
    OBVIOUS
  <2> HIDE DEF p
  <2>4. /\ Shape(s, q) /\ OpIn(q.chain, "offer") /\ (\A id : OfferOp(q.chain, id) <=> id = d.id)
        /\ OpIn(q.chain, "answer") <=> OpIn(p.chain, "answer")
    <3>1. p \in Conns
      BY DEF p
    <3>2. Shape(s, p) /\ IsChained(p, q, h)
      BY <1>1 DEF p
    <3> QED BY <2>1, <2>3, <3>1, <3>2, ShapeOffer
  <2> QED BY <2>1, <2>2, <2>4
<1>3. /\ pc'[s] = q /\ pc'[o] = pc[o] /\ HasPeer(s) /\ HasPeer(s)' /\ Taken(s)'
      /\ ~HasRemote(s) /\ ~HasRemote(s)' /\ (Answered(s)' <=> Answered(s))
      /\ \A id : ~Takes(s, id) /\ (Takes(s, id)' <=> id = d.id) /\ (Waits(s, id)' <=> Waits(s, id))
  <2>1. \A id : /\ Takes(s, id) <=> OfferOp(p.chain, id) \/ (p.sig = "have-remote" /\ p.remote.id = id)
                /\ Takes(s, id)' <=> OfferOp(q.chain, id) \/ (q.sig = "have-remote" /\ q.remote.id = id)
                /\ Waits(s, id) <=> p.sig = "have-local" /\ p.local.id = id
                /\ Waits(s, id)' <=> q.sig = "have-local" /\ q.local.id = id
    BY Acted
  <2>2. \A id : ~Takes(s, id) /\ (Takes(s, id)' <=> id = d.id) /\ (Waits(s, id)' <=> Waits(s, id))
    <3> HIDE DEF p
    <3> QED BY <1>s, <1>o, <2>1
  <2>3. Answered(s)' <=> Answered(s)
    BY <1>s, <1>h, <1>t, Acted
  <2> QED BY <1>s, <1>o, <1>t, <2>2, <2>3, Acted
<1>5. /\ (HasPeer(o)' <=> HasPeer(o)) /\ (Taken(o)' <=> Taken(o)) /\ (HasRemote(o)' <=> HasRemote(o))
      /\ (Free(o)' <=> Free(o)) /\ (Answered(o)' <=> Answered(o))
      /\ \A id : (Takes(o, id)' <=> Takes(o, id)) /\ (Waits(o, id)' <=> Waits(o, id))
  BY <1>3, Spared
<1>6. Hearing'
  BY <1>1, <1>3, <1>5, SdpHearing
<1>7. Matching'
  <2>1. AnswersWaited(s)' /\ AnswersWaited(o)'
    BY <1>1, <1>t, <1>5 DEF AnswersWaited
  <2>2. ToLo' /\ ToHi'
    BY <1>1, <1>t, <1>3, <1>5 DEF ToLo, ToHi
  <2> QED BY <1>1, <1>s, <1>3, <1>5, <2>1, <2>2, TheSides DEF Matching
\* An offer that the impolite side takes is what the polite one waits about.
<1>a. ASSUME Both, s = "hi"
      PROVE  /\ ~HasOffer(wire["lo"]) /\ ~Taken("lo") /\ ~Answered("lo")
             /\ (\A id \in Nat : ~OfferIn(wire["lo"], id) /\ ~Takes("lo", id))
             /\ Waits("lo", d.id) /\ Free("lo")
  <2>1. OffersOfLo
    BY <1>1, <1>a DEF Dialogue
  <2>2. /\ ~HasOffer(wire["lo"]) /\ ~Taken("lo")
        /\ \A id \in Nat : ~OfferIn(wire["lo"], id) /\ ~Takes("lo", id)
    <3>1. \A id \in Nat : ~Waits("hi", id)
      BY <1>a DEF Waits
    <3> QED BY <1>1, <1>a, <3>1, NoneOffered
  <2>3. ~HasRemote("lo")
    BY <2>2, TakenIds DEF Sides
  <2>4. Waits("lo", d.id) /\ ~Answered("lo")
    BY <1>a, <1>h, <1>o, <2>1, <2>3 DEF OffersOfLo
  <2>5. HasPeer("lo") /\ pc["lo"].sig = "have-local" /\ pc["lo"] \in Conns /\ Shape("lo", pc["lo"])
    <3>1. HasPeer("lo") /\ pc["lo"].sig = "have-local"
      BY <2>4 DEF Waits
    <3> QED BY <1>1, <3>1 DEF TypeInv, HasPeer, Sides, Matching
  <2>6. ~OpIn(pc["lo"].chain, "offer") /\ ~OpIn(pc["lo"].chain, "answer")
    BY <2>2, <2>4, <2>5 DEF Taken, Answered
  <2>7. pc["lo"].chain = <<>>
    BY <2>5, <2>6, Shapes DEF Sides
  <2> QED BY <2>2, <2>4, <2>5, <2>7 DEF Free
<1>8. ASSUME Both PROVE Dialogue'
  <2>1. /\ OffersOfHi /\ OffersOfLo /\ HiWaits /\ HiAnswered /\ LoWaits /\ LoLate
        /\ \A u \in Sides : Voiced(u) /\ Fitting(u)
    BY <1>1, <1>8 DEF Dialogue
  <2>3. OffersOfHi'
    <3>1. CASE s = "lo" /\ o = "hi"
      BY <1>h, <1>t, <1>3, <1>5, <2>1, <3>1 DEF OffersOfHi
    <3>2. CASE s = "hi" /\ o = "lo"
      BY <1>a, <1>5, <1>8, <3>2 DEF OffersOfHi
    <3> QED BY <1>1, <3>1, <3>2
  <2>4. OffersOfLo'
    <3>1. CASE s = "lo" /\ o = "hi"
      <4>1. \A id \in Nat : ~Takes("hi", id)
        BY <1>h, <2>1, <3>1 DEF OffersOfLo
      <4> QED BY <1>3, <1>5, <2>1, <3>1, <4>1 DEF OffersOfLo
    <3>2. CASE s = "hi" /\ o = "lo"
      <4>1. ~HasAnswer(wire["lo"]) /\ ~Answered("lo")'
        BY <1>a, <1>5, <1>8, <3>2 DEF Answered
      <4> QED BY <1>a, <1>t, <1>3, <1>5, <1>8, <3>2, <4>1 DEF OffersOfLo
    <3> QED BY <1>1, <3>1, <3>2
  <2>5. HasPeer(o) /\ Fits(d, pc[o].gen)
    <3>1. HasPeer(o) /\ FitsAll(wire[s], pc[o].gen)
      BY <1>h, <2>1 DEF Fitting
    <3>2. Head(wire[s]) = wire[s][1] /\ 1 \in DOMAIN wire[s]
      BY <1>1, Parts
    <3> QED BY <3>1, <3>2 DEF FitsAll, Sdp
  <2>6. Voiced(s)'
    <3>1. \A i \in DOMAIN q.chain : (i \in DOMAIN p.chain /\ q.chain[i] = p.chain[i]) \/ q.chain[i].d = d
      <4>1. p.chain \in Seq(Ops)
        BY DEF Conns
      <4>2. \A i \in DOMAIN q.chain : \/ i \in DOMAIN p.chain /\ q.chain[i] = p.chain[i]
                                      \/ q.chain[i] = h
        BY <1>o, <4>1, Appends
      <4> QED BY <4>2
    <3>2. \A i \in DOMAIN q.chain : q.chain[i].op \in Sdp => Fits(q.chain[i].d, pc[o].gen)
      <4>1. \A i \in DOMAIN p.chain : p.chain[i].op \in Sdp => Fits(p.chain[i].d, pc[o].gen)
        BY <1>3, <2>1 DEF Voiced
      <4> QED BY <2>5, <3>1, <4>1
    <3>3. /\ "mic" \in p.tracks /\ (p.sig = "have-local" => "mic" \in p.local.tracks)
          /\ p.far = 0 \/ p.far = pc[o].gen
      BY <1>3, <2>1 DEF Voiced
    <3> QED BY <1>s, <1>3, <1>5, <1>o, <2>5, <3>2, <3>3 DEF Voiced
  <2>7. Voiced(o)'
    <3>1. Other(o) = s /\ Voiced(o)
      BY <1>1, <2>1, TheSides
    <3> QED BY <1>3, <1>5, <1>o, <3>1 DEF Voiced
  <2>8. Fitting(s)' /\ Fitting(o)'
    <3>1. Other(o) = s /\ Fitting(o) /\ Fitting(s) /\ pc[o].gen \in Nat
      BY <1>1, <2>1, TheSides, Gens
    <3> QED BY <1>t, <1>3, <1>5, <1>o, <3>1 DEF Fitting
  <2>9. (LoHeard => LoHeard') /\ (LoSpared => LoSpared')
    BY <1>1, <1>3, <1>5, <1>o DEF LoHeard, LoSpared
  <2>10. HiWaits' /\ HiAnswered' /\ LoWaits'
    <3>1. CASE s = "lo" /\ o = "hi"
      BY <1>3, <1>5, <1>o, <2>1, <2>9, <3>1 DEF HiWaits, HiAnswered, LoWaits
    <3>2. CASE s = "hi" /\ o = "lo"
      BY <1>3, <1>5, <1>o, <2>1, <2>9, <3>2 DEF HiWaits, HiAnswered, LoWaits
    <3> QED BY <1>1, <3>1, <3>2
  <2>11. LoLate'
    <3>1. CASE s = "lo" /\ o = "hi"
      BY <1>t, <1>3, <1>5, <1>o, <2>1, <3>1 DEF LoLate
    <3>2. CASE s = "hi" /\ o = "lo"
      BY <1>t, <1>3, <1>5, <2>1, <3>2 DEF LoLate
    <3> QED BY <1>1, <3>1, <3>2
  <2> QED BY <1>1, <2>3, <2>4, <2>6, <2>7, <2>8, <2>10, <2>11, TheSides DEF Dialogue
<1>9. Dialogue'
  BY <1>8 DEF Dialogue, Both
<1> QED BY <1>6, <1>7, <1>9 DEF Going

\* The offer is ignored: the polite side will hear from the other all the same.
LEMMA IgnoredGoing ==
  ASSUME TypeInv, RosterInv, Going, pc["hi"] \in Conns, UNCHANGED <<joined, online, pc>>,
         lostOffer' = (lostOffer \/ Applying("hi")),
         wire["hi"] # <<>>, wire'["hi"] = Tail(wire["hi"]), wire'["lo"] = wire["lo"],
         Head(wire["hi"]).t = "offer", pc["hi"].makingOffer \/ pc["hi"].sig # "stable"
  PROVE  Going'
<1>1. /\ Hearing /\ Matching /\ Dialogue /\ joined["hi"] /\ Shape("hi", pc["hi"])
      /\ wire["hi"] \in Seq(Msgs) /\ wire["lo"] \in Seq(Msgs)
      /\ AnswersWaited("hi") /\ AnswersWaited("lo") /\ ToLo /\ ToHi
      /\ HasPeer("lo") => Shape("lo", pc["lo"])
      /\ "lo" \in Sides /\ "hi" \in Sides /\ Other("hi") = "lo" /\ Other("lo") = "hi"
  BY Started DEF Sides, Other
<1>t. /\ (HasAnswer(wire'["hi"]) <=> HasAnswer(wire["hi"])) /\ (HasOffer(wire'["hi"]) => HasOffer(wire["hi"]))
      /\ \A x \in Nat : /\ AnswerIn(wire'["hi"], x) => AnswerIn(wire["hi"], x)
                        /\ Open(wire'["hi"], x) => Open(wire["hi"], x)
      /\ OneAnswer(wire["hi"]) => OneAnswer(wire'["hi"])
      /\ Apart(wire["hi"]) => Apart(wire'["hi"])
      /\ \A g \in Nat : FitsAll(wire["hi"], g) => FitsAll(wire'["hi"], g)
  BY <1>1, TailLess, TailOffer
<1>3. \A u \in Sides : /\ (HasPeer(u)' <=> HasPeer(u)) /\ (Taken(u)' <=> Taken(u))
                       /\ (HasRemote(u)' <=> HasRemote(u)) /\ (Free(u)' <=> Free(u))
                       /\ \A id : (Takes(u, id)' <=> Takes(u, id)) /\ (Waits(u, id)' <=> Waits(u, id))
                       /\ Answered(u)' <=> Answered(u)
  <2>1. ASSUME NEW u \in Sides
        PROVE  /\ (HasPeer(u)' <=> HasPeer(u)) /\ (Taken(u)' <=> Taken(u))
               /\ (HasRemote(u)' <=> HasRemote(u)) /\ (Free(u)' <=> Free(u))
               /\ \A id : (Takes(u, id)' <=> Takes(u, id)) /\ (Waits(u, id)' <=> Waits(u, id))
               /\ Answered(u)' <=> Answered(u)
    <3>1. pc'[u] = pc[u] /\ (HasAnswer(wire'[u]) <=> HasAnswer(wire[u]))
      BY <1>t DEF Sides
    <3> QED BY <3>1, Spared
  <2> QED BY <2>1
<1>6. Hearing'
  <2>1. HasPeer("hi")
    BY ConnsArePeers DEF HasPeer
  <2> QED BY <1>1, <1>3, <2>1, SdpHearing
<1>7. Matching'
  <2>1. AnswersWaited("hi")' /\ AnswersWaited("lo")'
    BY <1>1, <1>t, <1>3 DEF AnswersWaited
  <2>2. ToLo' /\ ToHi'
    BY <1>1, <1>t, <1>3 DEF ToLo, ToHi
  <2> QED BY <1>1, <1>3, <2>1, <2>2 DEF Matching, Sides
<1>8. ASSUME Both PROVE Dialogue'
  <2>1. /\ OffersOfHi /\ OffersOfLo /\ HiWaits /\ HiAnswered /\ LoWaits /\ LoLate
        /\ \A u \in Sides : Voiced(u) /\ Fitting(u)
    BY <1>1, <1>8 DEF Dialogue
  <2>2. OffersOfHi' /\ OffersOfLo'
    BY <1>1, <1>t, <1>3, <2>1 DEF OffersOfHi, OffersOfLo
  <2>3. \A u \in Sides : Voiced(u)'
    BY <1>1, <1>3, <2>1, TheSides DEF Voiced
  <2>4. \A u \in Sides : Fitting(u)'
    <3>1. pc["lo"].gen \in Nat
      BY Gens DEF Sides
    <3> QED BY <1>1, <1>t, <1>3, <2>1, <3>1 DEF Fitting, Sides
  <2>5. LoHeard' <=> LoHeard
    BY <1>1, <1>3 DEF LoHeard
  <2>6. HiWaits' /\ HiAnswered'
    BY <1>1, <1>3, <2>1, <2>5 DEF HiWaits, HiAnswered
\* The offer that comes behind an answer is not lost.
  <2>0. LoLate'
    <3> SUFFICES ASSUME HasPeer("lo"), pc["lo"].sig = "have-local", HasAnswer(wire["hi"])
                 PROVE  \E id \in Nat : Open(wire'["hi"], id)
      BY <1>1, <1>t, <1>3 DEF LoLate
    <3>1. PICK id \in Nat : Open(wire["hi"], id)
      BY <2>1 DEF LoLate
    <3> QED BY <1>1, <3>1, TailOpen
  <2>7. \/ pc["hi"].makingOffer \/ HasOffer(wire["lo"]) \/ Taken("lo") \/ HasAnswer(wire["hi"])
        \/ LoSpared' \/ Taken("hi")
    <3>1. HasPeer("hi") /\ (pc["hi"].sig = "have-remote" => Taken("hi"))
      BY ConnsArePeers DEF HasPeer, Taken
    <3>2. pc["hi"].sig \in {"stable", "have-local", "have-remote"}
      BY DEF Conns
    <3>3. OpIn(pc["hi"].chain, "answer") => LoSpared'
      BY <2>1, <2>5, <3>1 DEF HiAnswered, Answered, OpIn, Applying, LoSpared
    <3> QED BY <2>1, <3>1, <3>2, <3>3 DEF HiWaits, Answered
  <2>8. LoWaits'
    <3>1. HasPeer("hi")
      BY ConnsArePeers DEF HasPeer
    <3>2. LoLate' /\ HasAnswer(wire["hi"]) /\ HasPeer("lo") /\ pc["lo"].sig = "have-local" =>
            HasOffer(wire'["hi"])
      BY <1>1, <1>t, <1>3, InWire DEF LoLate
    <3> QED BY <1>1, <1>3, <2>0, <2>7, <3>1, <3>2 DEF LoWaits
  <2> QED BY <2>0, <2>2, <2>3, <2>4, <2>6, <2>8 DEF Dialogue
<1>9. Dialogue'
  BY <1>8 DEF Dialogue, Both
<1> QED BY <1>6, <1>7, <1>9 DEF Going

LEMMA SdpGoing ==
  ASSUME TypeInv, RosterInv, Going, NEW s \in Sides, Receive(s), joined[s], OnSdp(s, Head(wire[s]))
  PROVE  Going'
<1> DEFINE m == Head(wire[s])
           o == Other(s)
<1>0. /\ wire[s] # <<>> /\ m \in Msgs /\ m.d \in Descs /\ UNCHANGED <<joined, online>>
      /\ wire' = Rest(s) /\ m.t \in {"offer", "answer"} /\ HasPeer(s) /\ pc[s] \in Conns
      /\ wire \in [Sides -> Seq(Msgs)] /\ OnSdp(s, m)
  BY Resting DEF TypeInv, Receive, OnSdp, Msgs, HasPeer, call
<1>1. wire'[s] = Tail(wire[s]) /\ wire'[o] = wire[o]
  BY <1>0, Resting
<1> HIDE DEF m
<1>2. CASE Ignores(s, m.t)
  <2>1. /\ UNCHANGED pc /\ s = "hi" /\ m.t = "offer" /\ (pc[s].makingOffer \/ pc[s].sig # "stable")
        /\ lostOffer' = (lostOffer \/ Applying(s))
    BY <1>0, <1>2 DEF OnSdp, Ignores
  <2>2. o = "lo"
    BY <2>1 DEF Other
  <2> QED BY <1>0, <1>1, <2>1, <2>2, IgnoredGoing DEF m
<1>3. CASE ~Ignores(s, m.t)
  <2>1. PICK h : h = [op |-> m.t, d |-> m.d]
    OBVIOUS
  <2>2. /\ h \in Ops /\ h.op = m.t /\ h.d = m.d /\ pc' = [pc EXCEPT ![s].chain = Append(@, h)]
        /\ UNCHANGED lostOffer
    BY <1>0, <1>3, <2>1 DEF OnSdp, Ops
  <2>3. PICK q : q = [pc[s] EXCEPT !.chain = Append(@, h)]
    OBVIOUS
  <2>4. q \in Conns /\ IsChained(pc[s], q, h)
    BY <1>0, <2>2, <2>3, Chaining DEF Conns, IsChained
  <2>5. pc' = [pc EXCEPT ![s] = q]
    BY <2>2, <2>3
  <2>6. CASE m.t = "answer"
    BY <1>0, <1>1, <2>2, <2>4, <2>5, <2>6, AnswerHeardGoing DEF m
  <2>7. CASE m.t = "offer"
    <3>1. s = "hi" => ~pc[s].makingOffer /\ pc[s].sig = "stable"
      BY <1>3, <2>7 DEF Ignores
    <3> QED BY <1>0, <1>1, <2>2, <2>4, <2>5, <2>7, <3>1, OfferHeardGoing DEF m
  <2> QED BY <1>0, <2>6, <2>7
<1> QED BY <1>2, <1>3

-----------------------------------------------------------------------------
(* Every step keeps the negotiation going.                                   *)

LEMMA ReceiveGoing ==
  ASSUME TypeInv, RosterInv, Going, NEW s \in Sides, Receive(s), ~unheeded' PROVE Going'
<1> DEFINE m == Head(wire[s])
<1>1. \/ Unheard(s)
      \/ joined[s] /\ (OnRoster(s, m) \/ OnState(s, m) \/ OnWatch(s, m) \/ OnSdp(s, m) \/ OnStranger(s, m))
  BY DEF Receive, Dropped, Heeded
<1>2. CASE Unheard(s)
  BY <1>2, UnheardGoing
<1>3. CASE joined[s] /\ (OnState(s, m) \/ OnWatch(s, m))
  BY <1>3, QuietGoing
<1>4. CASE joined[s] /\ OnRoster(s, m)
  <2>1. CASE HasPeer(s) <=> Other(s) \in m.who
    BY <1>4, <2>1, QuietGoing
  <2>2. CASE HasPeer(s) /\ Other(s) \notin m.who
    BY <1>4, <2>2, DropPeerGoing
  <2>3. CASE ~HasPeer(s) /\ Other(s) \in m.who
    BY <1>4, <2>3, CreateGoing
  <2> QED BY <2>1, <2>2, <2>3
<1>5. CASE joined[s] /\ OnSdp(s, m)
  BY <1>5, SdpGoing
<1>6. CASE joined[s] /\ OnStranger(s, m)
  BY <1>6, NoStranger DEF OnStranger, Going
<1> QED BY <1>1, <1>2, <1>3, <1>4, <1>5, <1>6

LEMMA ApplyGoing ==
  ASSUME TypeInv, RosterInv, Going, NEW s \in Sides, Apply(s) PROVE Going'
<1> DEFINE p == pc[s]
           o == Other(s)
           a == [Msg("answer") EXCEPT !.d = Answer(p)]
           f == [Msg("offer") EXCEPT !.d = Offer(p)]
<1>1. p \in Conns /\ p.chain # <<>> /\ UNCHANGED <<joined, online, lostOffer>>
  BY Applied DEF call, Apply, history
<1>2. PICK q \in Conns :
        /\ pc' = [pc EXCEPT ![s] = q]
        /\ \/ /\ Head(p.chain).op = "local" /\ p.sig = "have-remote" /\ IsAnswered(p, q)
              /\ wire' = Sent(s, <<a>>)
           \/ /\ Head(p.chain).op = "local" /\ p.sig # "have-remote" /\ IsOffered(p, q)
              /\ wire' = Sent(s, <<f>>)
           \/ /\ Head(p.chain).op = "offer" /\ IsOfferTaken(p, q, Head(p.chain).d)
              /\ UNCHANGED wire
           \/ /\ Head(p.chain).op = "answer" /\ p.sig = "have-local"
              /\ IsAnswerTaken(p, q, Head(p.chain).d) /\ UNCHANGED wire
           \/ /\ IsRefused(p, q) /\ UNCHANGED wire
              /\ \/ Head(p.chain).op = "answer" /\ p.sig # "have-local"
                 \/ /\ Head(p.chain).op # "local"
                    /\ p.far # 0 /\ p.far # Head(p.chain).d.gen
  BY Applied
<1>3. /\ a \in Msgs /\ a.t = "answer" /\ a.who = {} /\ a.d = Answer(p)
      /\ f \in Msgs /\ f.t = "offer" /\ f.who = {} /\ f.d = Offer(p)
  <2>1. Offer(p) \in Descs /\ Answer(p) \in Descs
    BY <1>1, Described
  <2> HIDE DEF p
  <2> QED BY <2>1, Messages
\* What is sent comes to who is there.
<1>4. ASSUME NEW m \in Msgs, wire' = Sent(s, <<m>>)
      PROVE  /\ wire'[s] = wire[s]
             /\ wire'[o] = IF Both THEN Append(wire[o], m) ELSE wire[o]
  <2>1. wire \in [Sides -> Seq(Msgs)] /\ (Up(s) <=> Both)
    BY Present DEF TypeInv, Going
  <2>2. wire' = IF Up(s) THEN [wire EXCEPT ![o] = Append(@, m)] ELSE wire
    BY <1>4, <2>1, Sending
  <2> QED BY <2>1, <2>2, TheSides
<1> HIDE DEF a, f
<1>5. CASE Head(p.chain).op = "local" /\ p.sig = "have-remote" /\ IsAnswered(p, q) /\ wire' = Sent(s, <<a>>)
  BY <1>1, <1>2, <1>3, <1>4, <1>5, AnsweredGoing
<1>6. CASE Head(p.chain).op = "local" /\ p.sig # "have-remote" /\ IsOffered(p, q) /\ wire' = Sent(s, <<f>>)
  BY <1>1, <1>2, <1>3, <1>4, <1>6, OfferedGoing
<1>7. CASE Head(p.chain).op = "offer" /\ IsOfferTaken(p, q, Head(p.chain).d) /\ UNCHANGED wire
  BY <1>1, <1>2, <1>7, OfferTakenGoing
<1>8. CASE Head(p.chain).op = "answer" /\ IsAnswerTaken(p, q, Head(p.chain).d) /\ UNCHANGED wire
  BY <1>1, <1>2, <1>8, AnswerTakenGoing
<1>9. CASE /\ IsRefused(p, q) /\ UNCHANGED wire /\ Head(p.chain).op # "local"
           /\ \/ Head(p.chain).op = "answer" /\ p.sig # "have-local"
              \/ p.far # 0 /\ p.far # Head(p.chain).d.gen
  BY <1>1, <1>2, <1>9, RefusedGoing
<1> QED BY <1>2, <1>5, <1>6, <1>7, <1>8, <1>9

\* Between the same connections no socket closes, and it was so before.
LEMMA Calm ==
  ASSUME TypeInv, NEW s \in Sides, User(s) \/ Drop(s) \/ Learn(s) \/ Work(s), SameConnections'
  PROVE  ~Drop(s) /\ SameConnections
<1>1. drops \in Nat
  BY ConstantsAssumption DEF TypeInv
<1>2. drops' = drops \/ drops' = drops + 1
  BY DEF User, Join, Leave, StartShare, StopShare, Click, Act, Drop, Learn, Work, Receive,
              NegotiationNeeded, Apply, Reopen, bounds
<1>3. drops = 0 /\ drops' = drops
  BY <1>1, <1>2 DEF SameConnections
<1>4. ~Drop(s)
  BY <1>1, <1>3 DEF Drop
<1>6. ~rushed' /\ ~unheeded'
  BY DEF SameConnections
<1>5. ~rushed
  <2>1. CASE User(s)
    BY <1>6, <2>1 DEF User, Join, Leave, StartShare, StopShare, Click, history
  <2>2. CASE Receive(s)
    BY <1>6, <2>2 DEF Receive, Dropped, Heeded, OnRoster, OnState, OnWatch, OnSdp, OnStranger, Unheard, history
  <2>3. CASE NegotiationNeeded(s) \/ Apply(s) \/ Reopen(s) \/ Learn(s)
    BY <1>6, <2>3 DEF Learn, NegotiationNeeded, Apply, Reopen, history
  <2> QED BY <1>3, <1>4, <2>1, <2>2, <2>3 DEF Work
<1>7. ~unheeded
  <2>1. CASE User(s)
    BY <1>6, <2>1 DEF User, Join, Leave, StartShare, StopShare, Click, history
  <2>2. CASE Receive(s)
    BY <1>6, <2>2 DEF Receive, Dropped, Heeded, OnRoster, OnState, OnWatch, OnSdp, OnStranger, Unheard, history
  <2>3. CASE NegotiationNeeded(s) \/ Apply(s) \/ Reopen(s) \/ Learn(s)
    BY <1>6, <2>3 DEF Learn, NegotiationNeeded, Apply, Reopen, history
  <2> QED BY <1>3, <1>4, <2>1, <2>2, <2>3 DEF Work
<1> QED BY <1>3, <1>4, <1>5, <1>7 DEF SameConnections

LEMMA CallStep == TypeInv /\ RosterInv /\ CallInv /\ [Next]_vars => CallInv'
<1> SUFFICES ASSUME TypeInv, RosterInv, CallInv, [Next]_vars, SameConnections' PROVE Going'
  BY DEF CallInv, Going
<1>4. ASSUME UNCHANGED <<joined, online, pc, wire, lostOffer>>, Going PROVE Going'
  BY <1>4 DEF Going, Hearing, Heard, HasPeer, Matching, AnswersWaited, Waits, Free,
              ToLo, ToHi, Taken, Dialogue, Both, OffersOfHi, OffersOfLo, Takes, HasRemote,
              Answered, Voiced, Fitting, HiWaits, HiAnswered, LoWaits, LoLate, LoSpared, LoHeard
<1>2. CASE UNCHANGED vars
  <2>1. Going
    BY <1>2 DEF vars, bounds, history, SameConnections, CallInv, Going
  <2>2. UNCHANGED <<joined, online, pc, wire, lostOffer>>
    BY <1>2 DEF vars, call, history
  <2> QED BY <1>4, <2>1, <2>2
<1>3. ASSUME NEW s \in Sides, User(s) \/ Drop(s) \/ Learn(s) \/ Work(s) PROVE Going'
  <2>1. ~Drop(s) /\ SameConnections
    BY <1>3, Calm
  <2>5. Going
    BY <2>1 DEF CallInv, Going
  <2>6. CASE Join(s)
    BY <2>5, <2>6, JoinGoing DEF SameConnections
  <2>7. CASE Leave(s)
    BY <2>5, <2>7, LeaveGoing
  <2>8. CASE StartShare(s) \/ StopShare(s) \/ Click(s)
    BY <2>5, <2>8, QuietGoing
  <2>9. CASE Receive(s)
    BY <2>5, <2>9, ReceiveGoing DEF SameConnections
  <2>10. CASE NegotiationNeeded(s)
    BY <2>5, <2>10, Begun, BegunGoing DEF call, NegotiationNeeded, history
  <2>11. CASE Apply(s)
    BY <2>5, <2>11, ApplyGoing
  <2>12. CASE Reopen(s)
    BY <2>5, <2>12 DEF Reopen, Going, Hearing
  <2>13. CASE Learn(s)
    BY <1>4, <2>5, <2>13 DEF Learn, call, history
  <2> QED BY <1>3, <2>1, <2>6, <2>7, <2>8, <2>9, <2>10, <2>11, <2>12, <2>13 DEF User, Work
<1> QED BY <1>2, <1>3 DEF Next

LEMMA CallInit == Init => CallInv
<1> SUFFICES ASSUME Init PROVE Hearing /\ Matching /\ Dialogue
  BY DEF CallInv
<1>1. \A s \in Sides : wire[s] = <<>> /\ ~joined[s] /\ online[s] /\ ~HasPeer(s)
  BY DEF Init, HasPeer
<1>2. \A i \in DOMAIN <<>> : FALSE
  OBVIOUS
<1>3. Hearing
  BY <1>1, <1>2 DEF Hearing, Named, Heard
<1>4. Matching
  BY <1>1, <1>2 DEF Matching, AnswersWaited, ToLo, ToHi, OneOffer, Apart, Taken, Sides
<1>5. ~Both
  BY <1>1 DEF Both, Sides
<1> QED BY <1>3, <1>4, <1>5 DEF Dialogue

LEMMA CallHolds == Spec => [](TypeInv /\ RosterInv /\ CallInv)
<1>1. Init => TypeInv /\ RosterInv /\ CallInv
  BY TypesInit, RosterInit, CallInit
<1>2. TypeInv /\ RosterInv /\ CallInv /\ [Next]_vars => (TypeInv /\ RosterInv /\ CallInv)'
  BY TypesStep, RosterStep, CallStep
<1> QED BY <1>1, <1>2, PTL DEF Spec

-----------------------------------------------------------------------------
(* What a wire tells of shares and of who watches them.                      *)

\* The last message of type t says on; or off; or there is none.
Last(q, i, t) == q[i].t = t /\ \A j \in DOMAIN q : j > i => q[j].t # t
TellsOn(q, t) == \E i \in DOMAIN q : Last(q, i, t) /\ q[i].on
TellsOff(q, t) == \E i \in DOMAIN q : Last(q, i, t) /\ ~q[i].on
Silent(q, t) == \A i \in DOMAIN q : q[i].t # t
\* A state that ends a share is on its way.
HasOff(q) == \E i \in DOMAIN q : q[i].t = "state" /\ ~q[i].on

\* As far as shares go, wire r carries what q did.
SameTalk(q, r) ==
  /\ \A t \in Talk : /\ TellsOn(r, t) <=> TellsOn(q, t)
                     /\ TellsOff(r, t) <=> TellsOff(q, t)
                     /\ Silent(r, t) <=> Silent(q, t)
  /\ HasOff(q) => HasOff(r)

\* What the reader of a wire knows when it has taken a message, and what is left.
LEMMA TalkTail ==
  ASSUME NEW q \in Seq(Msgs), q # <<>>
  PROVE  LET r == Tail(q)
             m == Head(q)
         IN /\ \A t \in Talk : m.t # t => /\ TellsOn(r, t) <=> TellsOn(q, t)
                                          /\ TellsOff(r, t) <=> TellsOff(q, t)
                                          /\ Silent(r, t) <=> Silent(q, t)
            /\ \A t \in Talk : m.t = t => /\ ~Silent(q, t)
                                          /\ TellsOn(q, t) => TellsOn(r, t) \/ (Silent(r, t) /\ m.on)
                                          /\ TellsOff(q, t) => TellsOff(r, t) \/ (Silent(r, t) /\ ~m.on)
            /\ HasOff(q) => HasOff(r) \/ (m.t = "state" /\ ~m.on)
<1> DEFINE r == Tail(q)
           m == Head(q)
<1>1. /\ \A i \in DOMAIN q : i \in Nat /\ i >= 1
      /\ \A i \in DOMAIN r : i \in Nat /\ i >= 1 /\ i + 1 \in DOMAIN q /\ r[i] = q[i + 1]
      /\ \A i \in DOMAIN q : i # 1 => i - 1 \in DOMAIN r /\ r[i - 1] = q[i]
      /\ m = q[1] /\ 1 \in DOMAIN q
  BY Parts
<1> HIDE DEF r, m
\* Behind the first, what is the last of its type is so still.
<1>2. ASSUME NEW t \in Talk, NEW i \in DOMAIN r PROVE Last(r, i, t) <=> Last(q, i + 1, t)
  <2>1. i \in Nat /\ i + 1 \in DOMAIN q /\ r[i] = q[i + 1]
    BY <1>1
  <2>2. ASSUME Last(r, i, t) PROVE Last(q, i + 1, t)
    <3>1. ASSUME NEW j \in DOMAIN q, j > i + 1 PROVE q[j].t # t
      <4>1. j \in Nat /\ j # 1 /\ j - 1 > i
        BY <1>1, <2>1, <3>1
      <4> QED BY <1>1, <2>2, <4>1 DEF Last
    <3> QED BY <2>1, <2>2, <3>1 DEF Last
  <2>3. ASSUME Last(q, i + 1, t) PROVE Last(r, i, t)
    <3>1. ASSUME NEW j \in DOMAIN r, j > i PROVE r[j].t # t
      <4>1. j \in Nat /\ j + 1 > i + 1 /\ j + 1 \in DOMAIN q /\ r[j] = q[j + 1]
        BY <1>1, <2>1, <3>1
      <4> QED BY <2>3, <4>1 DEF Last
    <3> QED BY <2>1, <2>3, <3>1 DEF Last
  <2> QED BY <2>2, <2>3
<1>3. ASSUME NEW t \in Talk
      PROVE  /\ TellsOn(r, t) => TellsOn(q, t)
             /\ TellsOff(r, t) => TellsOff(q, t)
             /\ Silent(q, t) => Silent(r, t)
             /\ TellsOn(q, t) => TellsOn(r, t) \/ (Last(q, 1, t) /\ m.on)
             /\ TellsOff(q, t) => TellsOff(r, t) \/ (Last(q, 1, t) /\ ~m.on)
             /\ Silent(r, t) => Silent(q, t) \/ m.t = t
  <2>1. (TellsOn(r, t) => TellsOn(q, t)) /\ (TellsOff(r, t) => TellsOff(q, t))
    BY <1>1, <1>2 DEF TellsOn, TellsOff
  <2>2. ASSUME NEW i \in DOMAIN q, i # 1 PROVE i - 1 \in DOMAIN r /\ r[i - 1] = q[i] /\ (i - 1) + 1 = i
    BY <1>1, <2>2
  <2>3. \A i \in DOMAIN q : i # 1 /\ Last(q, i, t) => i - 1 \in DOMAIN r /\ Last(r, i - 1, t) /\ r[i - 1] = q[i]
    BY <1>2, <2>2
  <2>4. TellsOn(q, t) => TellsOn(r, t) \/ (Last(q, 1, t) /\ m.on)
    BY <1>1, <2>3 DEF TellsOn
  <2>5. TellsOff(q, t) => TellsOff(r, t) \/ (Last(q, 1, t) /\ ~m.on)
    BY <1>1, <2>3 DEF TellsOff
  <2>6. (Silent(q, t) => Silent(r, t)) /\ (Silent(r, t) => Silent(q, t) \/ m.t = t)
    BY <1>1 DEF Silent
  <2> QED BY <2>1, <2>4, <2>5, <2>6
<1>4. ASSUME NEW t \in Talk, Last(q, 1, t) PROVE m.t = t /\ Silent(r, t)
  <2>1. \A j \in DOMAIN r : j + 1 > 1 /\ j + 1 \in DOMAIN q /\ r[j] = q[j + 1]
    BY <1>1
  <2> QED BY <1>1, <1>4, <2>1 DEF Last, Silent
<1>5. \A t \in Talk : m.t = t => ~Silent(q, t)
  BY <1>1 DEF Silent
<1>6. HasOff(q) => HasOff(r) \/ (m.t = "state" /\ ~m.on)
  BY <1>1 DEF HasOff
<1> QED BY <1>3, <1>4, <1>5, <1>6 DEF r, m

LEMMA TalkPut ==
  ASSUME NEW q \in Seq(Msgs), NEW m \in Msgs
  PROVE  LET r == Append(q, m)
         IN /\ \A t \in Talk : m.t # t => /\ TellsOn(r, t) <=> TellsOn(q, t)
                                          /\ TellsOff(r, t) <=> TellsOff(q, t)
                                          /\ Silent(r, t) <=> Silent(q, t)
            /\ \A t \in Talk : m.t = t => (m.on => TellsOn(r, t)) /\ (~m.on => TellsOff(r, t))
            /\ HasOff(q) => HasOff(r)
            /\ m.t = "state" /\ ~m.on => HasOff(r)
<1> DEFINE r == Append(q, m)
           n == Len(q) + 1
<1>1. /\ \A i \in DOMAIN q : i \in DOMAIN r /\ r[i] = q[i] /\ i < n /\ i \in Nat
      /\ \A i \in DOMAIN r : i \in DOMAIN q \/ i = n
      /\ r[n] = m /\ n \in DOMAIN r /\ n \in Nat
  BY Added
<1> HIDE DEF r, n
<1>2. ASSUME NEW t \in Talk, m.t # t
      PROVE  /\ TellsOn(r, t) <=> TellsOn(q, t)
             /\ TellsOff(r, t) <=> TellsOff(q, t)
             /\ Silent(r, t) <=> Silent(q, t)
  <2>1. \A i \in DOMAIN q : Last(r, i, t) <=> Last(q, i, t)
    BY <1>1, <1>2 DEF Last
  <2>2. ~Last(r, n, t)
    BY <1>1, <1>2 DEF Last
  <2>3. Silent(r, t) <=> Silent(q, t)
    BY <1>1, <1>2 DEF Silent
  <2> QED BY <1>1, <2>1, <2>2, <2>3 DEF TellsOn, TellsOff
<1>3. ASSUME NEW t \in Talk, m.t = t PROVE (m.on => TellsOn(r, t)) /\ (~m.on => TellsOff(r, t))
  <2>1. \A j \in DOMAIN r : ~(j > n)
    BY <1>1
  <2>2. Last(r, n, t)
    BY <1>1, <1>3, <2>1 DEF Last
  <2> QED BY <1>1, <2>2 DEF TellsOn, TellsOff
<1>4. (HasOff(q) => HasOff(r)) /\ (m.t = "state" /\ ~m.on => HasOff(r))
  BY <1>1 DEF HasOff
<1> QED BY <1>2, <1>3, <1>4 DEF r

LEMMA TalkSame ==
  ASSUME NEW q \in Seq(Msgs)
  PROVE  /\ SameTalk(q, q)
         /\ q # <<>> /\ Head(q).t \notin Talk => SameTalk(q, Tail(q))
         /\ \A m \in Msgs : m.t \notin Talk => SameTalk(q, Append(q, m))
<1>1. SameTalk(q, q)
  BY DEF SameTalk
<1>2. ASSUME q # <<>>, Head(q).t \notin Talk PROVE SameTalk(q, Tail(q))
  <2>1. \A t \in Talk : Head(q).t # t /\ Head(q).t # "state"
    BY <1>2 DEF Talk
  <2> QED BY <1>2, <2>1, TalkTail DEF SameTalk, Talk
<1>3. ASSUME NEW m \in Msgs, m.t \notin Talk PROVE SameTalk(q, Append(q, m))
  <2>1. \A t \in Talk : m.t # t
    BY <1>3
  <2> QED BY <2>1, TalkPut DEF SameTalk
<1> QED BY <1>1, <1>2, <1>3

-----------------------------------------------------------------------------
(* Who sends, who watches, and what is sent.                                 *)

\* We watch only what is shared; and the screen is among the tracks of who
\* shares it and is watched.
Tracked(s) ==
  /\ watching[s] => seesLive[s]
  /\ HasPeer(s) => ("screen" \in pc[s].tracks <=> watchers[s] /\ screen[s])

Sends(s) == HasPeer(s) /\ screen[s]

\* When s has read its wire it knows whether the other shares.
Sees(s) ==
  LET q == wire[s]
  IN IF Sends(Other(s)) THEN TellsOn(q, "state") \/ (Silent(q, "state") /\ seesLive[s])
     ELSE TellsOff(q, "state") \/ (Silent(q, "state") /\ ~seesLive[s])

\* When the other has read its wire it knows whether s watches, unless s is still
\* to read that the share has ended.
Asked(s) ==
  LET q == wire[Other(s)]
  IN IF watching[s]
       THEN TellsOn(q, "watch") \/ (Silent(q, "watch") /\ watchers[Other(s)]) \/ HasOff(wire[s])
       ELSE TellsOff(q, "watch") \/ (Silent(q, "watch") /\ ~watchers[Other(s)])

Sharing == \A s \in Sides : Sees(s) /\ Asked(s)
ShareInv == (\A s \in Sides : Tracked(s)) /\ (SameConnections /\ Both => Sharing)

\* A step of s touches nothing of the other's.
LEMMA TrackedFrame ==
  ASSUME NEW s \in Sides, \A u \in Sides : Tracked(u), Tracked(s)',
         LET o == Other(s)
         IN pc'[o] = pc[o] /\ screen'[o] = screen[o] /\ watchers'[o] = watchers[o]
              /\ watching'[o] = watching[o] /\ seesLive'[o] = seesLive[o]
  PROVE  \A u \in Sides : Tracked(u)'
<1>1. Tracked(Other(s))' /\ Other(s) \in Sides
  BY TheSides DEF Tracked, HasPeer
<1> QED BY <1>1, TheSides

\* Without the screen among the tracks.
LEMMA Untracks ==
  ASSUME TypeInv, NEW s \in Sides, pc' = Untracked(s)
  PROVE  /\ HasPeer(s)' <=> HasPeer(s)
         /\ "screen" \notin pc'[s].tracks \/ ~HasPeer(s)
         /\ pc'[Other(s)] = pc[Other(s)]
<1>1. /\ Untracked(s)[s] # NoPeer <=> HasPeer(s)
      /\ HasPeer(s) => Untracked(s)[s] = [pc[s] EXCEPT !.tracks = @ \ {"screen"}]
  BY Untracking
<1>2. HasPeer(s) => pc[s] \in Conns
  BY DEF HasPeer, TypeInv
<1>3. PICK q : q = [pc[s] EXCEPT !.tracks = @ \ {"screen"}]
  OBVIOUS
<1>4. HasPeer(s) => "screen" \notin q.tracks
  BY <1>2, <1>3 DEF Conns
<1>5. pc'[Other(s)] = pc[Other(s)]
  BY TheSides DEF Untracked, TypeInv
<1> QED BY <1>1, <1>3, <1>4, <1>5 DEF HasPeer

LEMMA UserTracked ==
  ASSUME TypeInv, NEW s \in Sides, User(s) \/ Drop(s) \/ Reopen(s), \A u \in Sides : Tracked(u)
  PROVE  \A u \in Sides : Tracked(u)'
<1> USE TheSides
<1>0. /\ pc \in [Sides -> Conns \union {NoPeer}] /\ screen \in [Sides -> BOOLEAN]
      /\ watchers \in [Sides -> BOOLEAN] /\ watching \in [Sides -> BOOLEAN]
      /\ seesLive \in [Sides -> BOOLEAN] /\ Tracked(s) /\ Owned(s)
  BY DEF TypeInv
<1>1. CASE Join(s) \/ Drop(s) \/ Reopen(s)
  BY <1>1 DEF Join, Drop, Reopen, call, Tracked, HasPeer
<1>2. CASE Leave(s)
  <2>1. Tracked(s)'
    BY <1>0, <1>2 DEF Leave, Forget, Tracked, HasPeer
  <2> QED BY <1>0, <1>2, <2>1, TrackedFrame DEF Leave, Forget
<1>3. CASE StartShare(s)
  <2>1. Tracked(s)'
    BY <1>0, <1>3 DEF StartShare, Forget, Tracked, HasPeer
  <2> QED BY <1>0, <1>3, <2>1, TrackedFrame DEF StartShare, Forget
<1>4. CASE StopShare(s)
  <2>1. /\ HasPeer(s)' <=> HasPeer(s)
        /\ "screen" \notin pc'[s].tracks \/ ~HasPeer(s)
        /\ pc'[Other(s)] = pc[Other(s)]
    BY <1>4, Untracks DEF StopShare
  <2>2. Tracked(s)'
    BY <1>0, <1>4, <2>1 DEF StopShare, Forget, Tracked
  <2> QED BY <1>0, <1>4, <2>1, <2>2, TrackedFrame DEF StopShare, Forget
<1>5. CASE Click(s)
  <2>1. Tracked(s)'
    BY <1>0, <1>5 DEF Click, SetWatching, Tracked, HasPeer
  <2> QED BY <1>0, <1>5, <2>1, TrackedFrame DEF Click, SetWatching
<1> QED BY <1>1, <1>2, <1>3, <1>4, <1>5 DEF User

LEMMA ReceiveTracked ==
  ASSUME TypeInv, NEW s \in Sides, Receive(s), \A u \in Sides : Tracked(u)
  PROVE  \A u \in Sides : Tracked(u)'
<1> USE TheSides
<1> DEFINE m == Head(wire[s])
<1>0. /\ pc \in [Sides -> Conns \union {NoPeer}] /\ screen \in [Sides -> BOOLEAN]
      /\ watchers \in [Sides -> BOOLEAN] /\ watching \in [Sides -> BOOLEAN]
      /\ seesLive \in [Sides -> BOOLEAN] /\ Tracked(s) /\ Owned(s)
      /\ wire \in [Sides -> Seq(Msgs)] /\ wire[s] # <<>> /\ m \in Msgs /\ m.on \in BOOLEAN
  BY Resting DEF TypeInv, Receive, Msgs
<1>m. Unheard(s) \/ OnRoster(s, m) \/ OnState(s, m) \/ OnWatch(s, m) \/ OnSdp(s, m) \/ OnStranger(s, m)
     \/ Dropped(s, m)
  BY DEF Receive, Heeded
<1> HIDE DEF m
\* A connection that is made has nothing but the microphone.
<1>c. ASSUME NEW w \in [Sides -> Seq(Msgs)], Create(s, w), ~HasPeer(s),
             UNCHANGED <<screen, watchers, watching, seesLive>>
      PROVE  \A u \in Sides : Tracked(u)'
  <2>1. pc' = [pc EXCEPT ![s] = NewPeer(s)] /\ pc'[s] = NewPeer(s)
    BY <1>c, Creating
  <2>2. "screen" \notin pc'[s].tracks
    BY <2>1 DEF NewPeer
  <2>3. Tracked(s)'
    BY <1>0, <1>c, <2>2 DEF Tracked, Owned
  <2> QED BY <1>0, <1>c, <2>1, <2>3, TrackedFrame
<1>1. CASE Unheard(s)
  BY <1>1 DEF Unheard, call, Tracked, HasPeer
<1>2. CASE OnRoster(s, m)
  <2>1. CASE Other(s) \notin m.who
    <3>1. DropPeer(s) /\ UNCHANGED screen
      BY <1>2, <2>1 DEF OnRoster
    <3>2. Tracked(s)'
      BY <1>0, <3>1 DEF DropPeer, Forget, Tracked, HasPeer
    <3> QED BY <1>0, <3>1, <3>2, TrackedFrame DEF DropPeer, Forget
  <2>2. CASE Other(s) \in m.who /\ HasPeer(s)
    BY <1>2, <2>2 DEF OnRoster, Tracked, HasPeer
  <2>3. CASE Other(s) \in m.who /\ ~HasPeer(s)
    <3>1. Create(s, Rest(s)) /\ UNCHANGED <<screen, watchers, watching, seesLive>>
      BY <1>2, <2>3 DEF OnRoster
    <3>2. Rest(s) \in [Sides -> Seq(Msgs)]
      BY <1>0, Resting
    <3> QED BY <1>c, <2>3, <3>1, <3>2
  <2> QED BY <2>1, <2>2, <2>3
<1>3. CASE OnState(s, m)
  <2>1. PICK on \in BOOLEAN : on = (IF m.on THEN watching[s] \/ (~seesLive[s] /\ AutoWatch[s]) ELSE FALSE)
    BY ConstantsAssumption DEF TypeInv
  <2>2. /\ seesLive' = [seesLive EXCEPT ![s] = m.on] /\ watching' = [watching EXCEPT ![s] = on]
        /\ UNCHANGED <<screen, watchers, pc>>
    BY <1>3, <2>1 DEF OnState
  <2>3. on => m.on
    BY <1>0, <2>1
  <2>4. Tracked(s)'
    BY <1>0, <2>2, <2>3 DEF Tracked, HasPeer
  <2> QED BY <1>0, <2>2, <2>4, TrackedFrame
<1>4. CASE OnWatch(s, m)
  <2>1. /\ watchers' = [watchers EXCEPT ![s] = m.on] /\ UNCHANGED <<screen, watching, seesLive>>
        /\ HasPeer(s) /\ pc[s] \in Conns
    BY <1>0, <1>4 DEF OnWatch, HasPeer
  <2>2. Tracked(s)' /\ pc'[Other(s)] = pc[Other(s)]
    <3>1. CASE m.on = watchers[s]
      <4>1. pc' = pc
        BY <1>4, <3>1 DEF OnWatch
      <4> QED BY <1>0, <2>1, <3>1, <4>1 DEF Tracked, HasPeer
    <3>2. CASE m.on # watchers[s] /\ ~m.on
      <4>1. pc' = Untracked(s)
        BY <1>4, <3>2 DEF OnWatch
      <4>2. "screen" \notin pc'[s].tracks /\ pc'[Other(s)] = pc[Other(s)]
        BY <2>1, <4>1, Untracks
      <4> QED BY <1>0, <2>1, <3>2, <4>2 DEF Tracked
    <3>3. CASE m.on # watchers[s] /\ m.on /\ ~screen[s]
      <4>1. pc' = pc
        BY <1>4, <3>3 DEF OnWatch
      <4> QED BY <1>0, <2>1, <3>3, <4>1 DEF Tracked, HasPeer
    <3>4. CASE m.on # watchers[s] /\ m.on /\ screen[s]
      <4>1. pc' = [pc EXCEPT ![s].tracks = @ \union {"screen"}]
        BY <1>4, <3>4 DEF OnWatch
      <4>2. PICK q : q = [pc[s] EXCEPT !.tracks = @ \union {"screen"}]
        OBVIOUS
      <4>3. "screen" \in q.tracks
        BY <2>1, <4>2 DEF Conns
      <4>4. pc'[s] = q /\ pc'[Other(s)] = pc[Other(s)]
        BY <1>0, <4>1, <4>2
      <4> QED BY <1>0, <2>1, <3>4, <4>3, <4>4 DEF Tracked
    <3> QED BY <1>0, <3>1, <3>2, <3>3, <3>4
  <2> QED BY <1>0, <2>1, <2>2, TrackedFrame
<1>5. CASE OnSdp(s, m)
  <2>1. UNCHANGED <<screen, watchers, watching, seesLive>>
    BY <1>5 DEF OnSdp, call
  <2>2. CASE pc' = pc
    BY <2>1, <2>2 DEF Tracked, HasPeer
  <2>3. CASE pc' # pc
    <3>1. PICK h : h = [op |-> m.t, d |-> m.d]
      OBVIOUS
    <3>2. pc' = [pc EXCEPT ![s].chain = Append(@, h)] /\ HasPeer(s) /\ pc[s] \in Conns
      BY <1>0, <1>5, <2>3, <3>1 DEF OnSdp, HasPeer
    <3>3. PICK q : q = [pc[s] EXCEPT !.chain = Append(@, h)]
      OBVIOUS
    <3>4. q.tracks = pc[s].tracks /\ pc'[s] = q /\ pc'[Other(s)] = pc[Other(s)]
      BY <1>0, <3>2, <3>3 DEF Conns
    <3>5. Tracked(s)'
      BY <1>0, <2>1, <3>2, <3>4 DEF Tracked
    <3> QED BY <2>1, <3>4, <3>5, TrackedFrame
  <2> QED BY <2>2, <2>3
<1>6. CASE OnStranger(s, m)
  BY <1>0, <1>6, <1>c DEF OnStranger, call
<1>7. CASE Dropped(s, m)
  BY <1>7 DEF Dropped, call, Tracked, HasPeer
<1> QED BY <1>m, <1>1, <1>2, <1>3, <1>4, <1>5, <1>6, <1>7

LEMMA BrowserTracked ==
  ASSUME TypeInv, NEW s \in Sides, NegotiationNeeded(s) \/ Apply(s), \A u \in Sides : Tracked(u)
  PROVE  \A u \in Sides : Tracked(u)'
<1>1. /\ UNCHANGED <<screen, watchers, watching, seesLive>> /\ pc[s] \in Conns
      /\ \E q \in Conns : pc' = [pc EXCEPT ![s] = q] /\ q.tracks = pc[s].tracks
  <2>1. CASE NegotiationNeeded(s)
    BY <2>1, Begun DEF IsBegun, call
  <2>2. CASE Apply(s)
    BY <2>2, Applied DEF IsAnswered, IsOffered, IsOfferTaken, IsAnswerTaken, IsRefused, call
  <2> QED BY <2>1, <2>2
<1>2. PICK q \in Conns : pc' = [pc EXCEPT ![s] = q] /\ q.tracks = pc[s].tracks
  BY <1>1
<1>3. pc'[s] = q /\ pc'[Other(s)] = pc[Other(s)] /\ HasPeer(s)
  BY <1>1, <1>2, TheSides, ConnsArePeers DEF TypeInv, HasPeer
<1>4. Tracked(s)'
  BY <1>1, <1>2, <1>3 DEF Tracked
<1> QED BY <1>1, <1>3, <1>4, TrackedFrame

LEMMA TrackedStep ==
  TypeInv /\ (\A u \in Sides : Tracked(u)) /\ [Next]_vars => \A u \in Sides : Tracked(u)'
<1> SUFFICES ASSUME TypeInv, \A u \in Sides : Tracked(u), [Next]_vars PROVE \A u \in Sides : Tracked(u)'
  OBVIOUS
<1>1. CASE UNCHANGED vars
  BY <1>1 DEF vars, call, Tracked, HasPeer
<1>3. ASSUME NEW s \in Sides, Learn(s) PROVE \A u \in Sides : Tracked(u)'
  BY <1>3 DEF Learn, call, Tracked, HasPeer
<1>2. ASSUME NEW s \in Sides, User(s) \/ Drop(s) \/ Work(s) PROVE \A u \in Sides : Tracked(u)'
  BY <1>2, UserTracked, ReceiveTracked, BrowserTracked DEF Work
<1> QED BY <1>1, <1>2, <1>3 DEF Next

-----------------------------------------------------------------------------
(* Both learn what the other shares and watches.                             *)

\* A step that leaves shares, requests and connections alone.
LEMMA SharingSame ==
  ASSUME Sharing, UNCHANGED <<screen, watchers, watching, seesLive>>,
         \A u \in Sides : (HasPeer(u)' <=> HasPeer(u)) /\ SameTalk(wire[u], wire'[u])
  PROVE  Sharing'
<1>1. ASSUME NEW u \in Sides PROVE Sees(u)' /\ Asked(u)'
  <2>1. /\ Sees(u) /\ Asked(u) /\ Other(u) \in Sides /\ (HasPeer(Other(u))' <=> HasPeer(Other(u)))
        /\ SameTalk(wire[u], wire'[u]) /\ SameTalk(wire[Other(u)], wire'[Other(u)])
    BY TheSides DEF Sharing
  <2>2. Sees(u)'
    BY <2>1 DEF Sees, Sends, SameTalk, Talk
  <2>3. Asked(u)'
    BY <2>1 DEF Asked, SameTalk, Talk
  <2> QED BY <2>2, <2>3
<1> QED BY <1>1 DEF Sharing

\* What s tells the other.
LEMMA Delivered ==
  ASSUME TypeInv, RosterInv, Hearing, Both, NEW s \in Sides, NEW m \in Msgs, wire' = Sent(s, <<m>>)
  PROVE  wire'[s] = wire[s] /\ wire'[Other(s)] = Append(wire[Other(s)], m)
<1>1. wire \in [Sides -> Seq(Msgs)] /\ Up(s)
  BY Present DEF TypeInv
<1>2. wire' = [wire EXCEPT ![Other(s)] = Append(@, m)]
  BY <1>1, Sending
<1> QED BY <1>1, <1>2, TheSides

\* The viewers of an earlier share have to ask again: who still watches is about
\* to read that it has ended.
LEMMA StartSharing ==
  ASSUME TypeInv, RosterInv, Hearing, Both, Sharing, \A u \in Sides : Tracked(u),
         NEW s \in Sides, StartShare(s)
  PROVE  Sharing'
<1> USE TheSides
<1> DEFINE o == Other(s)
<1>1. PICK m \in Msgs : m = [Msg("state") EXCEPT !.on = TRUE]
  BY Messages
<1>2. m.t = "state" /\ m.on
  BY <1>1 DEF Msg
<1>3. /\ ~screen[s] /\ screen'[s] /\ screen'[o] = screen[o] /\ ~watchers'[s] /\ watchers'[o] = watchers[o]
      /\ UNCHANGED <<watching, seesLive, pc>>
      /\ wire' = IF HasPeer(s) THEN Sent(s, <<m>>) ELSE wire
  BY <1>1 DEF StartShare, Forget, TypeInv
<1>4. /\ wire'[s] = wire[s] /\ wire[o] \in Seq(Msgs)
      /\ wire'[o] = IF HasPeer(s) THEN Append(wire[o], m) ELSE wire[o]
  BY <1>3, Delivered DEF TypeInv
<1>5. \A u \in Sides : HasPeer(u)' <=> HasPeer(u)
  BY <1>3 DEF HasPeer
<1>6. Sees(s) /\ Asked(s) /\ Sees(o) /\ Asked(o) /\ Tracked(o) /\ Owned(o)
  BY DEF Sharing, TypeInv
<1>7. /\ HasPeer(s) => TellsOn(wire'[o], "state")
      /\ TellsOn(wire'[o], "watch") <=> TellsOn(wire[o], "watch")
      /\ TellsOff(wire'[o], "watch") <=> TellsOff(wire[o], "watch")
      /\ Silent(wire'[o], "watch") <=> Silent(wire[o], "watch")
      /\ HasOff(wire[o]) => HasOff(wire'[o])
  BY <1>2, <1>4, TalkPut DEF Talk
<1>8. Sees(s)'
  BY <1>3, <1>4, <1>5, <1>6 DEF Sees, Sends
<1>9. Sees(o)'
  BY <1>3, <1>4, <1>5, <1>6, <1>7 DEF Sees, Sends
<1>10. Asked(s)'
  BY <1>3, <1>4, <1>6, <1>7 DEF Asked
<1>11. Asked(o)'
  <2>1. watching[o] => HasOff(wire[o])
    <3>1. watching[o] => seesLive[o]
      BY <1>6 DEF Tracked
    <3>2. TellsOff(wire[o], "state") \/ ~seesLive[o]
      BY <1>3, <1>6 DEF Sees, Sends
    <3> QED BY <3>1, <3>2 DEF TellsOff, Last, HasOff
  <2> QED BY <1>3, <1>4, <1>6, <1>7, <2>1 DEF Asked
<1> QED BY <1>8, <1>9, <1>10, <1>11 DEF Sharing

\* A share that ends is no longer watched: the state that says so comes.
LEMMA StopSharing ==
  ASSUME TypeInv, RosterInv, Hearing, Both, Sharing, NEW s \in Sides, StopShare(s)
  PROVE  Sharing'
<1> USE TheSides
<1> DEFINE o == Other(s)
<1>1. PICK m \in Msgs : m = Msg("state")
  BY Messages
<1>2. m.t = "state" /\ ~m.on
  BY <1>1 DEF Msg
<1>3. /\ ~screen'[s] /\ screen'[o] = screen[o] /\ ~watchers'[s] /\ watchers'[o] = watchers[o]
      /\ UNCHANGED <<watching, seesLive>> /\ pc' = Untracked(s)
      /\ wire' = IF HasPeer(s) THEN Sent(s, <<m>>) ELSE wire
  BY <1>1 DEF StopShare, Forget, TypeInv
<1>4. /\ wire'[s] = wire[s] /\ wire[o] \in Seq(Msgs)
      /\ wire'[o] = IF HasPeer(s) THEN Append(wire[o], m) ELSE wire[o]
  BY <1>3, Delivered DEF TypeInv
<1>5. \A u \in Sides : HasPeer(u)' <=> HasPeer(u)
  <2>1. (HasPeer(s)' <=> HasPeer(s)) /\ pc'[o] = pc[o]
    BY <1>3, Untracks
  <2> QED BY <2>1 DEF HasPeer
<1>6. Sees(s) /\ Asked(s) /\ Sees(o) /\ Asked(o) /\ Owned(s)
  BY DEF Sharing, TypeInv
<1>7. /\ HasPeer(s) => TellsOff(wire'[o], "state") /\ HasOff(wire'[o])
      /\ TellsOn(wire'[o], "watch") <=> TellsOn(wire[o], "watch")
      /\ TellsOff(wire'[o], "watch") <=> TellsOff(wire[o], "watch")
      /\ Silent(wire'[o], "watch") <=> Silent(wire[o], "watch")
      /\ HasOff(wire[o]) => HasOff(wire'[o])
  BY <1>2, <1>4, TalkPut DEF Talk
<1>8. Sees(s)'
  BY <1>3, <1>4, <1>5, <1>6 DEF Sees, Sends
<1>9. Sees(o)'
  BY <1>3, <1>4, <1>5, <1>6, <1>7 DEF Sees, Sends
<1>10. Asked(s)'
  BY <1>3, <1>4, <1>6, <1>7 DEF Asked
<1>11. Asked(o)'
  <2>1. watchers[s] => HasPeer(s)
    BY <1>6 DEF Owned
  <2> QED BY <1>3, <1>4, <1>6, <1>7, <2>1 DEF Asked
<1> QED BY <1>8, <1>9, <1>10, <1>11 DEF Sharing

\* The request is put on the wire as s changes its mind.
LEMMA AskedAnew ==
  ASSUME NEW s \in Sides, NEW q \in Seq(Msgs), NEW on \in BOOLEAN, wire'[Other(s)] = Append(q, Watch(on)),
         watching' = [watching EXCEPT ![s] = on], watching \in [Sides -> BOOLEAN]
  PROVE  /\ Asked(s)'
         /\ TellsOn(wire'[Other(s)], "state") <=> TellsOn(q, "state")
         /\ TellsOff(wire'[Other(s)], "state") <=> TellsOff(q, "state")
         /\ Silent(wire'[Other(s)], "state") <=> Silent(q, "state")
         /\ HasOff(q) => HasOff(wire'[Other(s)])
<1>1. Watch(on) \in Msgs /\ Watch(on).t = "watch" /\ Watch(on).on = on /\ watching'[s] = on
  <2>1. Watch(on) \in Msgs /\ Watch(on).t = "watch"
    BY Messages
  <2>2. Watch(on).on = on
    BY DEF Watch, Msg
  <2> QED BY <2>1, <2>2
<1>2. /\ on => TellsOn(wire'[Other(s)], "watch")
      /\ ~on => TellsOff(wire'[Other(s)], "watch")
      /\ TellsOn(wire'[Other(s)], "state") <=> TellsOn(q, "state")
      /\ TellsOff(wire'[Other(s)], "state") <=> TellsOff(q, "state")
      /\ Silent(wire'[Other(s)], "state") <=> Silent(q, "state")
      /\ HasOff(q) => HasOff(wire'[Other(s)])
  BY <1>1, TalkPut DEF Talk
<1>3. Asked(s)'
  BY <1>1, <1>2 DEF Asked
<1> QED BY <1>2, <1>3

LEMMA ClickSharing ==
  ASSUME TypeInv, RosterInv, Hearing, Both, Sharing, NEW s \in Sides, Click(s)
  PROVE  Sharing'
<1> USE TheSides
<1> DEFINE o == Other(s)
<1>1. PICK on \in BOOLEAN : on = ~watching[s]
  OBVIOUS
<1>2. /\ watching' = [watching EXCEPT ![s] = on] /\ UNCHANGED <<screen, watchers, seesLive, pc>>
      /\ wire' = Sent(s, Asks(s, on)) /\ HasPeer(s) /\ watching \in [Sides -> BOOLEAN]
  BY <1>1 DEF Click, SetWatching, TypeInv, Owned
<1>3. Asks(s, on) = <<Watch(on)>> /\ Watch(on) \in Msgs
  BY <1>1, <1>2, Messages DEF Asks
<1>4. wire'[s] = wire[s] /\ wire'[o] = Append(wire[o], Watch(on)) /\ wire[o] \in Seq(Msgs)
  BY <1>2, <1>3, Delivered DEF TypeInv
<1>5. \A u \in Sides : HasPeer(u)' <=> HasPeer(u)
  BY <1>2 DEF HasPeer
<1>6. Sees(s) /\ Sees(o) /\ Asked(o) /\ watching'[o] = watching[o]
  BY <1>2 DEF Sharing
<1>7. /\ Asked(s)'
      /\ TellsOn(wire'[o], "state") <=> TellsOn(wire[o], "state")
      /\ TellsOff(wire'[o], "state") <=> TellsOff(wire[o], "state")
      /\ Silent(wire'[o], "state") <=> Silent(wire[o], "state")
      /\ HasOff(wire[o]) => HasOff(wire'[o])
  BY <1>2, <1>4, AskedAnew
<1>8. Sees(s)' /\ Sees(o)'
  BY <1>2, <1>4, <1>5, <1>6, <1>7 DEF Sees, Sends
<1>9. Asked(o)'
  BY <1>2, <1>4, <1>6, <1>7 DEF Asked
<1> QED BY <1>7, <1>8, <1>9 DEF Sharing

\* The state of the other is taken, and a request may answer it.
LEMMA StateSharing ==
  ASSUME TypeInv, RosterInv, Hearing, Both, Sharing, NEW s \in Sides, Receive(s),
         OnState(s, Head(wire[s]))
  PROVE  Sharing'
<1> USE TheSides
<1> DEFINE o == Other(s)
           m == Head(wire[s])
<1>0. /\ wire[s] # <<>> /\ m \in Msgs /\ m.on \in BOOLEAN /\ wire[s] \in Seq(Msgs) /\ wire[o] \in Seq(Msgs)
      /\ watching \in [Sides -> BOOLEAN] /\ seesLive \in [Sides -> BOOLEAN]
      /\ OnState(s, m) /\ Up(s)
      /\ Rest(s) \in [Sides -> Seq(Msgs)] /\ Rest(s)[o] = wire[o] /\ Rest(s)[s] = Tail(wire[s])
  BY Resting, Present DEF TypeInv, Receive, Msgs
<1> HIDE DEF m
<1>1. PICK on \in BOOLEAN : on = (IF m.on THEN watching[s] \/ (~seesLive[s] /\ AutoWatch[s]) ELSE FALSE)
  BY ConstantsAssumption DEF TypeInv
<1>2. /\ seesLive' = [seesLive EXCEPT ![s] = m.on] /\ watching' = [watching EXCEPT ![s] = on]
      /\ UNCHANGED <<screen, watchers, pc>> /\ m.t = "state" /\ (on => m.on)
      /\ wire' = [Rest(s) EXCEPT ![o] = IF Up(s) THEN @ \o Asks(s, on) ELSE @]
  BY <1>0, <1>1 DEF OnState
<1>3. /\ wire'[s] = Tail(wire[s])
      /\ wire'[o] = wire[o] \o Asks(s, on)
  BY <1>0, <1>2
<1>4. /\ on = watching[s] => wire'[o] = wire[o]
      /\ on # watching[s] => wire'[o] = Append(wire[o], Watch(on))
  <2>1. Watch(on) \in Msgs
    BY Messages
  <2>2. wire[o] \o <<>> = wire[o] /\ wire[o] \o <<Watch(on)>> = Append(wire[o], Watch(on))
    BY <1>0, <2>1, Appends
  <2> QED BY <1>3, <2>2 DEF Asks
<1>5. \A u \in Sides : HasPeer(u)' <=> HasPeer(u)
  BY <1>2 DEF HasPeer
<1>6. /\ Sees(s) /\ Asked(s) /\ Sees(o) /\ Asked(o)
      /\ watching'[o] = watching[o] /\ seesLive'[o] = seesLive[o] /\ seesLive'[s] = m.on /\ watching'[s] = on
  BY <1>0, <1>2 DEF Sharing
<1>7. /\ TellsOn(wire'[s], "watch") <=> TellsOn(wire[s], "watch")
      /\ TellsOff(wire'[s], "watch") <=> TellsOff(wire[s], "watch")
      /\ Silent(wire'[s], "watch") <=> Silent(wire[s], "watch")
      /\ ~Silent(wire[s], "state")
      /\ TellsOn(wire[s], "state") => TellsOn(wire'[s], "state") \/ (Silent(wire'[s], "state") /\ m.on)
      /\ TellsOff(wire[s], "state") => TellsOff(wire'[s], "state") \/ (Silent(wire'[s], "state") /\ ~m.on)
      /\ HasOff(wire[s]) => HasOff(wire'[s]) \/ ~m.on
  BY <1>0, <1>2, <1>3, TalkTail DEF Talk, m
<1>8. /\ TellsOn(wire'[o], "state") <=> TellsOn(wire[o], "state")
      /\ TellsOff(wire'[o], "state") <=> TellsOff(wire[o], "state")
      /\ Silent(wire'[o], "state") <=> Silent(wire[o], "state")
      /\ HasOff(wire[o]) => HasOff(wire'[o])
      /\ on # watching[s] => Asked(s)'
  BY <1>0, <1>2, <1>4, AskedAnew
<1>9. Sees(s)' /\ Sees(o)'
  BY <1>2, <1>5, <1>6, <1>7, <1>8 DEF Sees, Sends
<1>10. Asked(o)'
  BY <1>2, <1>6, <1>7, <1>8 DEF Asked
<1>11. on = watching[s] => Asked(s)'
  BY <1>2, <1>4, <1>6, <1>7 DEF Asked
<1> QED BY <1>8, <1>9, <1>10, <1>11 DEF Sharing

\* The request of the other is taken.
LEMMA WatchSharing ==
  ASSUME TypeInv, Sharing, NEW s \in Sides, Receive(s), OnWatch(s, Head(wire[s]))
  PROVE  Sharing'
<1> USE TheSides
<1> DEFINE o == Other(s)
           m == Head(wire[s])
<1>0. /\ wire[s] # <<>> /\ m \in Msgs /\ wire[s] \in Seq(Msgs)
      /\ watchers \in [Sides -> BOOLEAN] /\ OnWatch(s, m) /\ HasPeer(s) /\ pc[s] \in Conns
      /\ Rest(s)[o] = wire[o] /\ Rest(s)[s] = Tail(wire[s])
  BY Resting DEF TypeInv, Receive, OnWatch, HasPeer
<1> HIDE DEF m
<1>1. /\ watchers' = [watchers EXCEPT ![s] = m.on] /\ UNCHANGED <<screen, watching, seesLive>>
      /\ m.t = "watch" /\ wire' = Rest(s)
  BY <1>0 DEF OnWatch
<1>2. wire'[s] = Tail(wire[s]) /\ wire'[o] = wire[o]
  BY <1>0, <1>1
<1>3. \A u \in Sides : HasPeer(u)' <=> HasPeer(u)
  <2>1. CASE pc' = pc
    BY <2>1 DEF HasPeer
  <2>2. CASE pc' = Untracked(s)
    <3>1. (HasPeer(s)' <=> HasPeer(s)) /\ pc'[o] = pc[o]
      BY <2>2, Untracks
    <3> QED BY <3>1 DEF HasPeer
  <2>3. CASE pc' = [pc EXCEPT ![s].tracks = @ \union {"screen"}]
    <3>1. [pc[s] EXCEPT !.tracks = @ \union {"screen"}] \in Conns
      BY <1>0 DEF Conns, Tracks
    <3>2. pc'[s] # NoPeer /\ pc'[o] = pc[o]
      BY <2>3, <3>1, ConnsArePeers DEF TypeInv
    <3> QED BY <1>0, <3>2 DEF HasPeer
  <2> QED BY <1>0, <2>1, <2>2, <2>3 DEF OnWatch
<1>4. /\ Sees(s) /\ Asked(s) /\ Sees(o) /\ Asked(o) /\ watchers'[o] = watchers[o] /\ watchers'[s] = m.on
  BY <1>0, <1>1 DEF Sharing
<1>5. /\ TellsOn(wire'[s], "state") <=> TellsOn(wire[s], "state")
      /\ TellsOff(wire'[s], "state") <=> TellsOff(wire[s], "state")
      /\ Silent(wire'[s], "state") <=> Silent(wire[s], "state")
      /\ ~Silent(wire[s], "watch")
      /\ TellsOn(wire[s], "watch") => TellsOn(wire'[s], "watch") \/ (Silent(wire'[s], "watch") /\ m.on)
      /\ TellsOff(wire[s], "watch") => TellsOff(wire'[s], "watch") \/ (Silent(wire'[s], "watch") /\ ~m.on)
      /\ HasOff(wire[s]) => HasOff(wire'[s])
  BY <1>0, <1>1, <1>2, TalkTail DEF Talk, m
<1>6. Sees(s)' /\ Sees(o)'
  BY <1>1, <1>2, <1>3, <1>4, <1>5 DEF Sees, Sends
<1>7. Asked(s)' /\ Asked(o)'
  BY <1>1, <1>2, <1>4, <1>5 DEF Asked
<1> QED BY <1>6, <1>7 DEF Sharing

\* Who makes a connection tells of its share, and watches nothing yet.
LEMMA CreateSharing ==
  ASSUME TypeInv, RosterInv, Hearing, Both, Sharing, NEW s \in Sides, Receive(s),
         ~HasPeer(s), OnRoster(s, Head(wire[s])), Other(s) \in Head(wire[s]).who
  PROVE  Sharing'
<1> USE TheSides
<1> DEFINE o == Other(s)
<1>0. /\ wire[s] # <<>> /\ wire[s] \in Seq(Msgs) /\ wire[o] \in Seq(Msgs) /\ Head(wire[s]).t = "roster"
      /\ UNCHANGED <<screen, watchers, watching, seesLive>> /\ Create(s, Rest(s)) /\ Up(s)
      /\ Rest(s) \in [Sides -> Seq(Msgs)] /\ Rest(s)[o] = wire[o] /\ Rest(s)[s] = Tail(wire[s])
  BY Resting, Present DEF TypeInv, Receive, OnRoster
<1>1. /\ pc' = [pc EXCEPT ![s] = NewPeer(s)] /\ pc'[s] = NewPeer(s) /\ NewPeer(s) \in Conns
      /\ wire' = [Rest(s) EXCEPT ![o] = Append(@, State(s))]
  BY <1>0, Creating
<1>2. wire'[s] = Tail(wire[s]) /\ wire'[o] = Append(wire[o], State(s))
  BY <1>0, <1>1
<1>3. /\ State(s) \in Msgs /\ State(s).t = "state" /\ State(s).on = screen[s]
  <2>1. State(s) \in Msgs /\ State(s).t = "state"
    BY Messages DEF State, TypeInv
  <2>2. State(s).on = screen[s]
    BY DEF State, Msg
  <2> QED BY <2>1, <2>2
<1>4. HasPeer(s)' /\ (HasPeer(o)' <=> HasPeer(o))
  BY <1>1, ConnsArePeers DEF HasPeer, TypeInv
<1>5. Sees(s) /\ Asked(s) /\ Sees(o) /\ Asked(o) /\ ~watching[s]
  BY DEF Sharing, TypeInv, Owned
<1>6. SameTalk(wire[s], wire'[s])
  BY <1>0, <1>2, TalkSame DEF Talk
<1>7. /\ screen[s] => TellsOn(wire'[o], "state")
      /\ ~screen[s] => TellsOff(wire'[o], "state")
      /\ TellsOn(wire'[o], "watch") <=> TellsOn(wire[o], "watch")
      /\ TellsOff(wire'[o], "watch") <=> TellsOff(wire[o], "watch")
      /\ Silent(wire'[o], "watch") <=> Silent(wire[o], "watch")
      /\ HasOff(wire[o]) => HasOff(wire'[o])
  BY <1>0, <1>2, <1>3, TalkPut DEF Talk
<1>8. Sees(s)' /\ Sees(o)'
  BY <1>0, <1>4, <1>5, <1>6, <1>7 DEF Sees, Sends, SameTalk, Talk
<1>9. Asked(s)' /\ Asked(o)'
  BY <1>0, <1>5, <1>6, <1>7 DEF Asked, SameTalk, Talk
<1> QED BY <1>8, <1>9 DEF Sharing

\* Who joins finds no connection, and nothing said but rosters.
LEMMA JoinSharing ==
  ASSUME TypeInv, TypeInv', RosterInv, Hearing, NEW s \in Sides, Join(s), ~rushed'
  PROVE  Sharing'
<1>1. /\ \A u \in Sides : ~HasPeer(u)'
      /\ \A u \in Sides : \A i \in DOMAIN wire'[u] : wire'[u][i].t = "roster"
  BY HeardJoin
<1>2. ASSUME NEW u \in Sides PROVE Sees(u)' /\ Asked(u)'
  <2>1. /\ Other(u) \in Sides /\ ~HasPeer(u)' /\ ~HasPeer(Other(u))'
        /\ Silent(wire'[u], "state") /\ Silent(wire'[Other(u)], "watch")
    BY <1>1, TheSides DEF Silent
  <2>2. ~watching'[u] /\ ~seesLive'[u] /\ ~watchers'[Other(u)]
    BY <2>1 DEF TypeInv, Owned
  <2> QED BY <2>1, <2>2 DEF Sees, Sends, Asked
<1> QED BY <1>2 DEF Sharing

\* Rosters and descriptions say nothing of shares.
LEMMA ReceiveSharing ==
  ASSUME TypeInv, RosterInv, Hearing, Both, Sharing, NEW s \in Sides, Receive(s), ~unheeded'
  PROVE  Sharing'
<1> USE TheSides
<1> DEFINE m == Head(wire[s])
<1>0. /\ wire[s] # <<>> /\ m \in Msgs /\ wire \in [Sides -> Seq(Msgs)] /\ joined[s] /\ joined[Other(s)]
      /\ Rest(s)[Other(s)] = wire[Other(s)] /\ Rest(s)[s] = Tail(wire[s])
      /\ pc \in [Sides -> Conns \union {NoPeer}]
  BY Resting, Present DEF TypeInv, Receive
<1>m. OnRoster(s, m) \/ OnState(s, m) \/ OnWatch(s, m) \/ OnSdp(s, m) \/ OnStranger(s, m)
  BY <1>0 DEF Receive, Unheard, Dropped, Heeded
<1>q. ASSUME m.t \notin Talk, wire' = Rest(s), UNCHANGED <<screen, watchers, watching, seesLive>>,
             \A u \in Sides : HasPeer(u)' <=> HasPeer(u)
      PROVE  Sharing'
  <2>1. SameTalk(wire[s], wire'[s]) /\ SameTalk(wire[Other(s)], wire'[Other(s)])
    BY <1>0, <1>q, TalkSame
  <2> QED BY <1>q, <2>1, SharingSame
<1>1. CASE OnState(s, m)
  BY <1>1, StateSharing
<1>2. CASE OnWatch(s, m)
  BY <1>2, WatchSharing
<1>3. CASE OnStranger(s, m)
  BY <1>0, <1>3, NoStranger DEF OnStranger
<1>4. CASE OnRoster(s, m) /\ Other(s) \in m.who /\ ~HasPeer(s)
  BY <1>4, CreateSharing
<1>5. CASE OnRoster(s, m) /\ Other(s) \in m.who /\ HasPeer(s)
  <2>1. /\ m.t = "roster" /\ wire' = Rest(s) /\ pc' = pc
        /\ UNCHANGED <<screen, watchers, watching, seesLive>>
    BY <1>5 DEF OnRoster
  <2> QED BY <1>q, <2>1 DEF Talk, HasPeer
\* A roster without the other is an old one: it came before the connection.
<1>6. CASE OnRoster(s, m) /\ Other(s) \notin m.who
  <2>1. Alone(s, m) /\ Heard(s) /\ wire[s] \in Seq(Msgs)
    BY <1>0, <1>6 DEF OnRoster, Alone, Hearing
  <2>2. ~HasPeer(s)
    <3>1. HasAlone(s, wire[s])
      BY <1>0, <2>1, Tails DEF HasAlone
    <3> QED BY <1>0, <2>1, <3>1 DEF Heard
  <2>3. /\ m.t = "roster" /\ wire' = Rest(s) /\ UNCHANGED screen /\ pc' = [pc EXCEPT ![s] = NoPeer]
        /\ Forget(watchers, s) /\ Forget(watching, s) /\ Forget(seesLive, s)
    BY <1>6 DEF OnRoster, DropPeer
  <2>4. pc' = pc
    BY <1>0, <2>2, <2>3 DEF HasPeer
  <2>5. UNCHANGED <<watchers, watching, seesLive>>
    <3>1. /\ watchers \in [Sides -> BOOLEAN] /\ watching \in [Sides -> BOOLEAN]
          /\ seesLive \in [Sides -> BOOLEAN] /\ ~watchers[s] /\ ~watching[s] /\ ~seesLive[s]
      BY <2>2 DEF TypeInv, Owned
    <3> QED BY <2>3, <3>1 DEF Forget
  <2> QED BY <1>q, <2>3, <2>4, <2>5 DEF Talk, HasPeer
<1>7. CASE OnSdp(s, m)
  <2>1. /\ m.t \in {"offer", "answer"} /\ wire' = Rest(s) /\ HasPeer(s)
        /\ UNCHANGED <<screen, watchers, watching, seesLive>>
    BY <1>7 DEF OnSdp, call
  <2>2. \A u \in Sides : HasPeer(u)' <=> HasPeer(u)
    <3>1. CASE pc' = pc
      BY <3>1 DEF HasPeer
    <3>2. CASE pc' # pc
      <4>1. PICK h : h = [op |-> m.t, d |-> m.d]
        OBVIOUS
      <4>2. pc' = [pc EXCEPT ![s].chain = Append(@, h)] /\ h \in Ops /\ pc[s] \in Conns
        BY <1>0, <1>7, <2>1, <3>2, <4>1 DEF OnSdp, HasPeer, Ops, Msgs
      <4>3. PICK q : q = [pc[s] EXCEPT !.chain = Append(@, h)]
        OBVIOUS
      <4>4. q \in Conns
        BY <4>2, <4>3, Chaining
      <4>5. pc'[s] = q /\ \A u \in Sides : u # s => pc'[u] = pc[u]
        BY <1>0, <4>2, <4>3
      <4> QED BY <2>1, <4>4, <4>5, ConnsArePeers DEF HasPeer
    <3> QED BY <3>1, <3>2
  <2> QED BY <1>q, <2>1, <2>2 DEF Talk
<1> QED BY <1>m, <1>1, <1>2, <1>3, <1>4, <1>5, <1>6, <1>7

\* Nor does the browser.
LEMMA BrowserSharing ==
  ASSUME TypeInv, RosterInv, Hearing, Both, Sharing, NEW s \in Sides, NegotiationNeeded(s) \/ Apply(s)
  PROVE  Sharing'
<1> USE TheSides
<1>0. wire \in [Sides -> Seq(Msgs)]
  BY DEF TypeInv
<1>1. /\ UNCHANGED <<screen, watchers, watching, seesLive>> /\ pc[s] \in Conns
      /\ \E q \in Conns : pc' = [pc EXCEPT ![s] = q]
      /\ \/ UNCHANGED wire
         \/ wire' = Sent(s, <<[Msg("answer") EXCEPT !.d = Answer(pc[s])]>>)
         \/ wire' = Sent(s, <<[Msg("offer") EXCEPT !.d = Offer(pc[s])]>>)
  <2>1. CASE NegotiationNeeded(s)
    BY <2>1, Begun DEF call
  <2>2. CASE Apply(s)
    BY <2>2, Applied DEF call
  <2> QED BY <2>1, <2>2
<1>2. UNCHANGED wire \/ \E m \in Msgs : m.t \notin Talk /\ wire' = Sent(s, <<m>>)
  <2>1. PICK d \in Descs, e \in Descs : d = Answer(pc[s]) /\ e = Offer(pc[s])
    BY <1>1, Described
  <2>2. PICK a \in Msgs : a = [Msg("answer") EXCEPT !.d = d] /\ a.t = "answer"
    <3>1. PICK m : m = [Msg("answer") EXCEPT !.d = d]
      OBVIOUS
    <3>2. m \in Msgs /\ m.t = "answer"
      BY <3>1, Messages
    <3> QED BY <3>1, <3>2
  <2>3. PICK f \in Msgs : f = [Msg("offer") EXCEPT !.d = e] /\ f.t = "offer"
    <3>1. PICK m : m = [Msg("offer") EXCEPT !.d = e]
      OBVIOUS
    <3>2. m \in Msgs /\ m.t = "offer"
      BY <3>1, Messages
    <3> QED BY <3>1, <3>2
  <2>4. a.t \notin Talk /\ f.t \notin Talk
    BY <2>2, <2>3 DEF Talk
  <2>5. UNCHANGED wire \/ wire' = Sent(s, <<a>>) \/ wire' = Sent(s, <<f>>)
    BY <1>1, <2>1, <2>2, <2>3
  <2> QED BY <2>4, <2>5
<1>3. \A u \in Sides : HasPeer(u)' <=> HasPeer(u)
  <2>1. PICK q \in Conns : pc' = [pc EXCEPT ![s] = q]
    BY <1>1
  <2>2. pc'[s] = q /\ \A u \in Sides : u # s => pc'[u] = pc[u]
    BY <2>1 DEF TypeInv
  <2> QED BY <1>1, <2>2, ConnsArePeers DEF HasPeer
<1>4. SameTalk(wire[s], wire'[s]) /\ SameTalk(wire[Other(s)], wire'[Other(s)])
  <2>1. CASE UNCHANGED wire
    BY <1>0, <2>1, TalkSame
  <2>2. ASSUME NEW m \in Msgs, m.t \notin Talk, wire' = Sent(s, <<m>>)
        PROVE  SameTalk(wire[s], wire'[s]) /\ SameTalk(wire[Other(s)], wire'[Other(s)])
    <3>1. wire'[s] = wire[s] /\ wire'[Other(s)] = Append(wire[Other(s)], m)
      BY <2>2, Delivered
    <3> QED BY <1>0, <2>2, <3>1, TalkSame
  <2> QED BY <1>2, <2>1, <2>2
<1> QED BY <1>1, <1>3, <1>4, SharingSame

LEMMA ShareStep ==
  TypeInv /\ TypeInv' /\ RosterInv /\ CallInv /\ ShareInv /\ [Next]_vars => ShareInv'
<1> SUFFICES ASSUME TypeInv, TypeInv', RosterInv, CallInv, ShareInv, [Next]_vars
             PROVE  SameConnections' /\ Both' => Sharing'
  BY TrackedStep DEF ShareInv
<1> SUFFICES ASSUME SameConnections', Both' PROVE Sharing'
  OBVIOUS
<1>1. \A u \in Sides : Tracked(u)
  BY DEF ShareInv
<1>2. CASE UNCHANGED vars
  <2>1. Sharing
    BY <1>2 DEF vars, bounds, history, call, SameConnections, Both, ShareInv
  <2> QED BY <1>2, <2>1 DEF vars, call, Sharing, Sees, Sends, Asked, HasPeer
<1>4. ASSUME NEW s \in Sides, Learn(s) PROVE Sharing'
  <2>1. Sharing
    BY <1>4, Calm DEF ShareInv, Learn, call, Both
  <2> QED BY <1>4, <2>1 DEF Learn, call, Sharing, Sees, Sends, Asked, HasPeer
<1>3. ASSUME NEW s \in Sides, User(s) \/ Drop(s) \/ Work(s) PROVE Sharing'
  <2>1. ~Drop(s) /\ SameConnections
    BY <1>3, Calm
  <2>2. Hearing
    BY <2>1 DEF CallInv
  <2>3. CASE Join(s)
    BY <2>2, <2>3, JoinSharing DEF SameConnections
  <2>4. ~Leave(s)
    BY <2>2, HeardLeave
  <2>5. ~Reopen(s)
    BY <2>2 DEF Reopen, Hearing
  <2>6. CASE ~Join(s)
    <3>1. UNCHANGED joined
      BY <1>3, <2>1, <2>4, <2>6 DEF User, Work, StartShare, StopShare, Click, Receive, Unheard, Dropped, Heeded, OnRoster,
           OnState, OnWatch, OnSdp, OnStranger, NegotiationNeeded, Apply, Reopen, call
    <3>2. Both /\ Sharing
      BY <2>1, <3>1 DEF Both, ShareInv
    <3>3. StartShare(s) \/ StopShare(s) \/ Click(s) \/ Receive(s) \/ NegotiationNeeded(s) \/ Apply(s)
      BY <1>3, <2>1, <2>4, <2>5, <2>6 DEF User, Work
    <3>4. ~unheeded'
      BY DEF SameConnections
    <3> QED BY <1>1, <2>2, <3>2, <3>3, <3>4, StartSharing, StopSharing, ClickSharing, ReceiveSharing, BrowserSharing
  <2> QED BY <2>3, <2>6
<1> QED BY <1>2, <1>3, <1>4 DEF Next

LEMMA ShareInit == Init => ShareInv
<1> SUFFICES ASSUME Init PROVE (\A s \in Sides : Tracked(s)) /\ ~Both
  BY DEF ShareInv
<1> QED BY DEF Init, Tracked, HasPeer, Both, Sides

LEMMA ShareHolds == Spec => [](TypeInv /\ RosterInv /\ CallInv /\ ShareInv)
<1>1. Init => TypeInv /\ RosterInv /\ CallInv /\ ShareInv
  BY TypesInit, RosterInit, CallInit, ShareInit
<1>2. TypeInv /\ RosterInv /\ CallInv /\ ShareInv /\ [Next]_vars => (TypeInv /\ RosterInv /\ CallInv /\ ShareInv)'
  BY TypesStep, RosterStep, CallStep, ShareStep
<1> QED BY <1>1, <1>2, PTL DEF Spec

-----------------------------------------------------------------------------
(* When nothing is under way.                                                *)

\* Whoever has a connection then has negotiated what it sends, or waits, if it
\* is the polite one, for an answer to an offer that was lost.
LEMMA Settled ==
  ASSUME TypeInv, RosterInv, CallInv, SameConnections, Quiet, NEW s \in Sides, HasPeer(s)
  PROVE  /\ Both /\ HasPeer(Other(s)) /\ \A u \in Sides : wire[u] = <<>>
         /\ \/ pc[s].sig = "stable" /\ pc[s].sent = pc[s].tracks
            \/ s = "lo" /\ LoSpared
<1>1. Going /\ Hearing /\ Matching /\ Dialogue
  BY DEF CallInv, Going
<1>2. \A u \in Sides : wire[u] = <<>> /\ (joined[u] <=> u \in roster)
  BY DEF Quiet, Idle, RosterInv
<1>3. Both /\ HasPeer(Other(s))
  <2>1. s \in roster /\ Other(s) \in roster
    BY <1>2 DEF Quiet, Idle, RosterInv, Told, Due, TypeInv, Owned
  <2>2. HasPeer(Other(s))
    BY <1>2, <2>1, TheSides DEF RosterInv, Told, Due
  <2> QED BY <1>1, <2>1, <2>2, Present
<1>4. \A u \in Sides : HasPeer(u) => pc[u] \in Conns /\ Shape(u, pc[u]) /\ pc[u].chain = <<>>
  BY <1>1 DEF Matching, TypeInv, HasPeer, Quiet, Idle
<1>5. \A u \in Sides : ~HasOffer(wire[u]) /\ ~HasAnswer(wire[u]) /\ ~Answered(u) /\ ~Taken(u)
  <2>1. ~OpIn(<<>>, "offer") /\ ~OpIn(<<>>, "answer") /\ <<>> # <<Local>>
    BY NoOps
  <2>2. \A i \in DOMAIN <<>> : FALSE
    OBVIOUS
  <2>3. \A u \in Sides : ~HasOffer(wire[u]) /\ ~HasAnswer(wire[u])
    BY <1>2, <2>2 DEF HasOffer, HasAnswer
  <2>4. \A u \in Sides : HasPeer(u) => pc[u].sig # "have-remote"
    BY <1>4, <2>1, Shapes
  <2> QED BY <1>4, <2>1, <2>3, <2>4 DEF Answered, Taken
<1>6. HiWaits /\ LoWaits /\ "hi" \in Sides
  BY <1>1, <1>3 DEF Dialogue, Sides
<1>7. CASE pc[s].sig = "stable"
  BY <1>2, <1>3, <1>7 DEF Quiet, Idle
<1>8. CASE pc[s].sig = "have-local" /\ s = "hi"
  BY <1>5, <1>6, <1>8 DEF HiWaits, Sides
<1>9. CASE pc[s].sig = "have-local" /\ s = "lo"
  <2>1. HasPeer("hi") => ~pc["hi"].makingOffer
    BY <1>4, <1>6, Shapes
  <2>2. LoSpared
    BY <1>5, <1>6, <1>9, <2>1 DEF LoWaits, Sides
  <2> QED BY <1>2, <1>3, <1>9, <2>2
<1>10. pc[s].sig \in {"stable", "have-local"}
  BY <1>4, <1>5 DEF Taken, Conns
<1> QED BY <1>7, <1>8, <1>9, <1>10 DEF Sides

\* An answer is only ever applied to the very offer it answers, however offers
\* cross, are ignored or are rolled back (call.ts, onnegotiationneeded and
\* handleSignal).
THEOREM AnswerMatchesHolds == Spec => []AnswerMatches
<1>1. TypeInv /\ RosterInv /\ CallInv => AnswerMatches
  <2> SUFFICES ASSUME TypeInv, CallInv, NEW s \in Sides, SameConnections, HasPeer(s), pc[s].chain # <<>>,
                      Head(pc[s].chain).op = "answer"
               PROVE  pc[s].sig = "have-local" /\ Head(pc[s].chain).d.id = pc[s].local.id
    BY DEF AnswerMatches
  <2>1. Shape(s, pc[s]) /\ pc[s] \in Conns
    BY DEF CallInv, Matching, TypeInv, HasPeer
  <2> QED BY <2>1, Shapes
<1> QED BY <1>1, CallHolds, PTL

\* Once nothing is under way, the voices of both are negotiated, though either
\* side's offer may have been ignored or rolled back (call.ts, handleSignal).
THEOREM VoiceConnectsHolds == Spec => []VoiceConnects
<1>1. TypeInv /\ RosterInv /\ CallInv => VoiceConnects
  <2> SUFFICES ASSUME TypeInv, RosterInv, CallInv, SameConnections, Quiet, NEW s \in Sides, HasPeer(s)
               PROVE  "mic" \in pc[s].sent
    BY DEF VoiceConnects
  <2>1. /\ Both
        /\ \/ pc[s].sent = pc[s].tracks
           \/ s = "lo" /\ LoSpared
    BY Settled
  <2>2. Voiced(s)
    BY <2>1 DEF CallInv, Dialogue
  <2> QED BY <2>1, <2>2 DEF Voiced, LoSpared, LoHeard
<1> QED BY <1>1, CallHolds, PTL

\* Once nothing is under way, the screen is sent to exactly who watches it,
\* unless an offer was ignored by an impolite side that was just applying the
\* answer to its own (call.ts, startScreenShare, setWatching, onWatchRequest and
\* handleSignal).
THEOREM WatchedIsSentHolds == Spec => []WatchedIsSentCalm
<1>1. TypeInv /\ RosterInv /\ CallInv /\ ShareInv => WatchedIsSentCalm
  <2> SUFFICES ASSUME TypeInv, RosterInv, CallInv, ShareInv, SameConnections, ~lostOffer, Quiet, NEW s \in Sides
               PROVE  Shown(s) <=> watching[s] /\ screen[Other(s)]
    BY DEF WatchedIsSentCalm, WatchedIsSent
  <2> DEFINE o == Other(s)
  <2>1. o \in Sides /\ Other(o) = s /\ (HasPeer(o) => HasPeer(s)) /\ (HasPeer(s) => HasPeer(o))
    BY TheSides, Settled
  <2>2. CASE ~HasPeer(s)
    BY <2>1, <2>2 DEF Shown, TypeInv, Owned
  <2>3. CASE HasPeer(s)
    <3>1. Both /\ pc[o].sent = pc[o].tracks /\ wire[s] = <<>> /\ wire[o] = <<>>
      BY <2>1, <2>3, Settled DEF LoSpared
    <3>2. Tracked(s) /\ Tracked(o) /\ Sees(s) /\ Asked(s)
      BY <2>1, <3>1 DEF ShareInv, Sharing
    <3>3. \A t \in Talk : ~TellsOn(<<>>, t) /\ ~TellsOff(<<>>, t)
      BY DEF TellsOn, TellsOff
    <3>4. ~HasOff(<<>>)
      BY DEF HasOff
    <3>5. seesLive[s] <=> screen[o]
      BY <2>1, <2>3, <3>1, <3>2, <3>3 DEF Sees, Sends, Talk
    <3>6. watching[s] <=> watchers[o]
      BY <3>1, <3>2, <3>3, <3>4 DEF Asked, Talk
    <3>7. Shown(s) <=> watchers[o] /\ screen[o]
      BY <2>1, <2>3, <3>1, <3>2 DEF Shown, Tracked
    <3> QED BY <3>2, <3>5, <3>6, <3>7 DEF Tracked
  <2> QED BY <2>2, <2>3
<1> QED BY <1>1, ShareHolds, PTL

=============================================================================
