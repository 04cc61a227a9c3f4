----------------------------- MODULE CallRoster -----------------------------
(***************************************************************************)
(* What the hub of server/src/ws.rs promises about calls, with every        *)
(* operation in one step: a user is online or not, a call's roster holds    *)
(* only online users, the LIVE set holds only participants.  CallHub, where  *)
(* each handler is a sequence of separately locked sections, implements it. *)
(***************************************************************************)
CONSTANTS Users, Channels

VARIABLES online,   \* users the server holds to be reachable
          calls,    \* channel -> participants
          live      \* channel -> participants sharing their screen

vars == <<online, calls, live>>

Init ==
  /\ online = {}
  /\ calls = [ch \in Channels |-> {}]
  /\ live = [ch \in Channels |-> {}]

Connect(u) ==
  /\ online' = online \union {u}
  /\ UNCHANGED <<calls, live>>

Join(u, ch) ==
  /\ u \in online
  /\ calls' = [calls EXCEPT ![ch] = @ \union {u}]
  /\ UNCHANGED <<online, live>>

Leave(u, ch) ==
  /\ calls' = [calls EXCEPT ![ch] = @ \ {u}]
  /\ live' = [live EXCEPT ![ch] = @ \ {u}]
  /\ UNCHANGED online

Stream(u, ch) ==
  /\ u \in calls[ch]
  /\ \/ live' = [live EXCEPT ![ch] = @ \union {u}]
     \/ live' = [live EXCEPT ![ch] = @ \ {u}]
  /\ UNCHANGED <<online, calls>>

(***************************************************************************)
(* The end of a user's last connection: out of every call.  The user is      *)
(* offline afterwards unless a new connection got in first; the calls it     *)
(* joined are lost either way.                                               *)
(***************************************************************************)
HangUp(u) ==
  /\ online' \in {online, online \ {u}}
  /\ calls' = [ch \in Channels |-> calls[ch] \ {u}]
  /\ live' = [ch \in Channels |-> live[ch] \ {u}]

Next ==
  \E u \in Users :
    \/ Connect(u)
    \/ HangUp(u)
    \/ \E ch \in Channels : Join(u, ch) \/ Leave(u, ch) \/ Stream(u, ch)

Spec == Init /\ [][Next]_vars

=============================================================================
