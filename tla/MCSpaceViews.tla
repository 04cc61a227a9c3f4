---------------------------- MODULE MCSpaceViews ----------------------------
(* Instances of SpaceViews.                                                  *)
EXTENDS SpaceViews, TLC

Some == [k \in Kinds \union {"loads", "drops"} |-> 1]
Nothing == [k \in DOMAIN Some |-> 0]

\* Scenarios that leave out what they do not look at by bounds of zero: somebody
\* joins, with a message and perhaps a removal meanwhile, or a channel; two
\* members write while one's WebSocket closes, or add and delete a sticker.
JoinAndChat == StartWith({Owner}, ("messages" :> 1) @@ ("members" :> 2) @@ ("loads" :> 1) @@ Nothing)
JoinAndDrop == StartWith({Owner}, ("channels" :> 1) @@ ("members" :> 1) @@ ("drops" :> 1) @@ Nothing)
ChatAndDrop == StartWith(Users, ("messages" :> 2) @@ ("loads" :> 1) @@ ("drops" :> 1) @@ Nothing)
ShowStickers == StartWith(Users, ("stickers" :> 2) @@ ("loads" :> 3) @@ Nothing)

JoinAndRead == StartWith({Owner}, ("messages" :> 1) @@ ("members" :> 1) @@ ("loads" :> 1) @@ Nothing)

HistorySpec == JoinAndRead /\ [][Next]_vars
ViewsSpec == (JoinAndChat \/ JoinAndDrop \/ ChatAndDrop \/ ShowStickers) /\ [][Next]_vars
=============================================================================
