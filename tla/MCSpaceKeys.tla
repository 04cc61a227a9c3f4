---------------------------- MODULE MCSpaceKeys -----------------------------
(* Instances of SpaceKeys: an owner o and friends. *)
EXTENDS SpaceKeys, TLC

CONSTANTS o, a, b

\* The friends are interchangeable: no definition of SpaceKeys names a user but
\* the owner, a beginning with a as member stands for the one with b, and only
\* safety is checked.
Friends == Permutations(Users \ {Owner})

\* Five beginnings, where what one does not use of the bounds counts as spent.
\* Calm ones, without faults, of one removal and two joins at most: a new space
\* that two people join, one removal among three members, and one removal
\* against one join.
NoFaults == [Unspent EXCEPT !.drops = MaxDrops, !.restarts = MaxRestarts, !.failures = MaxFailures]
JoinTwo == StartWith({}, [NoFaults EXCEPT !.kicks = 2])
KickOne == StartWith(Users, [NoFaults EXCEPT !.kicks = 1, !.joins = 2])
KickAndJoin == StartWith({o, a}, [NoFaults EXCEPT !.kicks = 1, !.joins = 1])

\* And faulty ones: two removals and one fault, or one removal with faults,
\* a WebSocket that closes and a client that restarts.
KickTwo == StartWith(Users, [Unspent EXCEPT !.joins = 2, !.drops = 1, !.restarts = 1])
KickDropRestart == StartWith(Users, [Unspent EXCEPT !.joins = 2, !.kicks = 1])

AnyStart == JoinTwo \/ KickOne \/ KickAndJoin \/ KickTwo \/ KickDropRestart
ScenesSpec == AnyStart /\ [][Next]_vars
=============================================================================
