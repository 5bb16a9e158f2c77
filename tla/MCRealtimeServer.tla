-------------------------- MODULE MCRealtimeServer --------------------------
(* Instances of RealtimeServer: two users, the first with up to two sockets, *)
(* and one room of both, there from the start or created later.               *)
EXTENDS RealtimeServer, TLC

CONSTANTS s1, s2, s3, u1, u2, r1

UserOfTabs == s1 :> u1 @@ s2 :> u2 @@ s3 :> u1
UserOfPair == s1 :> u1 @@ s2 :> u2

Shared == {<<u1, r1>>, <<u2, r1>>}
Nobody == {}

(* The two tabs are alike.                                                   *)
Symmetric == Permutations({s1, s3})
=============================================================================
