------------------------------ MODULE MCServices ------------------------------
(***************************************************************************)
(* The instances of Services.                                              *)
(***************************************************************************)
EXTENDS Services, TLC

CONSTANTS c1, c2, c3, c4, q1, q2, q3, u1, u2, u3

(* Two calls for one request, which is in the write buffer as well, as is    *)
(* another; a third call comes from somebody who is not a member.            *)
MCReqOf == c1 :> q1 @@ c2 :> q1 @@ c3 :> q3

(* Two users ask for their direct chat at the same time, and one of them is  *)
(* in a group with a third; of some calls there are erroneous variants.      *)
Chat(u, kind, others) == [by |-> u, kind |-> kind, others |-> others]
MCMay ==
  c1 :> {Chat(u1, "direct", {u2})} @@
  c2 :> {Chat(u2, "direct", {u1}), Chat(u2, "direct", {u2}), Chat(u2, "direct", {Nobody})} @@
  c3 :> {Chat(u2, "group", {u3}), Chat(u2, "channel", {u3})}
MCRequest == UNION {MCMay[c] : c \in {c1, c2, c3}}

(* Registrations for one name or one address, a login with the right or a    *)
(* wrong password, and what there is to do with a token.                     *)
Account(op, name, mail, secret) == [op |-> op, name |-> name, mail |-> mail, secret |-> secret]
MCMayAccount ==
  c1 :> {Account("register", "n1", "m1", "s1")} @@
  c2 :> {Account("register", "n1", "m2", "s2"), Account("register", "n2", "m1", "s1"),
         Account("register", "n2", "m2", Missing)} @@
  c3 :> {Account("login", Missing, "m1", s) : s \in {"s1", "s2", Missing}} \cup
        {Account("update", "n3", Missing, Missing)} @@
  c4 :> {Account(op, Missing, Missing, Missing) : op \in {"refresh", "avatar", "update"}} \cup
        {Account("other", Nobody, Missing, Missing)}
MCAccountRequest == UNION {MCMayAccount[c] : c \in {c1, c2, c3, c4}}
=============================================================================
