------------------------------- MODULE Accounts -------------------------------
(***************************************************************************)
(* user-service: POST /auth/register, /auth/login and /auth/refresh,       *)
(* GET and PATCH /users/me, GET /users/:id (auth.service.ts, users.service.*)
(* ts), with the rate limit and the token check in front of them and the   *)
(* error middleware behind.                                                *)
(*                                                                         *)
(* register looks for a user with the name or the address and inserts one  *)
(* if there is none; in between it hashes the password, which takes long   *)
(* enough for others to do the same.  Then the unique columns of User      *)
(* decide, and the call that comes second ends as a 500.  A user goes by   *)
(* the call that made its row, and its name and address are those of the   *)
(* request.  Nothing removes users.                                        *)
(***************************************************************************)
EXTENDS Naturals

CONSTANTS
  Call,
  Request,   \* [op, name, mail, secret]; what an operation does not read is Missing
  May,       \* the requests each call may be
  Missing,   \* an input that is not there, or that validation rejects
  Nobody,    \* no user
  MaxFaults  \* bound of failed database calls

AccountsAssumption ==
  /\ May \in [Call -> SUBSET Request]
  /\ \A r \in Request :
       r.op \in {"register", "login", "refresh", "me", "other", "update", "avatar"}
  /\ Nobody \notin Call /\ MaxFaults \in Nat

VARIABLES
  users,    \* User rows, by the call that made them
  display,  \* the call that gave each user its display name
  request,  \* what each call is
  token,    \* the user named by the token a call came with
  stage,    \* what each call awaits
  answer,   \* status and user of its answer
  faults,
  known     \* history: the users there were when a call began

accountVars == <<users, display, request, token, stage, answer, faults, known>>

NoRequest == [op |-> "none", name |-> Missing, mail |-> Missing, secret |-> Missing]
Pending == [status |-> 0, user |-> Nobody]

AccountsInit ==
  /\ users = {}
  /\ display = [c \in Call |-> Nobody]
  /\ request = [c \in Call |-> NoRequest]
  /\ token = [c \in Call |-> Nobody]
  /\ stage = [c \in Call |-> "idle"]
  /\ answer = [c \in Call |-> Pending]
  /\ faults = 0
  /\ known = [c \in Call |-> {}]

Name(c) == request[c].name
Mail(c) == request[c].mail
Secret(c) == request[c].secret
At(c, op, s) == request[c].op = op /\ stage[c] = s
Await(c, s) == stage' = [stage EXCEPT ![c] = s] /\ UNCHANGED answer
Reply(c, status, u) ==
  /\ answer' = [answer EXCEPT ![c] = [status |-> status, user |-> u]]
  /\ stage' = [stage EXCEPT ![c] = "done"]
Quiet == UNCHANGED <<users, display, request, token, faults, known>>

(* The tokens there are: those of answers 200 and 201 to register, login and *)
(* refresh.  Which secret signed them is left out.                           *)
Issues(op) == op \in {"register", "login", "refresh"}
SignToken == {answer[c].user : c \in {d \in Call : Issues(request[d].op)}} \ {Nobody}

-----------------------------------------------------------------------------
(* What the call is refused for before it asks the database: there is no     *)
(* await between the rate limit and the first query.  register and login     *)
(* look at no token.                                                         *)
NeedsToken(r) == r.op \notin {"register", "login"}
Unauthorized(r, u) == NeedsToken(r) /\ u = Nobody
InvalidRegister(r) == r.op = "register" /\ Missing \in {r.name, r.mail, r.secret}
InvalidLogin(r) == r.op = "login" /\ Missing \in {r.mail, r.secret}
InvalidUpdate(r) == r.op = "update" /\ r.name = Missing
Invalid(r) == InvalidRegister(r) \/ InvalidLogin(r) \/ InvalidUpdate(r)

FirstQuery == [register |-> "find", login |-> "read", refresh |-> "read", me |-> "read",
               other |-> "read", update |-> "write", avatar |-> "write"]

(* A request comes in, with a token or with none; one that has expired or is *)
(* not ours is none.  The rate limit of the router (module RateLimit) lets   *)
(* it pass or not; then the token is looked at, and then the input.          *)
Arrive(c) ==
  /\ stage[c] = "idle"
  /\ \E r \in May[c], u \in SignToken \cup {Nobody} :
       /\ NeedsToken(r) \/ u = Nobody
       /\ request' = [request EXCEPT ![c] = r]
       /\ token' = [token EXCEPT ![c] = u]
       /\ \/ Reply(c, 429, Nobody)
          \/ Unauthorized(r, u) /\ Reply(c, 401, Nobody)
          \/ ~Unauthorized(r, u) /\ Invalid(r) /\ Reply(c, 400, Nobody)
          \/ ~Unauthorized(r, u) /\ ~Invalid(r) /\ Await(c, FirstQuery[r.op])
  /\ known' = [known EXCEPT ![c] = users]
  /\ UNCHANGED <<users, display, faults>>

-----------------------------------------------------------------------------
(* register                                                                   *)
Taken(c) == {u \in users : Name(u) = Name(c) \/ Mail(u) = Mail(c)}

FindUserByEmailOrUsername(c) ==
  /\ At(c, "register", "find")
  /\ IF Taken(c) # {} THEN Reply(c, 409, Nobody) ELSE Await(c, "create")
  /\ Quiet

Insert(c) ==
  /\ users' = users \cup {c}
  /\ display' = [display EXCEPT ![c] = c]

(* A bug: a schema in which only the id is unique.                           *)
BrokenUnique(c) == c \notin users

(* User.username and User.email are unique.                                  *)
Unique(c) == Taken(c) = {}

CreateUser(c) ==
  /\ At(c, "register", "create")
  /\ IF Unique(c) THEN Insert(c) /\ Reply(c, 201, c)
     ELSE UNCHANGED <<users, display>> /\ Reply(c, 500, Nobody)
  /\ UNCHANGED <<request, token, faults, known>>

(* PATCH /users/me: an avatar_url alone is accepted, and dropped.            *)
Renamed(c) == IF request[c].op = "update" THEN [display EXCEPT ![token[c]] = c] ELSE display

(* A query fails, an insert perhaps after it was carried out; the error is   *)
(* no AppError, and the middleware answers 500.                              *)
QueryFails(c) ==
  /\ stage[c] \in {"find", "create", "read", "write"}
  /\ faults < MaxFaults /\ faults' = faults + 1
  /\ \/ UNCHANGED <<users, display>>
     \/ stage[c] = "create" /\ Unique(c) /\ Insert(c)
     \/ stage[c] = "write" /\ display' = Renamed(c) /\ UNCHANGED users
  /\ Reply(c, 500, Nobody)
  /\ UNCHANGED <<request, token, known>>

-----------------------------------------------------------------------------
(* login: the address and then the password have to match.  An address that  *)
(* is no string is an address that nobody has.                               *)
FindUserByEmail(c) ==
  /\ At(c, "login", "read")
  /\ LET found == {u \in users : Mail(u) = Mail(c) /\ Secret(u) = Secret(c)}
     IN  IF found = {} THEN Reply(c, 401, Nobody) ELSE \E u \in found : Reply(c, 200, u)
  /\ Quiet

(* refresh, GET /users/me and GET /users/:id read a user by its id; the last *)
(* may ask for an id nobody has.                                             *)
Wanted(c) == IF request[c].op = "other" THEN Name(c) ELSE token[c]

FindUserById(c) ==
  /\ request[c].op \in {"refresh", "me", "other"} /\ stage[c] = "read"
  /\ IF Wanted(c) \in users THEN Reply(c, 200, Wanted(c)) ELSE Reply(c, 404, Nobody)
  /\ Quiet

UpdateUser(c) ==
  /\ stage[c] = "write"
  /\ display' = Renamed(c)
  /\ Reply(c, 200, token[c])
  /\ UNCHANGED <<users, request, token, faults, known>>

-----------------------------------------------------------------------------
Register(c) == FindUserByEmailOrUsername(c) \/ CreateUser(c)
Profile(c) == FindUserById(c) \/ UpdateUser(c)

AccountsNext ==
  \E c \in Call :
    Arrive(c) \/ Register(c) \/ FindUserByEmail(c) \/ Profile(c) \/ QueryFails(c)

AccountsSpec == AccountsInit /\ [][AccountsNext]_accountVars

-----------------------------------------------------------------------------
AccountsTypeOK ==
  /\ users \subseteq Call
  /\ display \in [Call -> Call \cup {Nobody}]
  /\ request \in [Call -> Request \cup {NoRequest}]
  /\ token \in [Call -> users \cup {Nobody}]
  /\ stage \in [Call -> {"idle", "find", "create", "read", "write", "done"}]
  /\ answer \in [Call -> [status : {0, 200, 201, 400, 401, 404, 409, 429, 500},
                          user : users \cup {Nobody}]]
  /\ faults \in 0..MaxFaults
  /\ known \in [Call -> SUBSET users]

(* A token names the one user its bearer proved to be: the call's own new    *)
(* row, the only user with the address and the password, or the bearer of    *)
(* the token before; and what a call was told of other users is so: 409 only *)
(* for a name or address in use, 401 only if there was no such user when the *)
(* login began, even one whose registration was answered 500                 *)
(* (auth.service.ts:58-74, 83-90, 103-109; schema.prisma:12-19).              *)
TokensNameTheirUser ==
  /\ \A u, v \in users : u # v => Name(u) # Name(v) /\ Mail(u) # Mail(v)
  /\ \A c \in Call :
       LET op == request[c].op
           same(u) == Mail(u) = Mail(c) /\ Secret(u) = Secret(c)
       IN  /\ op = "register" =>
                /\ answer[c].status = 201 => answer[c].user = c /\ c \in users
                /\ answer[c].status = 409 => Taken(c) \ {c} # {}
                /\ c \in users => known[c] \cap Taken(c) = {}
           /\ op = "login" =>
                /\ answer[c].status = 200 => {u \in users : same(u)} = {answer[c].user}
                /\ answer[c].status = 401 => \A u \in known[c] : ~same(u)
           /\ op \in {"refresh", "me", "update", "avatar"} /\ answer[c].status = 200 =>
                answer[c].user = token[c]
=============================================================================
