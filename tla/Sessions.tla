-------------------------------- MODULE Sessions --------------------------------
(***************************************************************************)
(* Users and their sessions: Login, Refresh and Logout with the refresh    *)
(* tokens in Redis, the access tokens that JWTMiddleware accepts, and the  *)
(* handlers that create, update and delete users.                          *)
(*                                                                         *)
(* A command of Redis and a statement of SQL are one step each, and any    *)
(* may fail.  A request that changes nothing (a wrong password, an unknown *)
(* token, a failed read, List) is a stuttering step.  The email is left    *)
(* out: it is a column like the password.                                  *)
(***************************************************************************)
EXTENDS FiniteSets

CONSTANTS
  User,      \* IDs of users
  first,     \* the user who is there before any handler runs
  NameOf,    \* the username an ID is given
  Password,
  Patch,     \* what updates of a user ask for: some of the columns
  Token,     \* refresh tokens
  Request,   \* slots for requests under way
  NoRow,     \* no row of users
  None       \* no key in Redis, no token, no user

Row == [active : BOOLEAN, password : Password]

ASSUME NameAssumption == DOMAIN NameOf = User /\ first \in User
ASSUME PatchAssumption ==
         Patch \subseteq [active : BOOLEAN] \cup [password : Password] \cup Row
ASSUME NoneAssumption == None \notin User \cup Token /\ NoRow \notin Row

VARIABLES
  users,    \* the table: a row for an ID, or NoRow
  born,     \* IDs that were given out
  live,     \* refresh:<token> in Redis: its user, or None
  held,     \* the user whom a client was given the token for, or None
  access,   \* users with an access token that has not expired
  request,  \* where each request is
  wanted,   \* history: what the updates asked for; of users in mixed, what they wrote
  mixed,    \* history: users with updates under way, two of them at one time
  spent,    \* history: held tokens that were presented or have expired
  once,     \* history: held tokens that a Refresh was answered for
  twice,    \* history: those that two were
  excused   \* history: those of two Refreshes at a time, or whose DEL failed

tokenVars == <<live, held, access>>
userVars == <<users, born, wanted, mixed>>
spendVars == <<spent, once, twice, excused>>
vars == <<userVars, tokenVars, request, spendVars>>

Idle == [pc |-> "idle"]

Requests ==
  {Idle}
    \cup [pc : {"delete", "find"}, user : User, token : Token]
    \cup [pc : {"store"}, user : User, token : Token \cup {None}]
    \cup [pc : {"write"}, user : User, row : Row, patch : Patch]

Init ==
  /\ users \in {[u \in User |-> IF u = first THEN row ELSE NoRow] : row \in Row}
  /\ users[first].active
  /\ born = {first}
  /\ live = [t \in Token |-> None] /\ held = [t \in Token |-> None]
  /\ access = {}
  /\ request = [r \in Request |-> Idle]
  /\ wanted = users /\ mixed = {}
  /\ spent = {} /\ once = {} /\ twice = {} /\ excused = {}

-------------------------------------------------------------------------------
(* Requests.                                                               *)

\* The tokens that clients have.
Held == {t \in Token : held[t] # None}

At(r, pc) == request[r].pc = pc

Goes(r, q) == request' = [request EXCEPT ![r] = q]

\* Another request is about to update u.
OtherUpdate(r, u) ==
  \E q \in Request \ {r} : At(q, "write") /\ request[q].user = u

\* With the last of its updates a user is no longer mixed.
AfterUpdate(r) ==
  IF At(r, "write") /\ ~OtherUpdate(r, request[r].user)
  THEN mixed \ {request[r].user} ELSE mixed

\* An error is answered.
Refuse(r) ==
  /\ ~At(r, "idle") /\ Goes(r, Idle)
  /\ mixed' = AfterUpdate(r)
  /\ UNCHANGED <<users, born, wanted, tokenVars, spendVars>>

\* The row that FindByUsername or FindByID returns, if there is one.
Found(row) == row # NoRow

\* Mutant of Admitted: is_active is not looked at.
AdmittedAny(row) == Found(row)

\* The user is there and not disabled.
Admitted(row) == Found(row) /\ row.active

\* The rest of JWTMiddleware's requests need the token of some user, whatever
\* has become of that user.
JWTMiddleware == access # {}

-------------------------------------------------------------------------------
(* Login, Refresh, Logout.                                                 *)

Login(r, u, password) ==
  /\ At(r, "idle")
  /\ Admitted(users[u]) /\ users[u].password = password
  /\ Goes(r, [pc |-> "store", user |-> u, token |-> None])
  /\ UNCHANGED <<userVars, tokenVars, spendVars>>

\* GET.
Refresh(r, t) ==
  /\ At(r, "idle") /\ t \in Held /\ live[t] # None
  /\ Goes(r, [pc |-> "delete", user |-> live[t], token |-> t])
  /\ spent' = spent \cup {t}
  /\ excused' = IF \E q \in Request : At(q, "delete") /\ request[q].token = t
                THEN excused \cup {t} ELSE excused
  /\ UNCHANGED <<userVars, tokenVars, once, twice>>

\* Mutant of Without: the DEL is missing.
WithoutNone(t) == live

Without(t) == [live EXCEPT ![t] = None]

\* DEL, whose error is ignored.
DeleteOld(r) ==
  LET t == request[r].token IN
  /\ At(r, "delete")
  /\ \/ live' = Without(t) /\ UNCHANGED excused
     \/ excused' = excused \cup (Held \cap {t}) /\ UNCHANGED live
  /\ Goes(r, [request[r] EXCEPT !.pc = "find"])
  /\ UNCHANGED <<userVars, held, access, spent, once, twice>>

FindUser(r) ==
  /\ At(r, "find") /\ Admitted(users[request[r].user])
  /\ Goes(r, [request[r] EXCEPT !.pc = "store"])
  /\ UNCHANGED <<userVars, tokenVars, spendVars>>

\* A token that nothing remembers (generateRefreshToken's is new).
Fresh(t) ==
  /\ live[t] = None /\ t \notin Held
  /\ \A r \in Request : ~At(r, "idle") /\ ~At(r, "write") => request[r].token # t

\* Mutant of SetOutcomes: its error is ignored, like the one of DEL.
SetOutcomesIgnored == {[stored |-> s, answered |-> TRUE] : s \in BOOLEAN}

\* SET is done and answered, done but not answered, or not done.
SetOutcomes == {[stored |-> TRUE, answered |-> TRUE],
                [stored |-> TRUE, answered |-> FALSE]}

\* SET and the answer with both tokens.  (SET not done is Refuse.)
StoreToken(r, t, o) ==
  LET u == request[r].user
      old == request[r].token IN
  /\ At(r, "store") /\ Fresh(t)
  /\ live' = IF o.stored THEN [live EXCEPT ![t] = u] ELSE live
  /\ IF o.answered
     THEN /\ held' = [held EXCEPT ![t] = u] /\ access' = access \cup {u}
          /\ once' = once \cup (Held \cap {old})
          /\ twice' = twice \cup (once \cap {old})
     ELSE UNCHANGED <<held, access, once, twice>>
  /\ Goes(r, Idle)
  /\ UNCHANGED <<userVars, spent, excused>>

\* The answer is the same whether DEL fails or not.
Logout(t) ==
  /\ t \in Held /\ spent' = spent \cup {t}
  /\ \/ live' = Without(t) /\ UNCHANGED excused
     \/ excused' = excused \cup {t} /\ UNCHANGED live
  /\ UNCHANGED <<userVars, held, access, request, once, twice>>

\* refreshTokenTTL and accessTokenTTL.
RefreshExpires(t) ==
  /\ live[t] # None /\ live' = [live EXCEPT ![t] = None]
  /\ spent' = spent \cup (Held \cap {t})
  /\ UNCHANGED <<userVars, held, access, request, once, twice, excused>>

AccessExpires(u) ==
  /\ u \in access /\ access' = access \ {u}
  /\ UNCHANGED <<userVars, live, held, request, spendVars>>

\* A client throws a token away.
Forget(t) ==
  /\ t \in Held /\ held' = [held EXCEPT ![t] = None]
  /\ spent' = spent \ {t} /\ once' = once \ {t}
  /\ twice' = twice \ {t} /\ excused' = excused \ {t}
  /\ UNCHANGED <<userVars, live, access, request>>

-------------------------------------------------------------------------------
(* The handlers of users.                                                  *)

\* INSERT: the username must not be in use.
Insert(u, row) ==
  /\ \A v \in User : NameOf[v] = NameOf[u] => users[v] = NoRow
  /\ users' = [users EXCEPT ![u] = row]

CreateUser(u, row) ==
  /\ JWTMiddleware
  /\ u \notin born /\ born' = born \cup {u}
  /\ Insert(u, row) /\ wanted' = [wanted EXCEPT ![u] = row]
  /\ UNCHANGED <<mixed, tokenVars, request, spendVars>>

\* FindByID.
UpdateUser(r, u, patch) ==
  /\ At(r, "idle") /\ JWTMiddleware
  /\ Found(users[u])
  /\ Goes(r, [pc |-> "write", user |-> u, row |-> users[u], patch |-> patch])
  /\ mixed' = IF OtherUpdate(r, u) THEN mixed \cup {u} ELSE mixed
  /\ UNCHANGED <<users, born, wanted, tokenVars, spendVars>>

Patched(row, patch) ==
  [c \in DOMAIN row |-> IF c \in DOMAIN patch THEN patch[c] ELSE row[c]]

\* Mutant of Written: is_active is TRUE if the request does not say, as in Create.
WrittenActive(q) == Patched([q.row EXCEPT !.active = TRUE], q.patch)

\* What the UPDATE sets: every column, from the row that was read.
Written(q) == Patched(q.row, q.patch)

\* Mutant of UpdatedRows: a missing row is inserted.
UpdatedRowsUpsert(table, u, row) == [table EXCEPT ![u] = row]

\* UPDATE ... WHERE id=$6: no row, no change, and no error.
UpdatedRows(table, u, row) ==
  [table EXCEPT ![u] = IF table[u] = NoRow THEN NoRow ELSE row]

\* UPDATE, answered or not.  (UPDATE not done is Refuse.)
WriteUser(r) ==
  LET q == request[r] IN
  /\ At(r, "write")
  /\ users' = UpdatedRows(users, q.user, Written(q))
  /\ wanted' = [wanted EXCEPT ![q.user] =
                  IF @ = NoRow THEN NoRow
                  ELSE IF q.user \in mixed THEN users'[q.user]
                  ELSE Patched(@, q.patch)]
  /\ Goes(r, Idle)
  /\ mixed' = AfterUpdate(r)
  /\ UNCHANGED <<born, tokenVars, spendVars>>

\* DELETE, which is refused while node_definitions, jobs or executions refer to the
\* user.
RemoveRow(u) == users' = [users EXCEPT ![u] = NoRow]

DeleteUser(u) ==
  /\ JWTMiddleware
  /\ RemoveRow(u) /\ wanted' = [wanted EXCEPT ![u] = NoRow]
  /\ mixed' = mixed \ {u}
  /\ UNCHANGED <<born, tokenVars, request, spendVars>>

-------------------------------------------------------------------------------
RequestStep(r) ==
  \/ DeleteOld(r) \/ FindUser(r) \/ WriteUser(r) \/ Refuse(r)
  \/ \E t \in Token, o \in SetOutcomes : StoreToken(r, t, o)

TokenStep(t) == Logout(t) \/ RefreshExpires(t) \/ Forget(t)

Next ==
  \/ \E r \in Request :
       \/ RequestStep(r)
       \/ \E u \in User, p \in Password : Login(r, u, p)
       \/ \E t \in Token : Refresh(r, t)
       \/ \E u \in User, patch \in Patch : UpdateUser(r, u, patch)
  \/ \E t \in Token : TokenStep(t)
  \/ \E u \in User : DeleteUser(u) \/ AccessExpires(u)
                     \/ \E row \in Row : CreateUser(u, row)

Spec == Init /\ [][Next]_vars

-------------------------------------------------------------------------------
(* Properties.                                                             *)

\* Types, and usernames are unique although IDs are used once: a late UPDATE does
\* not bring a deleted user back beside a new one of the same name.
TypeOK ==
  /\ users \in [User -> Row \cup {NoRow}] /\ wanted \in [User -> Row \cup {NoRow}]
  /\ live \in [Token -> User \cup {None}] /\ held \in [Token -> User \cup {None}]
  /\ access \subseteq User /\ born \subseteq User /\ mixed \subseteq User
  /\ request \in [Request -> Requests]
  /\ \A s \in {spent, once, twice, excused} : s \subseteq Held
  /\ \A u, v \in User : users[u] # NoRow /\ users[v] # NoRow /\ NameOf[u] = NameOf[v]
                          => u = v

\* UpdateUser (user/handler.go) reads a row and writes every column of it back,
\* and the UPDATE has no condition but the ID.  A user nevertheless is what the
\* updates asked for, in their order, from the last on that overlapped another.
UpdatesHold == \A u \in User : users[u] = wanted[u]

\* A refresh token is rotated: it gives new tokens once (auth/handler.go, "Delete
\* old refresh token (rotation)"), unless two requests presented it at the same
\* time or the DEL failed, which Refresh does not look at.
RefreshedOnce == twice \subseteq excused

\* Between the steps of failing requests no session is lost: a refresh token that
\* a client was given, and that was neither presented nor expired, is still in
\* Redis, for the user whom the access token that came with it names.
HandedTokensWork ==
  \A t \in Held \ spent : live[t] = held[t]

Barred(u) == users[u] = NoRow \/ ~users[u].active

Out(u) ==
  /\ Barred(u) /\ u \notin access
  /\ \A r \in Request : At(r, "store") => request[r].user # u

\* An UPDATE of u that enables: the request asks for it, or it overlaps another
\* update of u and may write back a row that was read while u was enabled.
Enables(r, u) ==
  /\ At(r, "write") /\ request[r].user = u
  /\ \/ "active" \in DOMAIN request[r].patch /\ request[r].patch.active
     \/ u \in mixed

\* A user who is disabled or deleted and whose last access token has expired is
\* out: no refresh token and no request under way lets the user in, but one that
\* had found the user enabled.  A deleted user never comes back; a disabled one
\* does by an update that asks for it, and by any update that overlaps another of
\* that user, since UpdateUser writes every column.
DisabledStaysOut ==
  [][\A u \in born : Out(u) =>
       \/ Out(u)'
       \/ users[u] # NoRow /\ \E r \in Request : Enables(r, u) /\ request'[r] = Idle]_vars
===============================================================================
