---------------------------- MODULE SessionsProofs ----------------------------
(***************************************************************************)
(* Theorems about Sessions, for any users, tokens and requests.            *)
(***************************************************************************)
EXTENDS Sessions, TLAPS

\* The parts of the type invariant.
UserTypes ==
  /\ users \in [User -> Row \cup {NoRow}] /\ wanted \in [User -> Row \cup {NoRow}]
  /\ born \subseteq User /\ mixed \subseteq User
TokenTypes ==
  /\ live \in [Token -> User \cup {None}] /\ held \in [Token -> User \cup {None}]
  /\ access \subseteq User
RequestTypes == request \in [Request -> Requests]
Spends == \A s \in {spent, once, twice, excused} : s \subseteq Held
Names == \A u, v \in User : users[u] # NoRow /\ users[v] # NoRow /\ NameOf[u] = NameOf[v]
                              => u = v

LEMMA Parts == TypeOK <=> UserTypes /\ TokenTypes /\ RequestTypes /\ Spends /\ Names
BY DEF TypeOK, UserTypes, TokenTypes, RequestTypes, Spends, Names

\* What is in Requests, by pc.
LEMMA RequestFields ==
  ASSUME NEW q \in Requests
  PROVE  /\ q.pc \in {"idle", "delete", "find", "store", "write"}
         /\ q.pc # "idle" => q.user \in User
         /\ q.pc \in {"delete", "find"} => q.token \in Token
         /\ q.pc = "store" => q.token \in Token \cup {None}
         /\ q.pc = "write" => q.row \in Row /\ q.patch \in Patch
         /\ q.pc = "delete" => [q EXCEPT !.pc = "find"] \in Requests
         /\ q.pc = "find" => [q EXCEPT !.pc = "store"] \in Requests
         /\ q.pc = "delete" => [q EXCEPT !.pc = "find"].user = q.user
                               /\ [q EXCEPT !.pc = "find"].token = q.token
         /\ q.pc = "find" => [q EXCEPT !.pc = "store"].user = q.user
                             /\ [q EXCEPT !.pc = "store"].token = q.token
BY DEF Requests, Idle

LEMMA PatchedRow ==
  ASSUME NEW row \in Row, NEW patch \in Patch
  PROVE  Patched(row, patch) \in Row
BY PatchAssumption DEF Patched, Row

-------------------------------------------------------------------------------
(* The inductive invariant.                                                *)

Writes(r, u) == request[r].pc = "write" /\ request[r].user = u

\* A request has presented t, and is not answered yet.
Uses(r, t) == request[r].pc \in {"delete", "find", "store"} /\ request[r].token = t

\* The one update of u that is under way has read the row as it is.
Current(u) ==
  users[u] # NoRow =>
    \A r \in Request : Writes(r, u) =>
      request[r].row = users[u] /\ \A q \in Request : Writes(q, u) => q = r

UserInv ==
  /\ \A u \in User : users[u] # NoRow => u \in born
  /\ \A r \in Request, u \in User : Writes(r, u) => u \in born
  /\ UpdatesHold
  /\ \A u \in User \ mixed : Current(u)

\* A token that is not excused is presented by one request, is out of Redis from
\* its DEL on, and not presented again after the answer.
Rotated(t) ==
  /\ t \notin twice
  /\ \A r, q \in Request : Uses(r, t) /\ Uses(q, t) => r = q
  /\ \A r \in Request : Uses(r, t) => t \notin once
  /\ \A r \in Request : Uses(r, t) /\ request[r].pc # "delete" => live[t] = None
  /\ t \in once => live[t] = None

TokenInv ==
  /\ \A t \in Held \ excused : Rotated(t)
  /\ \A t \in Held, r \in Request : Uses(r, t) => t \in spent
  /\ HandedTokensWork

IInv == TypeOK /\ UserInv /\ TokenInv

LEMMA Whole ==
  ASSUME UserTypes', TokenTypes', RequestTypes', Spends', Names', UserInv', TokenInv'
  PROVE  IInv'
BY DEF IInv, TypeOK, UserTypes, TokenTypes, RequestTypes, Spends, Names

-------------------------------------------------------------------------------
(* What steps leave alone.                                                 *)

\* A step that starts no update keeps what is known of them.
LEMMA UserStable ==
  ASSUME UserInv, UNCHANGED userVars,
         \A r \in Request : request'[r].pc = "write" => request'[r] = request[r]
  PROVE  UserInv'
<1>1. \A r \in Request : \A u : Writes(r, u)' => Writes(r, u) /\ request'[r] = request[r]
  BY DEF Writes
<1>2. QED
  BY <1>1 DEF UserInv, UpdatesHold, Current, userVars

\* A step that presents no token keeps what is known of the tokens.
LEMMA TokenStable ==
  ASSUME TokenInv, UNCHANGED <<live, held, spendVars>>,
         \A r \in Request, t \in Token :
           Uses(r, t)' => /\ Uses(r, t)
                          /\ request'[r].pc # "delete" => request[r].pc # "delete"
  PROVE  TokenInv'
<1>1. Held' = Held /\ Held \subseteq Token
  BY DEF Held
<1>2. UNCHANGED <<spent, once, twice, excused, live, held>>
  BY DEF spendVars
<1>3. ASSUME NEW t \in Held \ excused PROVE Rotated(t)'
  BY <1>1, <1>2 DEF TokenInv, Rotated
<1>4. QED
  BY <1>1, <1>2, <1>3 DEF TokenInv, HandedTokensWork

\* One request goes on; the others do not.
LEMMA GoesOn ==
  ASSUME RequestTypes, NEW r \in Request, NEW q \in Requests, Goes(r, q)
  PROVE  /\ RequestTypes' /\ request'[r] = q
         /\ \A n \in Request : n # r => request'[n] = request[n]
BY DEF RequestTypes, Goes

\* An idle request has read nothing.
LEMMA IdleUses ==
  ASSUME NEW r, request[r] = Idle
  PROVE  \A x : ~Uses(r, x) /\ ~Writes(r, x)
BY DEF Idle, Uses, Writes

LEMMA InitInv == Init => IInv
<1> SUFFICES ASSUME Init PROVE IInv
  OBVIOUS
<1>1. UserTypes
  BY NameAssumption DEF Init, UserTypes
<1>2. TokenTypes /\ Held = {}
  BY DEF Init, TokenTypes, Held
<1>3. RequestTypes
  BY DEF Init, RequestTypes, Requests
<1>4. Spends
  BY DEF Init, Spends
<1>5. \A u \in User : users[u] # NoRow => u = first
  BY DEF Init
<1>6. \A r \in Request : \A x : ~Uses(r, x) /\ ~Writes(r, x)
  BY IdleUses DEF Init
<1>7. UserInv
  BY <1>5, <1>6 DEF Init, UserInv, UpdatesHold, Current
<1>8. TokenInv
  BY <1>2 DEF TokenInv, HandedTokensWork
<1>9. QED
  BY <1>1, <1>2, <1>3, <1>4, <1>5, <1>7, <1>8, Parts DEF IInv, Names
-------------------------------------------------------------------------------
(* Steps that change neither the table of users nor the tokens.            *)

\* The table of users and the types about it.
LEMMA UsersKept ==
  ASSUME UserTypes, Names, UNCHANGED userVars
  PROVE  UserTypes' /\ Names'
BY DEF UserTypes, Names, userVars

LEMMA TokensKept ==
  ASSUME TokenTypes, Spends, UNCHANGED <<tokenVars, spendVars>>
  PROVE  TokenTypes' /\ Spends'
BY DEF TokenTypes, Spends, Held, tokenVars, spendVars

LEMMA QuietInv ==
  ASSUME IInv, RequestTypes', UNCHANGED <<userVars, tokenVars, spendVars>>,
         \A r \in Request : request'[r].pc = "write" => request'[r] = request[r],
         \A r \in Request, t \in Token :
           Uses(r, t)' => /\ Uses(r, t)
                          /\ request'[r].pc # "delete" => request[r].pc # "delete"
  PROVE  IInv'
<1>1. UserTypes' /\ Names' /\ TokenTypes' /\ Spends'
  BY Parts, UsersKept, TokensKept DEF IInv
<1>2. UserInv'
  BY UserStable DEF IInv
<1>3. TokenInv'
  BY TokenStable DEF IInv, tokenVars
<1>4. QED
  BY <1>1, <1>2, <1>3, Whole

\* The update that request r makes, or fails to make, is over: if it was one of
\* two, the rows of the others are not what they read.
LEMMA UpdateOver ==
  ASSUME RequestTypes, UserTypes, UserInv, NEW r \in Request, request[r].pc # "idle",
         Goes(r, Idle), mixed' = AfterUpdate(r), born' = born,
         \A v \in User : users'[v] # NoRow => users[v] # NoRow,
         \A v \in User : Writes(r, v) \/ users'[v] = users[v],
         UpdatesHold'
  PROVE  UserInv' /\ mixed' \subseteq User
<1>1. \A n \in Request : \A v : Writes(n, v)' => n # r /\ Writes(n, v) /\ request'[n] = request[n]
  BY DEF Writes, Goes, RequestTypes, Idle
<1>2. mixed' \subseteq User
  BY DEF AfterUpdate, UserTypes
<1>3. ASSUME NEW v \in User \ mixed' PROVE Current(v)'
  <2>1. CASE Writes(r, v) /\ users'[v] # NoRow
    <3>1. \A n \in Request : n # r => ~Writes(n, v)
      <4>1. CASE v \in mixed
        <5>1. ~OtherUpdate(r, v)
          BY <1>3, <2>1, <4>1 DEF AfterUpdate, Writes, At
        <5>2. QED
          BY <5>1 DEF OtherUpdate, Writes, At
      <4>2. CASE v \notin mixed
        BY <1>3, <2>1, <4>2 DEF UserInv, Current
      <4>3. QED
        BY <4>1, <4>2
    <3>2. QED
      BY <1>1, <3>1 DEF Current
  <2>2. CASE users'[v] = NoRow
    BY <2>2 DEF Current
  <2>3. CASE ~Writes(r, v)
    <3>1. v \notin mixed /\ Current(v) /\ users'[v] = users[v]
      BY <1>3, <2>3 DEF AfterUpdate, UserInv, Writes, At
    <3>2. QED
      BY <1>1, <3>1 DEF Current
  <2>4. QED
    BY <2>1, <2>2, <2>3
<1>4. QED
  BY <1>1, <1>2, <1>3 DEF UserInv

LEMMA RefuseInv ==
  ASSUME IInv, NEW r \in Request, Refuse(r)
  PROVE  IInv'
<1>1. /\ request[r].pc # "idle" /\ Goes(r, Idle) /\ mixed' = AfterUpdate(r)
      /\ UNCHANGED <<users, born, wanted, tokenVars, spendVars>>
  BY DEF Refuse, At
<1>2. UserTypes /\ TokenTypes /\ RequestTypes /\ Spends /\ Names /\ Idle \in Requests
  BY Parts DEF IInv, Requests
<1>3. /\ RequestTypes' /\ request'[r] = Idle
      /\ \A n \in Request : n # r => request'[n] = request[n]
  BY <1>1, <1>2, GoesOn
<1>4. UserInv' /\ mixed' \subseteq User
  BY <1>1, <1>2, UpdateOver DEF IInv, UserInv, UpdatesHold
<1>5. UserTypes' /\ Names' /\ TokenTypes' /\ Spends'
  BY <1>1, <1>2, <1>4, TokensKept DEF UserTypes, Names
<1>6. TokenInv'
  <2>1. \A n \in Request, x \in Token : Uses(n, x)' => Uses(n, x) /\ request'[n] = request[n]
    BY <1>3 DEF Uses, Idle
  <2>2. QED
    BY <1>1, <2>1, TokenStable DEF IInv, tokenVars
<1>7. QED
  BY <1>3, <1>4, <1>5, <1>6, Whole

LEMMA LoginInv ==
  ASSUME IInv, NEW r \in Request, NEW u \in User, NEW password, Login(r, u, password)
  PROVE  IInv'
<1> DEFINE new == [pc |-> "store", user |-> u, token |-> None]
<1>1. Goes(r, new) /\ new \in Requests /\ RequestTypes
  BY Parts DEF Login, Requests, IInv
<1>2. /\ RequestTypes' /\ request'[r] = new
      /\ \A n \in Request : n # r => request'[n] = request[n]
  BY <1>1, GoesOn
<1>3. \A t \in Token : Uses(r, t)' => FALSE
  BY <1>2, NoneAssumption DEF Uses
<1>4. QED
  BY <1>2, <1>3, QuietInv DEF Login, Uses

LEMMA FindUserInv ==
  ASSUME IInv, NEW r \in Request, FindUser(r)
  PROVE  IInv'
<1> DEFINE new == [request[r] EXCEPT !.pc = "store"]
<1>1. RequestTypes /\ request[r] \in Requests /\ request[r].pc = "find" /\ Goes(r, new)
  BY Parts DEF FindUser, At, IInv, RequestTypes
<1>2. new \in Requests /\ new.token = request[r].token
  BY <1>1, RequestFields
<1>3. new.pc = "store"
  BY <1>1 DEF Requests, Idle
<1> HIDE DEF new
<1>4. /\ RequestTypes' /\ request'[r] = new
      /\ \A n \in Request : n # r => request'[n] = request[n]
  BY <1>1, <1>2, GoesOn
<1>5. QED
  BY <1>1, <1>2, <1>3, <1>4, QuietInv DEF FindUser, Uses

LEMMA AccessExpiresInv ==
  ASSUME IInv, NEW u \in User, AccessExpires(u)
  PROVE  IInv'
<1>1. UNCHANGED <<userVars, live, held, request, spendVars>> /\ access' \subseteq access
  BY DEF AccessExpires
<1>2. TokenTypes' /\ Spends' /\ RequestTypes'
  BY <1>1, Parts DEF IInv, TokenTypes, Spends, Held, spendVars, RequestTypes
<1>3. UserTypes' /\ Names'
  BY <1>1, Parts, UsersKept DEF IInv
<1>4. UserInv'
  BY <1>1, UserStable DEF IInv
<1>5. TokenInv'
  BY <1>1, TokenStable DEF IInv, Uses
<1>6. QED
  BY <1>2, <1>3, <1>4, <1>5, Whole

-------------------------------------------------------------------------------
(* Steps about tokens.                                                     *)

LEMMA RefreshInv ==
  ASSUME IInv, NEW r \in Request, NEW t \in Token, Refresh(r, t)
  PROVE  IInv'
<1> DEFINE new == [pc |-> "delete", user |-> live[t], token |-> t]
<1>1. /\ t \in Held /\ live[t] # None /\ Goes(r, new) /\ At(r, "idle")
      /\ spent' = spent \cup {t} /\ UNCHANGED <<userVars, tokenVars, once, twice>>
      /\ excused' = IF \E q \in Request : At(q, "delete") /\ request[q].token = t
                    THEN excused \cup {t} ELSE excused
  BY DEF Refresh
<1>2. UserTypes /\ TokenTypes /\ RequestTypes /\ Spends /\ Names
  BY Parts DEF IInv
<1>3. live[t] \in User
  BY <1>1, <1>2 DEF TokenTypes
<1>4. new \in Requests
  BY <1>3 DEF Requests
<1>5. /\ RequestTypes' /\ request'[r] = new
      /\ \A n \in Request : n # r => request'[n] = request[n]
  BY <1>1, <1>2, <1>4, GoesOn
<1>6. UNCHANGED <<live, held, access>> /\ Held' = Held /\ Held \subseteq Token
  BY <1>1 DEF tokenVars, Held
<1>7. UserTypes' /\ Names' /\ TokenTypes' /\ Spends'
  <2>1. Spends'
    BY <1>1, <1>2, <1>6 DEF Spends
  <2>2. QED
    BY <1>1, <1>2, <1>6, <2>1, UsersKept DEF TokenTypes
<1>8. UserInv'
  BY <1>1, <1>5, UserStable DEF IInv
<1>9. TokenInv'
  <2>1. \A n \in Request, x \in Token : n # r \/ x # t => (Uses(n, x)' => Uses(n, x))
    BY <1>5 DEF Uses
  <2>2. \A n \in Request : n # r => (request'[n].pc = request[n].pc)
    BY <1>5
  <2>3. ASSUME NEW x \in Held \ excused' PROVE Rotated(x)'
    <3>1. Rotated(x)
      BY <1>1, <2>3 DEF IInv, TokenInv
    <3>2. CASE x # t
      <4>1. \A n \in Request : Uses(n, x)' => Uses(n, x) /\ n # r
        BY <1>5, <1>6, <2>1, <2>3, <3>2 DEF Uses
      <4>2. QED
        BY <1>1, <1>6, <2>2, <3>1, <4>1 DEF Rotated
    <3>3. CASE x = t
      <4>1. \A n \in Request : ~(At(n, "delete") /\ request[n].token = t)
        BY <1>1, <2>3, <3>3
      <4>2. \A n \in Request : ~Uses(n, t)
        BY <1>1, <3>1, <3>3, <4>1 DEF Rotated, Uses, At
      <4>3. \A n \in Request : Uses(n, t)' => n = r
        BY <1>5, <4>2 DEF Uses
      <4>4. t \notin once /\ t \notin twice
        BY <1>1, <3>1, <3>3 DEF Rotated
      <4>5. request'[r].pc = "delete"
        BY <1>5
      <4>6. QED
        BY <1>1, <3>3, <4>3, <4>4, <4>5 DEF Rotated
    <3>4. QED
      BY <3>2, <3>3
  <2>4. ASSUME NEW x \in Held, NEW n \in Request, Uses(n, x)' PROVE x \in spent'
    BY <1>1, <1>6, <2>1, <2>4 DEF IInv, TokenInv
  <2>5. HandedTokensWork'
    BY <1>1, <1>6 DEF IInv, TokenInv, HandedTokensWork
  <2>6. QED
    BY <1>6, <2>3, <2>4, <2>5 DEF TokenInv
<1>10. QED
  BY <1>5, <1>7, <1>8, <1>9, Whole
\* Tokens go out of Redis, and requests and clients are through with them.
LEMMA Dropped ==
  ASSUME TokenInv, UNCHANGED <<held, once, twice>>,
         spent \subseteq spent', excused \subseteq excused',
         \A x \in Held : live'[x] = live[x] \/ (live'[x] = None /\ x \in spent'),
         \A n \in Request, x \in Token :
           Uses(n, x)' =>
             /\ Uses(n, x)
             /\ \/ request'[n].pc = "delete" \/ request[n].pc # "delete"
                \/ live'[x] = None \/ x \in excused' \/ x \notin Held
  PROVE  TokenInv'
<1>1. Held' = Held /\ Held \subseteq Token
  BY DEF Held
<1>2. ASSUME NEW x \in Held \ excused' PROVE Rotated(x)'
  <2>1. Rotated(x) /\ (live[x] = None => live'[x] = None)
    BY <1>2 DEF TokenInv
  <2>2. QED
    BY <1>1, <1>2, <2>1 DEF Rotated
<1>3. QED
  BY <1>1, <1>2 DEF TokenInv, HandedTokensWork

LEMMA WithoutType ==
  ASSUME TokenTypes, NEW t \in Token, live' = Without(t), UNCHANGED <<held, access>>
  PROVE  /\ TokenTypes' /\ live'[t] = None
         /\ \A x \in Token : x # t => live'[x] = live[x]
BY DEF TokenTypes, Without

LEMMA DeleteOldInv ==
  ASSUME IInv, NEW r \in Request, DeleteOld(r)
  PROVE  IInv'
<1> DEFINE t == request[r].token
           new == [request[r] EXCEPT !.pc = "find"]
<1>1. /\ request[r].pc = "delete" /\ Goes(r, new)
      /\ UNCHANGED <<userVars, held, access, spent, once, twice>>
      /\ \/ live' = Without(t) /\ UNCHANGED excused
         \/ excused' = excused \cup (Held \cap {t}) /\ UNCHANGED live
  BY DEF DeleteOld, At
<1>2. UserTypes /\ TokenTypes /\ RequestTypes /\ Spends /\ Names /\ request[r] \in Requests
  BY Parts DEF IInv, RequestTypes
<1>3. new \in Requests /\ new.token = t /\ t \in Token
  BY <1>1, <1>2, RequestFields
<1>4. new.pc = "find"
  BY <1>1, <1>2 DEF Requests, Idle
<1> HIDE DEF new
<1>5. /\ RequestTypes' /\ request'[r] = new
      /\ \A n \in Request : n # r => request'[n] = request[n]
  BY <1>1, <1>2, <1>3, GoesOn
<1>6. TokenTypes' /\ Held' = Held /\ Held \subseteq Token
  BY <1>1, <1>2, <1>3, WithoutType DEF Held, TokenTypes
<1>7. Spends'
  BY <1>1, <1>2, <1>6 DEF Spends
<1>8. UserTypes' /\ Names' /\ UserInv'
  BY <1>1, <1>2, <1>4, <1>5, UsersKept, UserStable DEF IInv
<1>9. TokenInv'
  <2>1. Uses(r, t)
    BY <1>1 DEF Uses
  <2>2. t \in Held => t \in spent
    BY <1>1, <2>1 DEF IInv, TokenInv
  <2>3. \A x \in Held : live'[x] = live[x] \/ (live'[x] = None /\ x \in spent')
    BY <1>1, <1>2, <1>3, <1>6, <2>2, WithoutType
  <2>4. live'[t] = None \/ t \in excused' \/ t \notin Held
    BY <1>1, <1>2, <1>3, WithoutType
  <2>5. \A n \in Request, x \in Token :
           Uses(n, x)' =>
             /\ Uses(n, x)
             /\ \/ request'[n].pc = "delete" \/ request[n].pc # "delete"
                \/ live'[x] = None \/ x \in excused' \/ x \notin Held
    BY <1>1, <1>3, <1>4, <1>5, <2>4 DEF Uses
  <2>6. UNCHANGED <<held, once, twice>> /\ spent \subseteq spent' /\ excused \subseteq excused'
    BY <1>1
  <2>7. QED
    BY <2>3, <2>5, <2>6, Dropped DEF IInv
<1>10. QED
  BY <1>5, <1>6, <1>7, <1>8, <1>9, Whole

LEMMA LogoutInv ==
  ASSUME IInv, NEW t \in Token, Logout(t)
  PROVE  IInv'
<1>1. /\ t \in Held /\ spent' = spent \cup {t}
      /\ UNCHANGED <<userVars, held, access, request, once, twice>>
      /\ \/ live' = Without(t) /\ UNCHANGED excused
         \/ excused' = excused \cup {t} /\ UNCHANGED live
  BY DEF Logout
<1>2. UserTypes /\ TokenTypes /\ RequestTypes /\ Spends /\ Names
  BY Parts DEF IInv
<1>3. TokenTypes' /\ Held' = Held /\ Held \subseteq Token
  BY <1>1, <1>2, WithoutType DEF Held, TokenTypes
<1>4. Spends' /\ RequestTypes'
  BY <1>1, <1>2, <1>3 DEF Spends, RequestTypes
<1>5. UserTypes' /\ Names' /\ UserInv'
  BY <1>1, <1>2, UsersKept, UserStable DEF IInv
<1>6. TokenInv'
  <2>1. \A x \in Held : live'[x] = live[x] \/ (live'[x] = None /\ x \in spent')
    BY <1>1, <1>2, <1>3, WithoutType
  <2>2. \A n \in Request, x \in Token : Uses(n, x)' => Uses(n, x) /\ request'[n] = request[n]
    BY <1>1 DEF Uses
  <2>3. UNCHANGED <<held, once, twice>> /\ spent \subseteq spent' /\ excused \subseteq excused'
    BY <1>1
  <2>4. QED
    BY <2>1, <2>2, <2>3, Dropped DEF IInv
<1>7. QED
  BY <1>3, <1>4, <1>5, <1>6, Whole

LEMMA RefreshExpiresInv ==
  ASSUME IInv, NEW t \in Token, RefreshExpires(t)
  PROVE  IInv'
<1>1. /\ live' = Without(t) /\ spent' = spent \cup (Held \cap {t})
      /\ UNCHANGED <<userVars, held, access, request, once, twice, excused>>
  BY DEF RefreshExpires, Without
<1>2. UserTypes /\ TokenTypes /\ RequestTypes /\ Spends /\ Names
  BY Parts DEF IInv
<1>3. TokenTypes' /\ Held' = Held /\ Held \subseteq Token
  BY <1>1, <1>2, WithoutType DEF Held, TokenTypes
<1>4. Spends' /\ RequestTypes'
  BY <1>1, <1>2, <1>3 DEF Spends, RequestTypes
<1>5. UserTypes' /\ Names' /\ UserInv'
  BY <1>1, <1>2, UsersKept, UserStable DEF IInv
<1>6. TokenInv'
  <2>1. \A x \in Held : live'[x] = live[x] \/ (live'[x] = None /\ x \in spent')
    BY <1>1, <1>2, <1>3, WithoutType
  <2>2. \A n \in Request, x \in Token : Uses(n, x)' => Uses(n, x) /\ request'[n] = request[n]
    BY <1>1 DEF Uses
  <2>3. UNCHANGED <<held, once, twice>> /\ spent \subseteq spent' /\ excused \subseteq excused'
    BY <1>1
  <2>4. QED
    BY <2>1, <2>2, <2>3, Dropped DEF IInv
<1>7. QED
  BY <1>3, <1>4, <1>5, <1>6, Whole

LEMMA ForgetInv ==
  ASSUME IInv, NEW t \in Token, Forget(t)
  PROVE  IInv'
<1>1. /\ t \in Held /\ held' = [held EXCEPT ![t] = None]
      /\ spent' = spent \ {t} /\ once' = once \ {t}
      /\ twice' = twice \ {t} /\ excused' = excused \ {t}
      /\ UNCHANGED <<userVars, live, access, request>>
  BY DEF Forget
<1>2. UserTypes /\ TokenTypes /\ RequestTypes /\ Spends /\ Names
  BY Parts DEF IInv
<1>3. /\ TokenTypes' /\ Held' = Held \ {t} /\ Held \subseteq Token
      /\ \A x \in Held' : held'[x] = held[x]
  BY <1>1, <1>2 DEF Held, TokenTypes
<1>4. Spends' /\ RequestTypes'
  BY <1>1, <1>2, <1>3 DEF Spends, RequestTypes
<1>5. UserTypes' /\ Names' /\ UserInv'
  BY <1>1, <1>2, UsersKept, UserStable DEF IInv
<1>6. TokenInv'
  <2>1. ASSUME NEW x \in Held' \ excused' PROVE Rotated(x)'
    <3>1. x # t /\ Rotated(x)
      BY <1>1, <1>3, <2>1 DEF IInv, TokenInv
    <3>2. QED
      BY <1>1, <3>1 DEF Rotated, Uses
  <2>2. \A x \in Held', n \in Request : Uses(n, x)' => x \in spent'
    BY <1>1, <1>3 DEF IInv, TokenInv, Uses
  <2>3. HandedTokensWork'
    BY <1>1, <1>3 DEF IInv, TokenInv, HandedTokensWork
  <2>4. QED
    BY <2>1, <2>2, <2>3 DEF TokenInv
<1>7. QED
  BY <1>3, <1>4, <1>5, <1>6, Whole
\* The new token is nobody's yet; the old one has done its work.
LEMMA StoreTokenInv ==
  ASSUME IInv, NEW r \in Request, NEW t \in Token, NEW o \in SetOutcomes,
         StoreToken(r, t, o)
  PROVE  IInv'
<1> DEFINE u == request[r].user
           old == request[r].token
<1>1. /\ request[r].pc = "store" /\ Fresh(t) /\ Goes(r, Idle)
      /\ UNCHANGED <<userVars, spent, excused>>
      /\ live' = IF o.stored THEN [live EXCEPT ![t] = u] ELSE live
      /\ IF o.answered
         THEN /\ held' = [held EXCEPT ![t] = u] /\ access' = access \cup {u}
              /\ once' = once \cup (Held \cap {old})
              /\ twice' = twice \cup (once \cap {old})
         ELSE UNCHANGED <<held, access, once, twice>>
  BY DEF StoreToken, At
<1>2. UserTypes /\ TokenTypes /\ RequestTypes /\ Spends /\ Names /\ request[r] \in Requests
  BY Parts DEF IInv, RequestTypes
<1>3. u \in User /\ old \in Token \cup {None} /\ Idle \in Requests
  BY <1>1, <1>2, RequestFields DEF Requests
<1>4. /\ RequestTypes' /\ request'[r] = Idle
      /\ \A n \in Request : n # r => request'[n] = request[n]
  BY <1>1, <1>2, <1>3, GoesOn
<1>5. t \notin Held /\ t # old /\ \A n \in Request : ~Uses(n, t)
  BY <1>1 DEF Fresh, Uses, At, Held
<1>6. o.stored = TRUE /\ (o.answered = TRUE \/ o.answered = FALSE)
  BY DEF SetOutcomes
<1>7. live' = [live EXCEPT ![t] = u] /\ Held \subseteq Token /\ u # None
  BY <1>1, <1>3, <1>6, NoneAssumption DEF Held
<1>8. /\ TokenTypes'
      /\ \A x \in Token : x # t => live'[x] = live[x] /\ held'[x] = held[x]
      /\ \/ Held' = Held \cup {t} /\ live'[t] = held'[t] /\ o.answered
         \/ Held' = Held /\ ~o.answered
  <2>1. CASE o.answered
    BY <1>1, <1>2, <1>3, <1>7, <2>1 DEF TokenTypes, Held
  <2>2. CASE ~o.answered
    BY <1>1, <1>2, <1>3, <1>7, <2>2 DEF TokenTypes, Held
  <2>3. QED
    BY <2>1, <2>2
<1>9. /\ once \subseteq once' /\ once' \subseteq once \cup (Held \cap {old})
      /\ twice \subseteq twice' /\ twice' \subseteq twice \cup (once \cap {old})
      /\ o.answered \/ (once' = once /\ twice' = twice)
  BY <1>1
<1>10. Spends'
  BY <1>1, <1>2, <1>8, <1>9 DEF Spends
<1>11. UserTypes' /\ Names' /\ UserInv'
  BY <1>1, <1>2, <1>4, UsersKept, UserStable DEF IInv, Idle
<1>12. \A n \in Request : \A x : Uses(n, x)' => n # r /\ Uses(n, x) /\ request'[n] = request[n]
  BY <1>4 DEF Uses, Idle
<1>13. TokenInv'
  <2>1. ASSUME NEW x \in Held' \ excused' PROVE Rotated(x)'
    <3>1. CASE x = t
      <4>1. t \notin once' /\ t \notin twice'
        BY <1>2, <1>5, <1>9 DEF Spends
      <4>2. \A n \in Request : ~Uses(n, t)'
        BY <1>5, <1>12
      <4>3. QED
        BY <3>1, <4>1, <4>2 DEF Rotated
    <3>2. CASE x # t
      <4>1. x \in Held \ excused /\ Rotated(x) /\ live'[x] = live[x] /\ x \in Token
        BY <1>1, <1>7, <1>8, <2>1, <3>2 DEF IInv, TokenInv
      <4>2. CASE x # old
        <5>1. (x \in once' <=> x \in once) /\ (x \in twice' <=> x \in twice)
          BY <1>9, <4>2
        <5>2. QED
          BY <1>12, <4>1, <5>1 DEF Rotated
      <4>3. CASE x = old
        <5>1. Uses(r, x)
          BY <1>1, <4>3 DEF Uses
        <5>2. \A n \in Request : ~Uses(n, x)'
          BY <1>12, <4>1, <5>1 DEF Rotated
        <5>3. x \notin once /\ x \notin twice /\ live[x] = None
          BY <1>1, <4>1, <5>1 DEF Rotated
        <5>4. x \notin twice'
          BY <1>9, <5>3
        <5>5. QED
          BY <4>1, <5>2, <5>3, <5>4 DEF Rotated
      <4>4. QED
        BY <4>2, <4>3
    <3>3. QED
      BY <3>1, <3>2
  <2>2. ASSUME NEW x \in Held', NEW n \in Request, Uses(n, x)' PROVE x \in spent'
    <3>1. Uses(n, x) /\ x # t
      BY <1>5, <1>12, <2>2
    <3>2. QED
      BY <1>1, <1>8, <2>2, <3>1 DEF IInv, TokenInv
  <2>3. ASSUME NEW x \in Held' \ spent' PROVE live'[x] = held'[x]
    <3>1. CASE x = t
      BY <1>5, <1>8, <2>3, <3>1
    <3>2. CASE x # t
      <4>1. x \in Held \ spent /\ x \in Token
        BY <1>1, <1>7, <1>8, <2>3, <3>2
      <4>2. QED
        BY <1>8, <3>2, <4>1 DEF IInv, TokenInv, HandedTokensWork
    <3>3. QED
      BY <3>1, <3>2
  <2>4. QED
    BY <2>1, <2>2, <2>3 DEF TokenInv, HandedTokensWork
<1>14. QED
  BY <1>4, <1>8, <1>10, <1>11, <1>13, Whole

-------------------------------------------------------------------------------
(* Steps about users.                                                      *)

LEMMA CreateUserInv ==
  ASSUME IInv, NEW u \in User, NEW new \in Row, CreateUser(u, new)
  PROVE  IInv'
<1>1. /\ u \notin born /\ born' = born \cup {u}
      /\ \A v \in User : NameOf[v] = NameOf[u] => users[v] = NoRow
      /\ users' = [users EXCEPT ![u] = new] /\ wanted' = [wanted EXCEPT ![u] = new]
      /\ UNCHANGED <<mixed, tokenVars, request, spendVars>>
  BY DEF CreateUser, Insert
<1>2. UserTypes /\ TokenTypes /\ RequestTypes /\ Spends /\ Names
  BY Parts DEF IInv
<1>3. /\ UserTypes' /\ users'[u] = new /\ wanted'[u] = new
      /\ \A v \in User : v # u => users'[v] = users[v] /\ wanted'[v] = wanted[v]
  BY <1>1, <1>2 DEF UserTypes
<1>4. Names'
  BY <1>1, <1>2, <1>3 DEF Names
<1>5. TokenTypes' /\ Spends' /\ RequestTypes'
  BY <1>1, <1>2, TokensKept DEF RequestTypes
<1>6. UserInv'
  <2>1. \A r \in Request, v \in User : Writes(r, v)' => Writes(r, v) /\ v # u
    BY <1>1 DEF IInv, UserInv, Writes
  <2>2. ASSUME NEW v \in User \ mixed' PROVE Current(v)'
    <3>1. CASE v = u
      BY <1>3, <2>1, <3>1 DEF Current
    <3>2. CASE v # u
      BY <1>1, <1>3, <2>1, <2>2, <3>2 DEF IInv, UserInv, Current
    <3>3. QED
      BY <3>1, <3>2
  <2>3. UpdatesHold'
    BY <1>3 DEF IInv, UserInv, UpdatesHold
  <2>4. QED
    BY <1>1, <1>3, <2>1, <2>2, <2>3 DEF IInv, UserInv
<1>7. TokenInv'
  BY <1>1, TokenStable DEF IInv, tokenVars, Uses
<1>8. QED
  BY <1>3, <1>4, <1>5, <1>6, <1>7, Whole

LEMMA UpdateUserInv ==
  ASSUME IInv, NEW r \in Request, NEW u \in User, NEW patch \in Patch,
         UpdateUser(r, u, patch)
  PROVE  IInv'
<1> DEFINE new == [pc |-> "write", user |-> u, row |-> users[u], patch |-> patch]
<1>1. /\ users[u] # NoRow /\ Goes(r, new)
      /\ mixed' = IF OtherUpdate(r, u) THEN mixed \cup {u} ELSE mixed
      /\ At(r, "idle")
      /\ UNCHANGED <<users, born, wanted, tokenVars, spendVars>>
  BY DEF UpdateUser, Found
<1>2. UserTypes /\ TokenTypes /\ RequestTypes /\ Spends /\ Names
  BY Parts DEF IInv
<1>3. users[u] \in Row
  BY <1>1, <1>2 DEF UserTypes
<1>4. new \in Requests
  BY <1>3 DEF Requests
<1>5. /\ RequestTypes' /\ request'[r] = new
      /\ \A n \in Request : n # r => request'[n] = request[n]
  BY <1>1, <1>2, <1>4, GoesOn
<1>6. UserTypes' /\ Names' /\ TokenTypes' /\ Spends'
  BY <1>1, <1>2, TokensKept DEF UserTypes, Names
<1>7. /\ Writes(r, u)' /\ request'[r].row = users[u] /\ \A v : v # u => ~Writes(r, v)'
      /\ \A n \in Request : \A v : n # r => (Writes(n, v)' <=> Writes(n, v))
  BY <1>5 DEF Writes
<1>8. UserInv'
  <2>1. ASSUME NEW v \in User \ mixed' PROVE Current(v)'
    <3>1. v \notin mixed /\ Current(v)
      BY <1>1, <2>1 DEF IInv, UserInv
    <3>2. CASE v = u
      <4>1. \A n \in Request : ~Writes(n, u)
        BY <1>1, <2>1, <3>2 DEF OtherUpdate, Writes, At
      <4>2. \A n \in Request : Writes(n, u)' => n = r
        BY <1>7, <4>1
      <4>3. QED
        BY <1>1, <1>7, <3>2, <4>2 DEF Current
    <3>3. CASE v # u
      BY <1>1, <1>5, <1>7, <3>1, <3>3 DEF Current
    <3>4. QED
      BY <3>2, <3>3
  <2>2. \A n \in Request, v \in User : Writes(n, v)' => v \in born
    BY <1>1, <1>7 DEF IInv, UserInv
  <2>3. QED
    BY <1>1, <2>1, <2>2 DEF IInv, UserInv, UpdatesHold
<1>9. TokenInv'
  <2>1. \A n \in Request, x \in Token : Uses(n, x)' => Uses(n, x) /\ request'[n] = request[n]
    BY <1>5 DEF Uses
  <2>2. QED
    BY <1>1, <2>1, TokenStable DEF IInv, tokenVars
<1>10. QED
  BY <1>5, <1>6, <1>8, <1>9, Whole

LEMMA WriteUserInv ==
  ASSUME IInv, NEW r \in Request, WriteUser(r)
  PROVE  IInv'
<1> DEFINE q == request[r]
           u == q.user
           new == Patched(q.row, q.patch)
<1>1. /\ q.pc = "write" /\ Goes(r, Idle)
      /\ users' = [users EXCEPT ![u] = IF users[u] = NoRow THEN NoRow ELSE new]
      /\ wanted' = [wanted EXCEPT ![u] =
                      IF wanted[u] = NoRow THEN NoRow
                      ELSE IF u \in mixed THEN users'[u] ELSE Patched(wanted[u], q.patch)]
      /\ mixed' = AfterUpdate(r)
      /\ UNCHANGED <<born, tokenVars, spendVars>>
  BY DEF WriteUser, UpdatedRows, Written, At
<1>2. UserTypes /\ TokenTypes /\ RequestTypes /\ Spends /\ Names /\ q \in Requests
  BY Parts DEF IInv, RequestTypes
<1>3. u \in User /\ q.row \in Row /\ q.patch \in Patch /\ Idle \in Requests
  BY <1>1, <1>2, RequestFields DEF Requests
<1>4. new \in Row /\ (wanted[u] # NoRow => Patched(wanted[u], q.patch) \in Row)
  BY <1>2, <1>3, PatchedRow DEF UserTypes
<1> HIDE DEF new
<1>5. /\ RequestTypes' /\ request'[r] = Idle
      /\ \A n \in Request : n # r => request'[n] = request[n]
  BY <1>1, <1>2, <1>3, GoesOn
<1>6. /\ users'[u] = IF users[u] = NoRow THEN NoRow ELSE new
      /\ \A v \in User : v # u => users'[v] = users[v] /\ wanted'[v] = wanted[v]
      /\ users' \in [User -> Row \cup {NoRow}]
  BY <1>1, <1>2, <1>3, <1>4 DEF UserTypes
<1>7. /\ wanted' \in [User -> Row \cup {NoRow}]
      /\ wanted'[u] = IF wanted[u] = NoRow THEN NoRow
                      ELSE IF u \in mixed THEN users'[u] ELSE Patched(wanted[u], q.patch)
  BY <1>1, <1>2, <1>3, <1>4, <1>6 DEF UserTypes
<1>9. \A v \in User : users'[v] # NoRow => users[v] # NoRow
  BY <1>6
<1>10. Names'
  BY <1>2, <1>9 DEF Names
<1>11. TokenTypes' /\ Spends'
  BY <1>1, <1>2, TokensKept
<1>12. UpdatesHold'
  <2>1. ASSUME NEW v \in User PROVE users'[v] = wanted'[v]
    <3>1. users[v] = wanted[v] /\ (v \notin mixed => Current(v))
      BY DEF IInv, UserInv, UpdatesHold
    <3>2. CASE v # u
      BY <1>6, <3>1, <3>2
    <3>3. CASE v = u /\ (users[u] = NoRow \/ u \in mixed)
      BY <1>6, <1>7, <3>1, <3>3
    <3>4. CASE v = u /\ users[u] # NoRow /\ u \notin mixed
      <4>1. Writes(r, u)
        BY <1>1 DEF Writes
      <4>2. q.row = users[u]
        BY <3>1, <3>4, <4>1 DEF Current
      <4>3. new = Patched(wanted[u], q.patch)
        BY <3>1, <3>4, <4>2 DEF new
      <4>4. QED
        BY <1>6, <1>7, <3>1, <3>4, <4>3
    <3>5. QED
      BY <3>2, <3>3, <3>4
  <2>2. QED
    BY <2>1 DEF UpdatesHold
<1>13. UserInv' /\ UserTypes'
  <2>1. \A v \in User : Writes(r, v) \/ users'[v] = users[v]
    BY <1>1, <1>6 DEF Writes
  <2>2. UserInv' /\ mixed' \subseteq User
    BY <1>1, <1>2, <1>9, <1>12, <2>1, UpdateOver DEF IInv
  <2>3. QED
    BY <1>1, <1>2, <1>6, <1>7, <2>2 DEF UserTypes
<1>14. TokenInv'
  <2>1. \A n \in Request, x \in Token : Uses(n, x)' => Uses(n, x) /\ request'[n] = request[n]
    BY <1>5 DEF Uses, Idle
  <2>2. QED
    BY <1>1, <2>1, TokenStable DEF IInv, tokenVars
<1>15. QED
  BY <1>5, <1>10, <1>11, <1>13, <1>14, Whole

LEMMA DeleteUserInv ==
  ASSUME IInv, NEW u \in User, DeleteUser(u)
  PROVE  IInv'
<1>1. /\ users' = [users EXCEPT ![u] = NoRow] /\ wanted' = [wanted EXCEPT ![u] = NoRow]
      /\ mixed' = mixed \ {u}
      /\ UNCHANGED <<born, tokenVars, request, spendVars>>
  BY DEF DeleteUser, RemoveRow
<1>2. UserTypes /\ TokenTypes /\ RequestTypes /\ Spends /\ Names
  BY Parts DEF IInv
<1>3. /\ UserTypes' /\ users'[u] = NoRow /\ wanted'[u] = NoRow
      /\ \A v \in User : v # u => users'[v] = users[v] /\ wanted'[v] = wanted[v]
  BY <1>1, <1>2 DEF UserTypes
<1>4. Names'
  BY <1>2, <1>3 DEF Names
<1>5. TokenTypes' /\ Spends' /\ RequestTypes'
  BY <1>1, <1>2, TokensKept DEF RequestTypes
<1>6. UserInv'
  <2>1. \A r \in Request : \A v : Writes(r, v)' <=> Writes(r, v)
    BY <1>1 DEF Writes
  <2>2. ASSUME NEW v \in User \ mixed' PROVE Current(v)'
    <3>1. CASE v = u
      BY <1>3, <3>1 DEF Current
    <3>2. CASE v # u
      BY <1>1, <1>3, <2>1, <2>2, <3>2 DEF IInv, UserInv, Current
    <3>3. QED
      BY <3>1, <3>2
  <2>3. UpdatesHold'
    BY <1>3 DEF IInv, UserInv, UpdatesHold
  <2>4. QED
    BY <1>1, <1>3, <2>1, <2>2, <2>3 DEF IInv, UserInv
<1>7. TokenInv'
  BY <1>1, TokenStable DEF IInv, tokenVars, Uses
<1>8. QED
  BY <1>3, <1>4, <1>5, <1>6, <1>7, Whole

-------------------------------------------------------------------------------
LEMMA NextInv == IInv /\ [Next]_vars => IInv'
<1> SUFFICES ASSUME IInv, [Next]_vars PROVE IInv'
  OBVIOUS
<1>1. ASSUME NEW r \in Request, RequestStep(r) PROVE IInv'
  <2>1. ASSUME NEW t \in Token, NEW o \in SetOutcomes, StoreToken(r, t, o) PROVE IInv'
    BY <2>1, StoreTokenInv
  <2>2. QED
    BY <1>1, <2>1, DeleteOldInv, FindUserInv, WriteUserInv, RefuseInv DEF RequestStep
<1>2. ASSUME NEW t \in Token, TokenStep(t) PROVE IInv'
  BY <1>2, LogoutInv, RefreshExpiresInv, ForgetInv DEF TokenStep
<1>3. ASSUME NEW r \in Request, NEW u \in User, NEW p, Login(r, u, p) PROVE IInv'
  BY <1>3, LoginInv
<1>4. ASSUME NEW r \in Request, NEW t \in Token, Refresh(r, t) PROVE IInv'
  BY <1>4, RefreshInv
<1>5. ASSUME NEW r \in Request, NEW u \in User, NEW patch \in Patch, UpdateUser(r, u, patch)
      PROVE  IInv'
  BY <1>5, UpdateUserInv
<1>6. ASSUME NEW u \in User, DeleteUser(u) \/ AccessExpires(u) PROVE IInv'
  BY <1>6, DeleteUserInv, AccessExpiresInv
<1>7. ASSUME NEW u \in User, NEW new \in Row, CreateUser(u, new) PROVE IInv'
  BY <1>7, CreateUserInv
<1>8. CASE UNCHANGED vars
  <2>1. UNCHANGED <<userVars, tokenVars, request, spendVars>>
    BY <1>8 DEF vars
  <2>2. RequestTypes'
    BY <2>1, Parts DEF IInv, RequestTypes
  <2>3. QED
    BY <2>1, <2>2, QuietInv DEF Uses
<1>9. QED
  BY <1>1, <1>2, <1>3, <1>4, <1>5, <1>6, <1>7, <1>8 DEF Next

LEMMA Inductive == Spec => []IInv
BY InitInv, NextInv, PTL DEF Spec

-------------------------------------------------------------------------------
\* The types; usernames stay unique although an UPDATE may come after the DELETE of
\* its user and the creation of another under the same name (user/handler.go).
THEOREM SessionsTypeCorrect == Spec => []TypeOK
<1>1. IInv => TypeOK
  BY DEF IInv
<1>2. QED
  BY <1>1, Inductive, PTL

\* Update (user/handler.go) writes back every column that it read: from the last on
\* that overlapped another, a user is nevertheless what the updates asked for.
THEOREM UpdatesLast == Spec => []UpdatesHold
<1>1. IInv => UpdatesHold
  BY DEF IInv, UserInv
<1>2. QED
  BY <1>1, Inductive, PTL

\* Refresh (auth/handler.go) rotates: unless two requests present a token at the same
\* time or its DEL fails, no token is answered twice.
THEOREM RotationHolds == Spec => []RefreshedOnce
<1>1. IInv => RefreshedOnce
  BY Parts DEF IInv, TokenInv, Rotated, RefreshedOnce, Spends
<1>2. QED
  BY <1>1, Inductive, PTL

\* A refresh token that was handed out works until it is presented or expires.
THEOREM NoSessionLost == Spec => []HandedTokensWork
<1>1. IInv => HandedTokensWork
  BY DEF IInv, TokenInv
<1>2. QED
  BY <1>1, Inductive, PTL

\* Nobody who stays disabled or deleted gets an access token.
LEMMA BarredStaysOut ==
  ASSUME IInv, [Next]_vars, NEW u \in User, Out(u), Barred(u)'
  PROVE  Out(u)'
<1>1. RequestTypes
  BY Parts DEF IInv
<1>2. ASSUME NEW r \in Request, NEW t \in Token, NEW o \in SetOutcomes, StoreToken(r, t, o)
      PROVE  Out(u)'
  BY <1>1, <1>2 DEF StoreToken, Out, At, Goes, RequestTypes, Idle
<1>3. ASSUME NEW r \in Request, FindUser(r) PROVE Out(u)'
  <2>1. ~Barred(request[r].user)
    BY <1>3 DEF FindUser, Admitted, Found, Barred
  <2>2. request'[r].user # u
    <3>1. request[r] \in Requests /\ request[r].pc = "find"
      BY <1>1, <1>3 DEF FindUser, At, RequestTypes
    <3>2. request'[r] = [request[r] EXCEPT !.pc = "store"]
      BY <1>1, <1>3 DEF FindUser, Goes, RequestTypes
    <3>3. request'[r].user = request[r].user
      BY <3>1, <3>2, RequestFields
    <3>4. QED
      BY <2>1, <3>3 DEF Out
  <2>3. \A n \in Request : n # r => request'[n] = request[n]
    BY <1>1, <1>3 DEF FindUser, Goes, RequestTypes
  <2>4. access' = access
    BY <1>3 DEF FindUser, tokenVars
  <2>5. QED
    BY <2>2, <2>3, <2>4 DEF Out, At
<1>4. ASSUME NEW r \in Request, NEW v \in User, NEW p, Login(r, v, p) PROVE Out(u)'
  <2>1. v # u
    BY <1>4 DEF Login, Admitted, Found, Out, Barred
  <2>2. QED
    BY <1>1, <1>4, <2>1 DEF Login, Out, At, Goes, RequestTypes, tokenVars
<1>5. ASSUME access' \subseteq access,
             \A r \in Request : At(r, "store")' => request'[r] = request[r]
      PROVE  Out(u)'
  BY <1>5 DEF Out, At
<1>6. ASSUME NEW r \in Request, DeleteOld(r) \/ WriteUser(r) \/ Refuse(r) PROVE Out(u)'
  <2>1. access' = access /\ \A n \in Request : n # r => request'[n] = request[n]
    BY <1>1, <1>6 DEF DeleteOld, WriteUser, Refuse, tokenVars, Goes, RequestTypes
  <2>2. ~At(r, "store")'
    <3>1. CASE DeleteOld(r)
      <4>1. request[r] \in Requests /\ request'[r] = [request[r] EXCEPT !.pc = "find"]
            /\ request[r].pc = "delete"
        BY <1>1, <3>1 DEF DeleteOld, Goes, RequestTypes, At
      <4>2. request'[r].pc = "find"
        BY <4>1 DEF Requests, Idle
      <4>3. QED
        BY <4>2 DEF At
    <3>2. CASE WriteUser(r) \/ Refuse(r)
      BY <1>1, <3>2 DEF WriteUser, Refuse, Goes, RequestTypes, At, Idle
    <3>3. QED
      BY <1>6, <3>1, <3>2
  <2>3. QED
    BY <1>5, <2>1, <2>2 DEF At
<1>7. ASSUME NEW r \in Request, NEW t \in Token, Refresh(r, t) PROVE Out(u)'
  BY <1>1, <1>5, <1>7 DEF Refresh, Goes, RequestTypes, At, tokenVars
<1>8. ASSUME NEW r \in Request, NEW v \in User, NEW patch \in Patch,
             UpdateUser(r, v, patch)
      PROVE  Out(u)'
  BY <1>1, <1>5, <1>8 DEF UpdateUser, Goes, RequestTypes, At, tokenVars
<1>9. ASSUME NEW t \in Token, TokenStep(t) PROVE Out(u)'
  BY <1>5, <1>9 DEF TokenStep, Logout, RefreshExpires, Forget
<1>10. ASSUME NEW v \in User, DeleteUser(v) \/ AccessExpires(v) PROVE Out(u)'
  BY <1>5, <1>10 DEF DeleteUser, AccessExpires, tokenVars
<1>11. ASSUME NEW v \in User, NEW new \in Row, CreateUser(v, new) PROVE Out(u)'
  BY <1>5, <1>11 DEF CreateUser, tokenVars
<1>12. CASE UNCHANGED vars
  BY <1>5, <1>12 DEF vars, tokenVars
<1>13. QED
  BY <1>2, <1>3, <1>4, <1>6, <1>7, <1>8, <1>9, <1>10, <1>11, <1>12
     DEF Next, RequestStep

\* Only an update that asks for it, or that overlaps another of the same user, enables
\* a disabled user; nothing brings a deleted one back.
LEMMA OnlyEnabled ==
  ASSUME IInv, [Next]_vars, NEW u \in born, Barred(u), ~Barred(u)'
  PROVE  users[u] # NoRow /\ \E r \in Request : Enables(r, u) /\ request'[r] = Idle
<1>1. UserTypes /\ RequestTypes /\ u \in User /\ users'[u] # users[u]
  BY Parts DEF IInv, UserTypes, Barred
<1>2. \A v \in User, new \in Row : ~CreateUser(v, new)
  BY <1>1 DEF CreateUser, Insert, UserTypes
<1>3. \A v \in User : ~DeleteUser(v)
  BY <1>1 DEF DeleteUser, RemoveRow, UserTypes, Barred
<1>4. PICK r \in Request : WriteUser(r)
  <2>1. \A n \in Request, t \in Token, o \in SetOutcomes : ~StoreToken(n, t, o)
    BY <1>1 DEF StoreToken, userVars
  <2>2. \A n \in Request : ~DeleteOld(n) /\ ~FindUser(n) /\ ~Refuse(n)
    BY <1>1 DEF DeleteOld, FindUser, Refuse, userVars
  <2>3. \A n \in Request, v \in User, p \in Password : ~Login(n, v, p)
    BY <1>1 DEF Login, userVars
  <2>4. \A n \in Request, t \in Token : ~Refresh(n, t)
    BY <1>1 DEF Refresh, userVars
  <2>5. \A n \in Request, v \in User, patch \in Patch : ~UpdateUser(n, v, patch)
    BY <1>1 DEF UpdateUser
  <2>6. \A t \in Token : ~TokenStep(t)
    BY <1>1 DEF TokenStep, Logout, RefreshExpires, Forget, userVars
  <2>7. \A v \in User : ~AccessExpires(v)
    BY <1>1 DEF AccessExpires, userVars
  <2>8. ~UNCHANGED vars
    BY <1>1 DEF vars, userVars
  <2>9. QED
    BY <1>2, <1>3, <2>1, <2>2, <2>3, <2>4, <2>5, <2>6, <2>7, <2>8 DEF Next, RequestStep
<1> DEFINE q == request[r]
<1>5. /\ q.pc = "write" /\ request'[r] = Idle
      /\ users' = [users EXCEPT ![q.user] =
                     IF users[q.user] = NoRow THEN NoRow ELSE Patched(q.row, q.patch)]
  BY <1>1, <1>4 DEF WriteUser, UpdatedRows, Written, At, Goes, RequestTypes
<1>6. /\ q.user = u /\ users[u] # NoRow /\ users'[u] = Patched(q.row, q.patch)
      /\ q.row \in Row /\ q.patch \in Patch
  BY <1>1, <1>5, RequestFields DEF UserTypes, RequestTypes
<1>7. u \in mixed \/ q.row = users[u]
  BY <1>1, <1>5, <1>6 DEF IInv, UserInv, Current, Writes
<1>8. Patched(q.row, q.patch).active
  BY <1>6 DEF Barred
<1>9. u \in mixed \/ ("active" \in DOMAIN q.patch /\ q.patch.active)
  BY <1>6, <1>7, <1>8 DEF Patched, Row, Barred
<1>10. QED
  BY <1>5, <1>6, <1>9 DEF Enables, At

\* JWTMiddleware knows nothing of users, but Login and Refresh look: who is disabled or
\* deleted and has no access token left gets no other, until an update enables the
\* user, or overlaps another one and writes back what it had read.
THEOREM TheDisabledStayOut == Spec => DisabledStaysOut
<1> DEFINE Stays ==
      \A u \in born : Out(u) =>
        \/ Out(u)'
        \/ users[u] # NoRow /\ \E r \in Request : Enables(r, u) /\ request'[r] = Idle
<1>1. ASSUME IInv, [Next]_vars PROVE Stays
  <2> SUFFICES ASSUME NEW u \in born, Out(u), ~Out(u)'
               PROVE  users[u] # NoRow /\ \E r \in Request : Enables(r, u) /\ request'[r] = Idle
    OBVIOUS
  <2>1. u \in User /\ Barred(u)
    BY <1>1, Parts DEF IInv, UserTypes, Out
  <2>2. ~Barred(u)'
    BY <1>1, <2>1, BarredStaysOut
  <2>3. QED
    BY <1>1, <2>1, <2>2, OnlyEnabled
<1>2. IInv /\ [Next]_vars => [Stays]_vars
  BY <1>1
<1>3. QED
  BY <1>2, Inductive, PTL DEF Spec, DisabledStaysOut
===============================================================================
