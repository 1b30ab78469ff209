---------------------------- MODULE AccountProofs ----------------------------
(***************************************************************************)
(* Proofs about what belongs to a user's account: the backoffice's mirror   *)
(* and the login (Onboarding), and the crypto wallet (UserWallet), for any  *)
(* users, devices, requests and scripts and any of the faults.              *)
(***************************************************************************)
EXTENDS Onboarding, TLAPS

\* What a request has established by its steps so far.  A registration whose token is 0
\* goes on without an account.
RequestOK(x) ==
    /\ x.pc \notin {"idle", "next"} => x.user \in Users
    /\ x.pc = "next" => x.op = "migrate"
    /\ x.op = "migrate" =>
        /\ x.todo \subseteq Targets
        /\ x.pc \in {"create", "saveProfile", "saveAuth"} => x.user \in Targets
    /\ x.pc = "create" => x.device \in Devices /\ (x.op = "register" => x.token = 0)
    /\ x.pc \in {"saveProfile", "saveAuth"} =>
            /\ x.device \in Devices
            /\ x.token # 0 \/ x.op = "migrate" => accounts[x.user] = x.device
    /\ x.pc \in {"saveAuth", "refresh", "store", "activated"} => HasProfile(x.user)
    /\ x.pc \in {"refresh", "store"} => x.op = "login" /\ HasAuth(x.user)
    /\ x.pc = "refresh" /\ x.customer /\ x.user \notin Targets =>
            x.device = accounts[x.user] /\ accounts[x.user] # None

\* What the rows of a user say of the account.
UserOK(u) ==
    /\ HasAuth(u) => HasProfile(u)
    /\ auth[u].customer => /\ accounts[u] # None
                           /\ u \notin Targets => auth[u].deviceId = accounts[u]

IInv ==
    /\ TypeOK
    /\ \A u \in Users : UserOK(u)
    /\ \A r \in Requests : RequestOK(req[r])

-----------------------------------------------------------------------------
\* What no step undoes: accounts keep their device, profiles and auth states stay.
Kept ==
    \A u \in Users :
        /\ accounts[u] # None => accounts'[u] = accounts[u]
        /\ HasProfile(u) => HasProfile(u)'
        /\ HasAuth(u) => HasAuth(u)'

LEMMA OthersKnow ==
    ASSUME NEW x \in Request, RequestOK(x), Kept
    PROVE  RequestOK(x)'
<1>1. CASE x.pc \in {"idle", "next"}
  BY <1>1 DEF RequestOK
<1>2. CASE x.pc \notin {"idle", "next"}
  <2>1. PICK u \in Users : u = x.user
    BY <1>2 DEF RequestOK
  <2>2. /\ accounts[u] # None => accounts'[u] = accounts[u]
        /\ HasProfile(u) => HasProfile(u)'
        /\ HasAuth(u) => HasAuth(u)'
    BY DEF Kept
  <2>3. x.device \in Devices => x.device # None
    BY ConstantsAssumption
  <2>4. /\ HasProfile(x.user) => HasProfile(x.user)'
        /\ HasAuth(x.user) => HasAuth(x.user)'
        /\ accounts[x.user] # None => accounts'[x.user] = accounts[x.user]
    BY <2>1, <2>2
  <2> QED
    BY <1>2, <2>3, <2>4 DEF RequestOK
<1> QED
  BY <1>1, <1>2

\* Request r moves to the record x.
LEMMA RequestMoves ==
    ASSUME IInv, NEW r \in Requests, NEW x \in Request,
           req' = [req EXCEPT ![r] = x], Kept, RequestOK(x)'
    PROVE  /\ req' \in [Requests -> Request]
           /\ \A s \in Requests : RequestOK(req[s])'
<1>1. req' \in [Requests -> Request] /\ req'[r] = x
  BY DEF IInv, TypeOK
<1>2. ASSUME NEW s \in Requests \ {r} PROVE RequestOK(req[s])'
  <2>1. PICK y \in Request : y = req[s] /\ RequestOK(y)
    BY DEF IInv, TypeOK
  <2>2. req'[s] = y
    BY <2>1 DEF IInv, TypeOK
  <2>3. RequestOK(y)'
    BY <2>1, OthersKnow
  <2> QED
    BY <2>2, <2>3
<1> QED
  BY <1>1, <1>2

LEMMA IdleOK == IdleRequest \in Request /\ RequestOK(IdleRequest)'
<1>1. 0 \in Token
  BY ConstantsAssumption DEF Token
<1> QED
  BY <1>1, Zenon DEF IdleRequest, Request, Device, RequestOK

\* A request ends, or the migration goes on with the next user.
LEMMA FailMoves ==
    ASSUME IInv, NEW r \in Requests, Fail(r) \/ Goto(r, "idle"), Kept
    PROVE  /\ req' \in [Requests -> Request]
           /\ \A s \in Requests : RequestOK(req[s])'
<1>1. CASE Goto(r, "idle")
  BY <1>1, IdleOK, RequestMoves DEF Goto
<1>2. CASE Fail(r) /\ ~Goto(r, "idle")
  <2>1. req[r].op = "migrate" /\ Goto(r, "next")
    BY <1>2 DEF Fail
  <2>2. req[r] \in Request /\ RequestOK(req[r])
    BY DEF IInv, TypeOK
  <2>3. PICK x \in Request : x = [req[r] EXCEPT !.pc = "next"]
    BY <2>2 DEF Request
  <2>4. x.pc = "next" /\ x.op = "migrate" /\ x.todo \subseteq Targets
    BY <2>1, <2>2, <2>3 DEF Request, RequestOK
  <2>5. req' = [req EXCEPT ![r] = x]
    BY <2>1, <2>3 DEF Goto
  <2>6. RequestOK(x)'
    BY <2>4 DEF RequestOK
  <2> QED
    BY <2>5, <2>6, RequestMoves
<1> QED
  BY <1>1, <1>2

\* Steps that leave accounts and rows alone.
LEMMA RowsKept ==
    ASSUME IInv, UNCHANGED <<accounts, profile, auth>>
    PROVE  Kept /\ \A u \in Users : UserOK(u)'
<1>1. Kept
  BY DEF Kept, HasProfile, HasAuth
<1>2. ASSUME NEW u \in Users PROVE UserOK(u)'
  BY DEF IInv, UserOK, HasProfile, HasAuth
<1> QED
  BY <1>1, <1>2

LEMMA QuietStep ==
    ASSUME IInv, NEW r \in Requests, NEW x \in Request, RequestOK(x),
           req' = [req EXCEPT ![r] = x], UNCHANGED <<accounts, profile, auth>>,
           issued' \in Token, program' \subseteq Users, used' \subseteq Devices
    PROVE  IInv'
<1>1. Kept /\ \A u \in Users : UserOK(u)'
  BY RowsKept
<1>2. RequestOK(x)'
  BY <1>1, OthersKnow
<1>3. req' \in [Requests -> Request] /\ \A s \in Requests : RequestOK(req[s])'
  BY <1>1, <1>2, RequestMoves
<1> QED
  BY <1>1, <1>3 DEF IInv, TypeOK

LEMMA QuietEnd ==
    ASSUME IInv, NEW r \in Requests, Fail(r) \/ Goto(r, "idle"),
           UNCHANGED <<accounts, profile, auth>>,
           issued' \in Token, program' \subseteq Users, used' \subseteq Devices
    PROVE  IInv'
<1>1. Kept /\ \A u \in Users : UserOK(u)'
  BY RowsKept
<1>2. req' \in [Requests -> Request] /\ \A s \in Requests : RequestOK(req[s])'
  BY <1>1, FailMoves
<1> QED
  BY <1>1, <1>2 DEF IInv, TypeOK

-----------------------------------------------------------------------------
(* Registration and migration *)

LEMMA RegisterByEmailStep ==
    ASSUME IInv, NEW r \in Requests, NEW u \in Users, registerByEmail(r, u)
    PROVE  IInv'
<1>1. PICK d \in Devices :
        /\ generateDeviceId(d)
        /\ req' = [req EXCEPT ![r] = [IdleRequest EXCEPT !.pc = "create", !.op = "register",
                                                         !.user = u, !.device = d]]
  BY DEF registerByEmail
<1>2. PICK x \in Request :
        x = [IdleRequest EXCEPT !.pc = "create", !.op = "register", !.user = u, !.device = d]
  BY IdleOK DEF registerByEmail, Request, Device
<1>3. x.pc = "create" /\ x.op = "register" /\ x.user = u /\ x.device = d /\ x.token = 0
  BY <1>2 DEF IdleRequest
<1>4. RequestOK(x)
  BY <1>3 DEF RequestOK
<1>5. used' \subseteq Devices
  BY <1>1 DEF generateDeviceId, IInv, TypeOK
<1> QED
  BY <1>1, <1>2, <1>4, <1>5, QuietStep DEF registerByEmail, backoffice, IInv, TypeOK

LEMMA MigrateUsersStep ==
    ASSUME IInv, NEW r \in Requests, migrateUsers(r)
    PROVE  IInv'
<1> DEFINE todo == {u \in Targets : ~HasProfile(u)}
<1>1. PICK x \in Request :
        x = [IdleRequest EXCEPT !.pc = "next", !.op = "migrate", !.todo = todo]
  BY IdleOK, ConstantsAssumption DEF migrateUsers, Request
<1>2. x.pc = "next" /\ x.op = "migrate" /\ x.todo \subseteq Targets
  BY <1>1 DEF IdleRequest
<1>3. RequestOK(x)
  BY <1>2 DEF RequestOK
<1> QED
  BY <1>1, <1>3, QuietStep DEF migrateUsers, backoffice, IInv, TypeOK

LEMMA ProcessUserStep ==
    ASSUME IInv, NEW r \in Requests, processUser(r)
    PROVE  IInv'
<1>1. /\ req[r] \in Request /\ RequestOK(req[r]) /\ req[r].pc = "next"
      /\ req[r].op = "migrate" /\ req[r].todo \subseteq Targets
  BY DEF processUser, At, IInv, TypeOK, RequestOK
<1>2. /\ UNCHANGED <<accounts, profile, auth>>
      /\ issued' \in Token /\ program' \subseteq Users /\ used \subseteq Devices
  BY DEF processUser, backoffice, IInv, TypeOK
<1>3. CASE Goto(r, "idle") /\ UNCHANGED used
  BY <1>2, <1>3, QuietEnd
<1>4. ASSUME NEW u \in req[r].todo, UNCHANGED used,
             req' = [req EXCEPT ![r] = [req[r] EXCEPT !.todo = @ \ {u}]]
      PROVE  IInv'
  <2>1. PICK x \in Request : x = [req[r] EXCEPT !.todo = @ \ {u}]
    BY <1>1 DEF Request
  <2>2. x.pc = "next" /\ x.op = "migrate" /\ x.todo \subseteq Targets
    BY <1>1, <2>1 DEF Request
  <2>3. RequestOK(x)
    BY <2>2 DEF RequestOK
  <2> QED
    BY <1>2, <1>4, <2>1, <2>3, QuietStep
<1>5. ASSUME NEW u \in req[r].todo, NEW d \in Devices, generateDeviceId(d),
             req' = [req EXCEPT ![r] = [req[r] EXCEPT !.pc = "create", !.user = u,
                                            !.device = d, !.todo = @ \ {u}]]
      PROVE  IInv'
  <2>1. u \in Targets /\ u \in Users
    BY <1>1, ConstantsAssumption
  <2>2. PICK x \in Request :
            x = [req[r] EXCEPT !.pc = "create", !.user = u, !.device = d, !.todo = @ \ {u}]
    BY <1>1, <2>1 DEF Request, Device
  <2>3. /\ x.pc = "create" /\ x.op = "migrate" /\ x.user = u /\ x.device = d
        /\ x.todo \subseteq Targets
    BY <1>1, <2>2 DEF Request
  <2>4. RequestOK(x)
    BY <2>1, <2>3 DEF RequestOK
  <2>5. used' \subseteq Devices
    BY <1>2, <1>5 DEF generateDeviceId
  <2> QED
    BY <1>2, <1>5, <2>2, <2>4, <2>5, QuietStep
<1> QED
  BY <1>3, <1>4, <1>5 DEF processUser

\* The account exists from here on, and its device is the one the request holds.
LEMMA CreateAccountStep ==
    ASSUME IInv, NEW r \in Requests, NEW op, CreateAccount(r, op)
    PROVE  IInv'
<1>1. /\ req[r] \in Request /\ RequestOK(req[r]) /\ req[r].pc = "create"
      /\ UNCHANGED <<program, profile, auth, used>>
  BY DEF CreateAccount, At, IInv, TypeOK
<1>2. PICK u \in Users : u = req[r].user /\ u = User(r)
  BY <1>1 DEF RequestOK, User
<1>3. PICK d \in Devices : d = req[r].device /\ d # None
  BY <1>1, ConstantsAssumption DEF RequestOK
<1>4. CASE UNCHANGED <<accounts, issued>> /\ Fail(r)
  BY <1>1, <1>4, QuietEnd DEF IInv, TypeOK
<1>5. CASE /\ accounts[u] = None /\ accounts' = [accounts EXCEPT ![u] = d] /\ Issue
           /\ \/ req' = [req EXCEPT ![r] = [@ EXCEPT !.pc = "saveProfile", !.token = issued + 1]]
              \/ Fail(r)
  <2>1. /\ accounts' \in [Users -> Device] /\ accounts'[u] = d
        /\ \A v \in Users \ {u} : accounts'[v] = accounts[v]
    BY <1>5 DEF Device, IInv, TypeOK
  <2>2. issued' \in Token /\ issued' = issued + 1
    BY <1>5, ConstantsAssumption DEF Issue, Token, IInv, TypeOK
  <2>3. Kept
    BY <1>1, <1>5, <2>1 DEF Kept, HasProfile, HasAuth
  <2>4. ASSUME NEW v \in Users PROVE UserOK(v)'
    <3>1. UserOK(v)
      BY DEF IInv
    <3>2. CASE v = u
      BY <1>1, <1>3, <1>5, <2>1, <3>1, <3>2 DEF UserOK, HasProfile, HasAuth
    <3>3. CASE v # u
      BY <1>1, <2>1, <3>1, <3>3 DEF UserOK, HasProfile, HasAuth
    <3> QED
      BY <3>2, <3>3
  <2>5. req' \in [Requests -> Request] /\ \A s \in Requests : RequestOK(req[s])'
    <3>1. CASE Fail(r)
      BY <2>3, <3>1, FailMoves
    <3>2. CASE req' = [req EXCEPT ![r] = [@ EXCEPT !.pc = "saveProfile", !.token = issued + 1]]
      <4>1. PICK t \in Token : t = issued + 1
        BY <2>2
      <4>2. PICK x \in Request : x = [req[r] EXCEPT !.pc = "saveProfile", !.token = t]
        BY <1>1 DEF Request
      <4>3. /\ x.pc = "saveProfile" /\ x.op = req[r].op /\ x.user = u /\ x.device = d
            /\ x.todo = req[r].todo
        BY <1>1, <1>2, <1>3, <4>2 DEF Request
      <4>4. RequestOK(x)'
        BY <1>1, <1>2, <2>1, <4>3 DEF RequestOK
      <4>5. req' = [req EXCEPT ![r] = x]
        BY <3>2, <4>1, <4>2
      <4> QED
        BY <2>3, <4>4, <4>5, RequestMoves
    <3> QED
      BY <1>5, <3>1, <3>2
  <2> QED
    BY <1>1, <2>1, <2>2, <2>4, <2>5 DEF IInv, TypeOK
<1> QED
  BY <1>2, <1>3, <1>4, <1>5 DEF CreateAccount

LEMMA TakenForAccountStep ==
    ASSUME IInv, NEW r \in Requests, TakenForAccount(r)
    PROVE  IInv'
<1>1. /\ req[r] \in Request /\ RequestOK(req[r]) /\ req[r].pc = "create"
      /\ req[r].op = "register"
  BY DEF TakenForAccount, At, IInv, TypeOK
<1>2. PICK x \in Request : x = [req[r] EXCEPT !.pc = "saveProfile"]
  BY <1>1 DEF Request
<1>3. /\ x.pc = "saveProfile" /\ x.op = "register" /\ x.user = req[r].user
      /\ x.device = req[r].device /\ x.token = req[r].token
  BY <1>1, <1>2 DEF Request
<1>4. RequestOK(x)
  BY <1>1, <1>3 DEF RequestOK
<1>5. req' = [req EXCEPT ![r] = x]
  BY <1>2 DEF TakenForAccount, Goto
<1> QED
  BY <1>4, <1>5, QuietStep DEF TakenForAccount, backoffice, IInv, TypeOK

LEMMA SaveProfileStep ==
    ASSUME IInv, NEW r \in Requests, At(r, "saveProfile"), Goto(r, "saveAuth"),
           NEW t \in Token, profile' = [profile EXCEPT ![User(r)] = t],
           UNCHANGED <<backoffice, auth, used>>
    PROVE  IInv'
<1>1. /\ req[r] \in Request /\ RequestOK(req[r]) /\ req[r].pc = "saveProfile"
      /\ UNCHANGED <<accounts, issued, program, auth, used>>
  BY DEF At, backoffice, IInv, TypeOK
<1>2. PICK u \in Users : u = req[r].user /\ u = User(r)
  BY <1>1 DEF RequestOK, User
<1>3. t # None
  BY ConstantsAssumption DEF Token
<1>5. profile' = [profile EXCEPT ![u] = t]
  BY <1>2
<1>6. /\ profile' \in [Users -> Token \cup {None}] /\ profile'[u] = t
      /\ \A v \in Users \ {u} : profile'[v] = profile[v]
  BY <1>5 DEF IInv, TypeOK
<1>7. Kept
  BY <1>1, <1>3, <1>6 DEF Kept, HasProfile, HasAuth
<1>8. ASSUME NEW v \in Users PROVE UserOK(v)'
  <2>1. UserOK(v)
    BY DEF IInv
  <2>2. CASE v = u
    BY <1>1, <1>3, <1>6, <2>1, <2>2 DEF UserOK, HasProfile, HasAuth
  <2>3. CASE v # u
    BY <1>1, <1>6, <2>1, <2>3 DEF UserOK, HasProfile, HasAuth
  <2> QED
    BY <2>2, <2>3
<1>9. PICK x \in Request : x = [req[r] EXCEPT !.pc = "saveAuth"]
  BY <1>1 DEF Request
<1>10. /\ x.pc = "saveAuth" /\ x.op = req[r].op /\ x.user = u /\ x.device = req[r].device
       /\ x.todo = req[r].todo /\ x.token = req[r].token
  BY <1>1, <1>2, <1>9 DEF Request
<1>11. req' = [req EXCEPT ![r] = x]
  BY <1>1, <1>9 DEF Goto
<1>12. HasProfile(u)'
  BY <1>3, <1>6 DEF HasProfile
<1>13. RequestOK(x)'
  BY <1>1, <1>2, <1>10, <1>12 DEF RequestOK
<1>14. req' \in [Requests -> Request] /\ \A s \in Requests : RequestOK(req[s])'
  BY <1>7, <1>11, <1>13, RequestMoves
<1> QED
  BY <1>1, <1>6, <1>8, <1>14 DEF IInv, TypeOK

LEMMA UpsertProfileStep ==
    ASSUME IInv, NEW r \in Requests, upsertProfile(r) \/ saveCustomerProfile(r)
    PROVE  IInv'
<1>1. req[r] \in Request /\ RequestOK(req[r])
  BY DEF IInv, TypeOK
<1>2. ASSUME NEW op, SaveProfile(r, op) PROVE IInv'
  <2>1. PICK t \in Token : t = req[r].token
    BY <1>1 DEF Request
  <2> QED
    BY <1>2, <2>1, SaveProfileStep DEF SaveProfile
<1>3. CASE SaveNoProfile(r)
  <2>1. CASE Fail(r) /\ UNCHANGED profile
    BY <1>3, <2>1, QuietEnd DEF SaveNoProfile, backoffice, IInv, TypeOK
  <2>2. CASE Goto(r, "saveAuth") /\ ~(Fail(r) /\ UNCHANGED profile)
    <3>1. PICK u \in Users : u = User(r)
      BY <1>1, <1>3 DEF SaveNoProfile, At, User, RequestOK
    <3>2. PICK t \in Token : profile' = [profile EXCEPT ![u] = t]
      <4>1. profile' = [profile EXCEPT ![u] = IF HasProfile(u) THEN profile[u] ELSE 0]
        BY <1>3, <2>2, <3>1 DEF SaveNoProfile
      <4>2. profile[u] \in Token \cup {None} /\ 0 \in Token
        BY ConstantsAssumption DEF IInv, TypeOK, Token
      <4> QED
        BY <4>1, <4>2 DEF HasProfile
    <3> QED
      BY <1>3, <2>2, <3>1, <3>2, SaveProfileStep DEF SaveNoProfile
  <2> QED
    BY <1>3, <2>1, <2>2 DEF SaveNoProfile
<1> QED
  BY <1>2, <1>3 DEF upsertProfile, saveCustomerProfile

\* A row written for user u, who has a profile.
LEMMA AuthStep ==
    ASSUME IInv, NEW u \in Users, NEW written \in AuthRow, auth' = [auth EXCEPT ![u] = written],
           UNCHANGED <<accounts, profile>>, HasProfile(u),
           HasAuth(u) => written.deviceId # None,
           written.customer => /\ accounts[u] # None
                               /\ u \notin Targets => written.deviceId = accounts[u]
    PROVE  /\ auth' \in [Users -> AuthRow] /\ auth'[u] = written
           /\ Kept
           /\ \A v \in Users : UserOK(v)'
<1>1. /\ auth' \in [Users -> AuthRow] /\ auth'[u] = written
      /\ \A v \in Users \ {u} : auth'[v] = auth[v]
  BY DEF IInv, TypeOK
<1>2. Kept
  BY <1>1 DEF Kept, HasProfile, HasAuth
<1>3. ASSUME NEW v \in Users PROVE UserOK(v)'
  <2>1. UserOK(v)
    BY DEF IInv
  <2>2. CASE v = u
    BY <1>1, <2>1, <2>2 DEF UserOK, HasProfile, HasAuth
  <2>3. CASE v # u
    BY <1>1, <2>1, <2>3 DEF UserOK, HasProfile, HasAuth
  <2> QED
    BY <2>2, <2>3
<1> QED
  BY <1>1, <1>2, <1>3

LEMMA UpsertAuthStateStep ==
    ASSUME IInv, NEW r \in Requests, upsertAuthState(r)
    PROVE  IInv'
<1>1. /\ req[r] \in Request /\ RequestOK(req[r]) /\ req[r].pc = "saveAuth"
      /\ UNCHANGED <<accounts, issued, program, profile, used>>
  BY DEF upsertAuthState, At, backoffice, IInv, TypeOK
<1>2. PICK u \in Users : u = req[r].user /\ u = User(r)
  BY <1>1 DEF RequestOK, User
<1>3. PICK d \in Device : d = req[r].device /\ d # None
  BY <1>1, ConstantsAssumption DEF RequestOK, Request
<1>4. HasProfile(u) /\ auth[u] \in AuthRow /\ (req[r].token # 0 => d = accounts[u])
  BY <1>1, <1>2, <1>3 DEF RequestOK, IInv, TypeOK
<1>5. CASE Fail(r) /\ UNCHANGED auth
  BY <1>1, <1>5, QuietEnd DEF IInv, TypeOK
<1>6. ASSUME NEW written \in AuthRow, written.deviceId = d,
             written.customer => req[r].token # 0,
             auth' = [auth EXCEPT ![u] = written], Goto(r, "program")
      PROVE  IInv'
  <2>1. auth' \in [Users -> AuthRow] /\ Kept /\ \A v \in Users : UserOK(v)'
    BY <1>1, <1>3, <1>4, <1>6, AuthStep
  <2>2. PICK x \in Request : x = [req[r] EXCEPT !.pc = "program"]
    BY <1>1 DEF Request
  <2>3. x.pc = "program" /\ x.op = req[r].op /\ x.user = u /\ x.todo = req[r].todo
    BY <1>1, <1>2, <2>2 DEF Request
  <2>4. RequestOK(x)'
    BY <1>1, <2>3 DEF RequestOK
  <2>5. req' = [req EXCEPT ![r] = x]
    BY <1>6, <2>2 DEF Goto
  <2>6. req' \in [Requests -> Request] /\ \A s \in Requests : RequestOK(req[s])'
    BY <2>1, <2>4, <2>5, RequestMoves
  <2> QED
    BY <1>1, <2>1, <2>6 DEF IInv, TypeOK
<1>7. CASE /\ req[r].token # 0
           /\ auth' = [auth EXCEPT ![u] = AuthOf(r, d, d)] /\ Goto(r, "program")
  <2>1. PICK written \in AuthRow : written = AuthOf(r, d, d)
    <3>1. req[r].token \in Token
      BY <1>1 DEF Request
    <3>2. AuthOf(r, d, d) = [deviceId |-> d, oauth |-> req[r].token, customer |-> TRUE]
      BY DEF AuthOf
    <3> QED
      BY <3>1, <3>2, Zenon DEF AuthRow
  <2>2. written.deviceId = d
    BY <2>1 DEF AuthOf
  <2> QED
    BY <1>6, <1>7, <2>1, <2>2
<1>8. CASE /\ auth' = [auth EXCEPT ![u] = [@ EXCEPT !.deviceId = d, !.customer = FALSE]]
           /\ Goto(r, "program")
  <2>1. PICK written \in AuthRow : written = [auth[u] EXCEPT !.deviceId = d, !.customer = FALSE]
    BY <1>4 DEF AuthRow
  <2>2. written.deviceId = d /\ ~written.customer
    BY <1>4, <2>1 DEF AuthRow
  <2>3. auth' = [auth EXCEPT ![u] = written]
    BY <1>8, <2>1 DEF IInv, TypeOK
  <2> QED
    BY <1>6, <1>8, <2>2, <2>3
<1> QED
  BY <1>2, <1>3, <1>5, <1>7, <1>8 DEF upsertAuthState

\* The migration may write another device, but only for its own users.
LEMMA SaveAuthenticationStateStep ==
    ASSUME IInv, NEW r \in Requests, saveAuthenticationState(r)
    PROVE  IInv'
<1>1. /\ req[r] \in Request /\ RequestOK(req[r]) /\ req[r].pc = "saveAuth"
      /\ req[r].op = "migrate"
      /\ Goto(r, "next") /\ UNCHANGED <<accounts, issued, program, profile>>
  BY DEF saveAuthenticationState, At, backoffice, IInv, TypeOK
<1>2. PICK u \in Users : u = req[r].user /\ u = User(r) /\ u \in Targets
  BY <1>1 DEF RequestOK, User
<1>3. HasProfile(u) /\ auth[u] \in AuthRow /\ accounts[u] # None
  BY <1>1, <1>2, ConstantsAssumption DEF RequestOK, IInv, TypeOK
<1>4. PICK d \in Devices : generateDeviceId(d)
                            /\ auth' = [auth EXCEPT ![u] = AuthOf(r, d, auth[u].deviceId)]
  BY <1>2 DEF saveAuthenticationState
<1>5. PICK written \in AuthRow : written = AuthOf(r, d, auth[u].deviceId)
                                 /\ written.deviceId # None
  <2>1. auth[u].deviceId \in Device /\ d \in Device /\ req[r].token \in Token
    BY <1>1, <1>3 DEF AuthRow, Device, Request
  <2>2. PICK e \in Device : e = IF HasAuth(User(r)) THEN auth[u].deviceId ELSE d
    BY <2>1
  <2>3. AuthOf(r, d, auth[u].deviceId)
            = [deviceId |-> e, oauth |-> req[r].token, customer |-> TRUE]
    BY <2>2 DEF AuthOf
  <2>4. [deviceId |-> e, oauth |-> req[r].token, customer |-> TRUE] \in AuthRow
    BY <2>1, Zenon DEF AuthRow
  <2>5. AuthOf(r, d, auth[u].deviceId).deviceId # None
    <3>1. e # None
      BY <1>2, <2>2, ConstantsAssumption DEF HasAuth
    <3> QED
      BY <2>3, <3>1
  <2> QED
    BY <2>3, <2>4, <2>5
<1>6. auth' \in [Users -> AuthRow] /\ Kept /\ \A v \in Users : UserOK(v)'
  BY <1>1, <1>2, <1>3, <1>4, <1>5, AuthStep
<1>7. used' \subseteq Devices
  BY <1>4 DEF generateDeviceId, IInv, TypeOK
<1>8. Fail(r)
  BY <1>1 DEF Fail
<1>9. req' \in [Requests -> Request] /\ \A s \in Requests : RequestOK(req[s])'
  BY <1>6, <1>8, FailMoves
<1> QED
  BY <1>1, <1>6, <1>7, <1>9 DEF IInv, TypeOK

LEMMA AssignCustomersToProgramStep ==
    ASSUME IInv, NEW r \in Requests, assignCustomersToProgram(r)
    PROVE  IInv'
<1>1. User(r) \in Users
  BY DEF assignCustomersToProgram, At, User, IInv, RequestOK
<1>2. program' \subseteq Users
  BY <1>1 DEF assignCustomersToProgram, IInv, TypeOK
<1> QED
  BY <1>2, QuietEnd DEF assignCustomersToProgram, IInv, TypeOK

-----------------------------------------------------------------------------
(* Login and the card script *)

LEMMA LoginStep ==
    ASSUME IInv, NEW r \in Requests, NEW u \in Users, login(r, u)
    PROVE  IInv'
<1>1. UserOK(u) /\ HasAuth(u) /\ auth[u] \in AuthRow
  BY DEF login, IInv, TypeOK
<1>2. PICK d \in Device : d = auth[u].deviceId
  BY <1>1 DEF AuthRow
<1>8. PICK c \in BOOLEAN : c = auth[u].customer
  BY <1>1, Zenon DEF AuthRow
<1>3. PICK x \in Request :
        x = [IdleRequest EXCEPT !.pc = "refresh", !.op = "login", !.user = u, !.device = d,
                                !.customer = c]
  BY IdleOK DEF login, Request
<1>4. /\ x.pc = "refresh" /\ x.op = "login" /\ x.user = u /\ x.device = d
      /\ x.customer = auth[u].customer
  BY <1>3, <1>8 DEF IdleRequest
<1>5. /\ HasProfile(u)
      /\ auth[u].customer /\ u \notin Targets => d = accounts[u] /\ accounts[u] # None
  BY <1>1, <1>2 DEF UserOK
<1>6. RequestOK(x)
  BY <1>1, <1>4, <1>5 DEF RequestOK
<1>7. req' = [req EXCEPT ![r] = x]
  BY <1>2, <1>3, <1>8 DEF login
<1> QED
  BY <1>6, <1>7, QuietStep DEF login, backoffice, IInv, TypeOK

LEMMA RefreshCustomerTokenStep ==
    ASSUME IInv, NEW r \in Requests, refreshCustomerToken(r)
    PROVE  IInv'
<1>1. /\ req[r] \in Request /\ RequestOK(req[r]) /\ req[r].pc = "refresh"
      /\ UNCHANGED <<accounts, program, profile, auth, used>>
  BY DEF refreshCustomerToken, At, IInv, TypeOK
<1>2. CASE Goto(r, "idle") /\ UNCHANGED issued
  BY <1>1, <1>2, QuietEnd DEF IInv, TypeOK
<1>3. CASE /\ Issue
           /\ req' = [req EXCEPT ![r] = [@ EXCEPT !.pc = "store", !.token = issued + 1,
                                                  !.todo = {"auth", "profile"}]]
  <2>1. PICK t \in Token : t = issued + 1 /\ issued' = t
    BY <1>3, ConstantsAssumption DEF Issue, Token, IInv, TypeOK
  <2>2. PICK x \in Request :
            x = [req[r] EXCEPT !.pc = "store", !.token = t, !.todo = {"auth", "profile"}]
    BY <1>1 DEF Request
  <2>3. x.pc = "store" /\ x.op = req[r].op /\ x.user = req[r].user
    BY <1>1, <2>2 DEF Request
  <2>4. req[r].op = "login"
    BY <1>1 DEF RequestOK
  <2>5. RequestOK(x)
    BY <1>1, <2>3, <2>4 DEF RequestOK
  <2> QED
    BY <1>1, <1>3, <2>1, <2>2, <2>5, QuietStep DEF IInv, TypeOK
<1> QED
  BY <1>2, <1>3 DEF refreshCustomerToken

\* Each of the two updates finds the rows as the request knows them.
LEMMA GetBackofficeJwtDataStep ==
    ASSUME IInv, NEW r \in Requests, getBackofficeJwtData(r)
    PROVE  IInv'
<1> DEFINE wanted == {"auth", "profile"}
<1>1. /\ req[r] \in Request /\ RequestOK(req[r]) /\ req[r].pc = "store"
      /\ UNCHANGED <<accounts, issued, program, used>>
  BY DEF getBackofficeJwtData, StoreIn, At, backoffice, IInv, TypeOK
<1>2. PICK u \in Users : u = req[r].user /\ u = User(r)
  BY <1>1 DEF RequestOK, User
<1>3. PICK t \in Token : t = req[r].token /\ t # None
  BY <1>1, ConstantsAssumption DEF Request, Token
<1>4. HasProfile(u) /\ HasAuth(u) /\ req[r].op = "login"
  BY <1>1, <1>2 DEF RequestOK
<1>5. PICK table \in wanted :
        /\ auth' = IF table = "auth" THEN [auth EXCEPT ![u].oauth = t] ELSE auth
        /\ profile' = IF table = "profile" /\ HasProfile(u)
                      THEN [profile EXCEPT ![u] = t] ELSE profile
        /\ IF req[r].todo \cap wanted = {table} THEN Goto(r, "idle")
           ELSE req' = [req EXCEPT ![r] = [req[r] EXCEPT !.todo = @ \ {table}]]
  BY <1>2, <1>3 DEF getBackofficeJwtData, StoreIn
<1>6. /\ auth' \in [Users -> AuthRow] /\ profile' \in [Users -> Token \cup {None}]
      /\ Kept /\ \A v \in Users : UserOK(v)'
  <2>1. CASE table = "auth"
    <3>1. auth[u] \in AuthRow /\ UserOK(u)
      BY DEF IInv, TypeOK
    <3>2. PICK written \in AuthRow : written = [auth[u] EXCEPT !.oauth = t]
      BY <3>1 DEF AuthRow
    <3>3. written.customer = auth[u].customer /\ written.deviceId = auth[u].deviceId
      BY <3>1, <3>2 DEF AuthRow
    <3>4. auth' = [auth EXCEPT ![u] = written] /\ UNCHANGED profile
      BY <1>5, <2>1, <3>2 DEF IInv, TypeOK
    <3>5. /\ HasAuth(u) => written.deviceId # None
          /\ written.customer => /\ accounts[u] # None
                                 /\ u \notin Targets => written.deviceId = accounts[u]
      BY <3>1, <3>3 DEF UserOK, HasAuth
    <3> QED
      BY <1>1, <1>4, <3>4, <3>5, AuthStep DEF IInv, TypeOK
  <2>2. CASE table = "profile"
    <3>1. profile' = [profile EXCEPT ![u] = t] /\ UNCHANGED auth
      BY <1>4, <1>5, <2>2
    <3>2. /\ profile' \in [Users -> Token \cup {None}] /\ profile'[u] = t
          /\ \A v \in Users \ {u} : profile'[v] = profile[v]
      BY <3>1 DEF IInv, TypeOK
    <3>3. Kept
      BY <1>1, <1>3, <3>1, <3>2 DEF Kept, HasProfile, HasAuth
    <3>4. ASSUME NEW v \in Users PROVE UserOK(v)'
      <4>1. UserOK(v) /\ (HasProfile(v)' <=> HasProfile(v))
        BY <1>3, <1>4, <3>2 DEF IInv, HasProfile
      <4> QED
        BY <1>1, <3>1, <4>1 DEF UserOK, HasAuth
    <3> QED
      BY <3>1, <3>2, <3>3, <3>4 DEF IInv, TypeOK
  <2> QED
    BY <2>1, <2>2
<1>7. req' \in [Requests -> Request] /\ \A s \in Requests : RequestOK(req[s])'
  <2>1. CASE Goto(r, "idle")
    BY <1>6, <2>1, FailMoves
  <2>2. CASE req' = [req EXCEPT ![r] = [req[r] EXCEPT !.todo = @ \ {table}]]
    <3>1. PICK x \in Request : x = [req[r] EXCEPT !.todo = @ \ {table}]
      BY <1>1 DEF Request
    <3>2. x.pc = "store" /\ x.op = "login" /\ x.user = u
      BY <1>1, <1>2, <1>4, <3>1 DEF Request
    <3>3. RequestOK(x)
      BY <1>4, <3>2 DEF RequestOK
    <3>4. RequestOK(x)'
      BY <1>6, <3>3, OthersKnow
    <3> QED
      BY <1>6, <2>2, <3>1, <3>4, RequestMoves
  <2> QED
    BY <1>5, <2>1, <2>2
<1> QED
  BY <1>1, <1>6, <1>7 DEF IInv, TypeOK

LEMMA ScriptAuthStateStep ==
    ASSUME IInv, NEW r \in Requests, ScriptAuthState(r)
    PROVE  IInv'
<1>1. ASSUME NEW u \in Users, "activate" \in Operations, HasProfile(u),
             req' = [req EXCEPT ![r] = [IdleRequest EXCEPT !.pc = "activated",
                                            !.op = "activate", !.user = u]],
             UNCHANGED <<backoffice, profile, auth, used>>
      PROVE  IInv'
  <2>1. PICK x \in Request :
            x = [IdleRequest EXCEPT !.pc = "activated", !.op = "activate", !.user = u]
    BY <1>1, IdleOK DEF Request
  <2>2. x.pc = "activated" /\ x.op = "activate" /\ x.user = u
    BY <2>1 DEF IdleRequest
  <2>4. RequestOK(x)
    BY <1>1, <2>2 DEF RequestOK
  <2> QED
    BY <1>1, <2>1, <2>4, QuietStep DEF backoffice, IInv, TypeOK
<1>2. CASE /\ At(r, "activated")
           /\ auth' = IF HasAuth(User(r)) THEN auth
                      ELSE [auth EXCEPT ![User(r)] =
                                [NoRow EXCEPT !.deviceId = "script-activation"]]
           /\ Goto(r, "idle")
           /\ UNCHANGED <<backoffice, profile, used>>
  <2>1. PICK u \in Users : u = User(r) /\ HasProfile(u)
    BY <1>2 DEF At, User, IInv, RequestOK
  <2>2. CASE HasAuth(u)
    BY <1>2, <2>1, <2>2, QuietEnd DEF backoffice, IInv, TypeOK
  <2>3. CASE ~HasAuth(u)
    <3>1. 0 \in Token
      BY ConstantsAssumption DEF Token
    <3>2. PICK written \in AuthRow : written = [NoRow EXCEPT !.deviceId = "script-activation"]
      BY <3>1, Zenon DEF AuthRow, NoRow, Device
    <3>3. ~written.customer
      BY <3>2 DEF NoRow
    <3>4. auth' = [auth EXCEPT ![u] = written]
      BY <1>2, <2>1, <2>3, <3>2
    <3>5. auth' \in [Users -> AuthRow] /\ Kept /\ \A v \in Users : UserOK(v)'
      BY <1>2, <2>1, <2>3, <3>3, <3>4, AuthStep DEF backoffice
    <3>6. req' \in [Requests -> Request] /\ \A s \in Requests : RequestOK(req[s])'
      BY <1>2, <3>5, FailMoves
    <3> QED
      BY <1>2, <3>5, <3>6 DEF backoffice, IInv, TypeOK
  <2> QED
    BY <2>2, <2>3
<1> QED
  BY <1>1, <1>2 DEF ScriptAuthState

LEMMA AbortStep ==
    ASSUME IInv, NEW r \in Requests, Abort(r)
    PROVE  IInv'
  BY QuietEnd DEF Abort, backoffice, IInv, TypeOK

-----------------------------------------------------------------------------
(* The theorems *)

LEMMA InitIInv == Init => IInv
<1> SUFFICES ASSUME Init PROVE IInv
  OBVIOUS
<1>1. 0 \in Token
  BY ConstantsAssumption DEF Token
<1>2. NoRow \in AuthRow
  BY <1>1, Zenon DEF NoRow, AuthRow, Device
<1>3. IdleRequest \in Request /\ RequestOK(IdleRequest)
  BY <1>1, Zenon DEF IdleRequest, Request, Device, RequestOK
<1>4. TypeOK
  BY <1>1, <1>2, <1>3 DEF Init, TypeOK, Device
<1>5. ASSUME NEW u \in Users PROVE UserOK(u)
  BY DEF Init, UserOK, HasProfile, HasAuth, NoRow
<1>6. ASSUME NEW r \in Requests PROVE RequestOK(req[r])
  BY <1>3 DEF Init
<1> QED
  BY <1>4, <1>5, <1>6 DEF IInv

LEMMA NextIInv == IInv /\ [Next]_vars => IInv'
<1> SUFFICES ASSUME IInv, [Next]_vars PROVE IInv'
  OBVIOUS
<1>1. ASSUME NEW r \in Requests, NEW u \in Users, registerByEmail(r, u) \/ login(r, u)
      PROVE  IInv'
  BY <1>1, RegisterByEmailStep, LoginStep
<1>2. ASSUME NEW r \in Requests, Handler(r)
      PROVE  IInv'
  BY <1>2, ProcessUserStep, CreateAccountStep, TakenForAccountStep, UpsertProfileStep,
     UpsertAuthStateStep, SaveAuthenticationStateStep, AssignCustomersToProgramStep,
     RefreshCustomerTokenStep, GetBackofficeJwtDataStep
     DEF Handler, createAccountIn123, createCustomerAccount
<1>3. CASE UNCHANGED vars
  <2>1. Kept /\ \A u \in Users : UserOK(u)'
    BY <1>3, RowsKept DEF vars
  <2>2. ASSUME NEW r \in Requests PROVE RequestOK(req[r])'
    <3>1. PICK x \in Request : x = req[r] /\ RequestOK(x) /\ x = req'[r]
      BY <1>3 DEF vars, IInv, TypeOK
    <3> QED
      BY <2>1, <3>1, OthersKnow
  <2> QED
    BY <1>3, <2>1, <2>2 DEF vars, IInv, TypeOK
<1> QED
  BY <1>1, <1>2, <1>3, MigrateUsersStep, ScriptAuthStateStep, AbortStep DEF Next

\* The type invariant of Onboarding.
THEOREM TypeCorrect == Spec => []TypeOK
<1>1. IInv => TypeOK
  BY DEF IInv
<1> QED
  BY <1>1, InitIInv, NextIInv, PTL DEF Spec

\* Whatever registrations, logins and scripts race and fail, nobody has an auth state
\* without profile, or one that names a customer without account.
THEOREM AuthStateCompleteThm == Spec => []AuthStateComplete
<1>1. IInv => AuthStateComplete
  BY DEF IInv, UserOK, AuthStateComplete
<1> QED
  BY <1>1, InitIInv, NextIInv, PTL DEF Spec

\* A login whose token names a customer, of a user who is not one of the migration's,
\* presents the device the account was created with.
THEOREM LoginReusesDeviceThm == Spec => []LoginReusesDevice
<1>1. IInv => LoginReusesDevice
  BY DEF IInv, RequestOK, LoginReusesDevice, At, User
<1> QED
  BY <1>1, InitIInv, NextIInv, PTL DEF Spec

-----------------------------------------------------------------------------
(* The crypto wallet *)

CONSTANTS Wallets, Duplicates
VARIABLES made, row, shown, wreq

W == INSTANCE UserWallet WITH req <- wreq

\* What a request in flight has established: whose it is and, when it is about to store a
\* wallet, that Crossmint made the wallet for that user.
WalletRequestOK(x) ==
    /\ x.pc # "idle" => x.user \in Users
    /\ x.pc = "insert" => x.wallet \in Wallets /\ made[x.wallet] = x.user

WalletInv ==
    /\ W!TypeOK
    /\ W!OneWalletShown
    /\ W!OwnWallet
    /\ \A r \in Requests : WalletRequestOK(wreq[r])

LEMMA WalletIdleOK == W!IdleRequest \in W!Request /\ WalletRequestOK(W!IdleRequest)
  BY DEF W!IdleRequest, W!Request, WalletRequestOK

\* A step that moves request r to the record x and takes no wallet from its user.
LEMMA WalletRequestMoves ==
    ASSUME W!ConstantsOK, WalletInv, NEW r \in Requests, NEW x \in W!Request,
           wreq' = [wreq EXCEPT ![r] = x],
           made' \in [Wallets -> Users \cup {None}],
           \A w \in Wallets : made[w] # None => made'[w] = made[w],
           x.pc # "idle" => x.user \in Users,
           x.pc = "insert" => x.wallet \in Wallets /\ made'[x.wallet] = x.user
    PROVE  wreq' \in [Requests -> W!Request] /\ \A q \in Requests : WalletRequestOK(wreq[q])'
<1>1. wreq' \in [Requests -> W!Request] /\ wreq'[r] = x
  BY DEF WalletInv, W!TypeOK
<1>2. WalletRequestOK(wreq[r])'
  BY <1>1 DEF WalletRequestOK
<1>3. ASSUME NEW q \in Requests \ {r} PROVE WalletRequestOK(wreq[q])'
  <2>1. wreq'[q] = wreq[q] /\ WalletRequestOK(wreq[q])
    BY DEF WalletInv, W!TypeOK
  <2> QED
    BY <2>1 DEF W!ConstantsOK, WalletRequestOK
<1> QED
  BY <1>1, <1>2, <1>3

\* A user is shown the wallet stored for them.
LEMMA ShowsRow ==
    ASSUME W!ConstantsOK, WalletInv, NEW u \in Users, row[u] # None,
           shown' = [shown EXCEPT ![u] = @ \cup {row[u]}], UNCHANGED row
    PROVE  shown' \in [Users -> SUBSET Wallets] /\ W!OneWalletShown'
<1>1. row[u] \in Wallets /\ shown[u] \in SUBSET Wallets
  BY DEF WalletInv, W!TypeOK
<1>2. shown'[u] = shown[u] \cup {row[u]} /\ \A v \in Users \ {u} : shown'[v] = shown[v]
  BY DEF WalletInv, W!TypeOK
<1>3. shown' \in [Users -> SUBSET Wallets]
  BY <1>1 DEF WalletInv, W!TypeOK
<1>4. W!OneWalletShown'
  BY <1>2 DEF WalletInv, W!OneWalletShown
<1> QED
  BY <1>3, <1>4

LEMMA CreateOrGetWalletStep ==
    ASSUME W!ConstantsOK, WalletInv, NEW r \in Requests, NEW u \in Users, W!createOrGetWallet(r, u)
    PROVE  WalletInv'
<1>1. UNCHANGED <<made, row>>
  BY DEF W!createOrGetWallet
<1>2. CASE row[u] # None
  <2>1. shown' = [shown EXCEPT ![u] = @ \cup {row[u]}] /\ UNCHANGED wreq
    BY <1>2 DEF W!createOrGetWallet
  <2>2. shown' \in [Users -> SUBSET Wallets] /\ W!OneWalletShown'
    BY <1>1, <1>2, <2>1, ShowsRow
  <2> QED
    BY <1>1, <2>1, <2>2 DEF WalletInv, W!TypeOK, W!OwnWallet, WalletRequestOK
<1>3. CASE row[u] = None
  <2> DEFINE x == [pc |-> "create", user |-> u, wallet |-> None]
  <2>1. x \in W!Request /\ x.pc = "create" /\ x.user = u
    BY DEF W!Request
  <2>2. wreq' = [wreq EXCEPT ![r] = x] /\ UNCHANGED shown
    BY <1>3 DEF W!createOrGetWallet
  <2> HIDE DEF x
  <2>3. wreq' \in [Requests -> W!Request] /\ \A q \in Requests : WalletRequestOK(wreq[q])'
    BY <1>1, <2>1, <2>2, WalletRequestMoves DEF WalletInv, W!TypeOK
  <2> QED
    BY <1>1, <2>2, <2>3 DEF WalletInv, W!TypeOK, W!OneWalletShown, W!OwnWallet
<1> QED
  BY <1>2, <1>3

LEMMA GetWalletByUserStep ==
    ASSUME W!ConstantsOK, WalletInv, NEW u \in Users, W!getWalletByUser(u)
    PROVE  WalletInv'
<1>1. shown' \in [Users -> SUBSET Wallets] /\ W!OneWalletShown'
  BY ShowsRow DEF W!getWalletByUser
<1> QED
  BY <1>1 DEF W!getWalletByUser, WalletInv, W!TypeOK, W!OwnWallet, WalletRequestOK

LEMMA CreateWalletStep ==
    ASSUME W!ConstantsOK, WalletInv, NEW r \in Requests, W!createWallet(r)
    PROVE  WalletInv'
<1>1. PICK w \in Wallets :
        /\ made[w] = None
        /\ made' = [made EXCEPT ![w] = wreq[r].user]
        /\ wreq' = [wreq EXCEPT ![r].pc = "insert", ![r].wallet = w]
  BY DEF W!createWallet
<1> DEFINE x == [wreq[r] EXCEPT !.pc = "insert", !.wallet = w]
<1>2. wreq[r] \in W!Request /\ wreq[r].user \in Users
  BY DEF W!createWallet, W!At, WalletInv, W!TypeOK, WalletRequestOK
<1>3. x \in W!Request /\ x.pc = "insert" /\ x.wallet = w /\ x.user = wreq[r].user
  BY <1>2 DEF W!Request
<1>4. wreq' = [wreq EXCEPT ![r] = x]
  BY <1>1 DEF WalletInv, W!TypeOK
<1>5. made' \in [Wallets -> Users \cup {None}] /\ made'[w] = wreq[r].user
  BY <1>1, <1>2 DEF WalletInv, W!TypeOK
<1>6. \A v \in Wallets : made[v] # None => made'[v] = made[v]
  BY <1>1 DEF WalletInv, W!TypeOK
<1> HIDE DEF x
<1>7. wreq' \in [Requests -> W!Request] /\ \A q \in Requests : WalletRequestOK(wreq[q])'
  BY <1>2, <1>3, <1>4, <1>5, <1>6, WalletRequestMoves
<1>8. UNCHANGED <<row, shown>>
  BY DEF W!createWallet
<1>9. W!OwnWallet'
  BY <1>6, <1>8 DEF W!ConstantsOK, WalletInv, W!TypeOK, W!OwnWallet
<1> QED
  BY <1>5, <1>7, <1>8, <1>9 DEF WalletInv, W!TypeOK, W!OneWalletShown

\* Steps that end the request and write neither rows nor wallets.
LEMMA WalletEndStep ==
    ASSUME W!ConstantsOK, WalletInv, NEW r \in Requests, W!Finish(r), UNCHANGED <<made, row, shown>>
    PROVE  WalletInv'
<1>1. wreq' \in [Requests -> W!Request] /\ \A q \in Requests : WalletRequestOK(wreq[q])'
  BY WalletIdleOK, WalletRequestMoves DEF W!Finish, W!IdleRequest, WalletInv, W!TypeOK
<1> QED
  BY <1>1 DEF WalletInv, W!TypeOK, W!OneWalletShown, W!OwnWallet

LEMMA WalletExistsStep ==
    ASSUME W!ConstantsOK, WalletInv, NEW r \in Requests, W!WalletExists(r)
    PROVE  WalletInv'
BY WalletEndStep DEF W!WalletExists

\* The unique key: the wallet is stored, and shown, only where there was none.
LEMMA StoreWalletStep ==
    ASSUME W!ConstantsOK, WalletInv, NEW r \in Requests, W!create(r)
    PROVE  WalletInv'
<1>1. PICK u \in Users : u = wreq[r].user
  BY DEF W!create, W!At, WalletInv, WalletRequestOK
<1>2. PICK w \in Wallets : w = wreq[r].wallet /\ made[w] = u
  BY <1>1 DEF W!create, W!At, WalletInv, WalletRequestOK
<1>3. W!Finish(r) /\ UNCHANGED made
  BY DEF W!create
<1>4. CASE row[u] = None
  <2>1. /\ row' = [row EXCEPT ![u] = w]
        /\ shown' = [shown EXCEPT ![u] = @ \cup {w}]
    BY <1>1, <1>2, <1>4 DEF W!create
  <2>2. /\ row' \in [Users -> Wallets \cup {None}] /\ row'[u] = w
        /\ \A v \in Users \ {u} : row'[v] = row[v]
    BY <2>1 DEF WalletInv, W!TypeOK
  <2>3. /\ shown' \in [Users -> SUBSET Wallets] /\ shown'[u] = shown[u] \cup {w}
        /\ \A v \in Users \ {u} : shown'[v] = shown[v]
    BY <2>1 DEF WalletInv, W!TypeOK
  <2>4. shown[u] = {}
    BY <1>4 DEF W!ConstantsOK, WalletInv, W!TypeOK, W!OneWalletShown
  <2>5. W!OneWalletShown'
    BY <2>2, <2>3, <2>4 DEF WalletInv, W!OneWalletShown
  <2>6. W!OwnWallet'
    BY <1>2, <1>3, <2>2 DEF WalletInv, W!OwnWallet
  <2>7. wreq' \in [Requests -> W!Request] /\ \A q \in Requests : WalletRequestOK(wreq[q])'
    BY <1>3, WalletIdleOK, WalletRequestMoves DEF W!Finish, W!IdleRequest, WalletInv, W!TypeOK
  <2> QED
    BY <1>3, <2>1, <2>2, <2>3, <2>5, <2>6, <2>7 DEF WalletInv, W!TypeOK
<1>5. CASE row[u] # None
  <2>1. UNCHANGED <<row, shown>>
    BY <1>1, <1>5 DEF W!create
  <2> QED
    BY <1>3, <2>1, WalletEndStep
<1> QED
  BY <1>4, <1>5

LEMMA WalletFailStep ==
    ASSUME W!ConstantsOK, WalletInv, NEW r \in Requests, W!Fail(r)
    PROVE  WalletInv'
BY WalletEndStep DEF W!Fail

LEMMA InitWalletInv == ASSUME W!ConstantsOK PROVE W!Init => WalletInv
  BY WalletIdleOK DEF W!ConstantsOK, W!Init, WalletInv, W!TypeOK, W!OneWalletShown, W!OwnWallet

LEMMA NextWalletInv == ASSUME W!ConstantsOK PROVE WalletInv /\ [W!Next]_W!vars => WalletInv'
<1> SUFFICES ASSUME WalletInv, [W!Next]_W!vars PROVE WalletInv'
  OBVIOUS
<1>1. ASSUME NEW u \in Users, W!Ask(u) \/ W!getWalletByUser(u) PROVE WalletInv'
  BY <1>1, CreateOrGetWalletStep, GetWalletByUserStep DEF W!Ask
<1>2. ASSUME NEW r \in Requests, W!Handler(r) \/ W!Fail(r) PROVE WalletInv'
  BY <1>2, CreateWalletStep, WalletExistsStep, StoreWalletStep, WalletFailStep DEF W!Handler
<1>3. CASE UNCHANGED W!vars
  BY <1>3 DEF W!vars, WalletInv, W!TypeOK, W!OneWalletShown, W!OwnWallet, WalletRequestOK
<1> QED
  BY <1>1, <1>2, <1>3 DEF W!Next

\* Every answer a user ever gets names the one wallet stored for them, which Crossmint
\* made for that user, whatever requests overlap or fail.
THEOREM WalletSafety == ASSUME W!ConstantsOK PROVE W!Spec => [](W!OneWalletShown /\ W!OwnWallet)
<1>1. WalletInv => W!OneWalletShown /\ W!OwnWallet
  BY DEF WalletInv
<1> QED
  BY <1>1, InitWalletInv, NextWalletInv, PTL DEF W!Spec
=============================================================================
