------------------------------ MODULE Onboarding ------------------------------
(***************************************************************************)
(* How a user becomes a customer of the backoffice and logs in:            *)
(* AuthService.registerByEmail and login, the script                       *)
(* migrate-users-to-backoffice, and the auth state that activate-cards     *)
(* writes.  An account is created at the backoffice first; then two tables *)
(* mirror it, BackofficeCustomerProfile and BackofficeAuthState, in        *)
(* separate statements.  Requests and scripts interleave at every await.   *)
(* The backoffice is external: it refuses a second account for an e-mail   *)
(* and registers the device it was created with.                           *)
(***************************************************************************)
EXTENDS Naturals

CONSTANTS
    Users,
    Targets,      \* the users whose id migrateUsers asks for
    Requests,
    Devices,      \* generated device ids; bounds how many are generated
    MaxTokens,    \* bound on the oauth tokens issued
    Operations,   \* which of AllOperations the instance exercises
    Faults,       \* which of FaultKinds may happen
    None

FaultKinds == {"backoffice", "abort"}
AllOperations == {"register", "login", "migrate", "activate"}

ASSUME ConstantsAssumption ==
    /\ Targets \subseteq Users
    /\ Operations \subseteq AllOperations /\ Faults \subseteq FaultKinds
    /\ MaxTokens \in Nat
    /\ None \notin Devices \cup Users \cup Nat

VARIABLES
    accounts,   \* external: the device each account was created with
    issued,     \* external: oauth tokens issued so far
    program,    \* external: users assigned to the program
    profile,    \* BackofficeCustomerProfile: its oauth_token, None without row
    auth,       \* BackofficeAuthState
    used,       \* device ids generated so far
    req

vars == <<accounts, issued, program, profile, auth, used, req>>
backoffice == <<accounts, issued, program>>

-----------------------------------------------------------------------------
Token == 0 .. MaxTokens
Device == Devices \cup {"script-activation", None}
AuthRow == [deviceId : Device, oauth : Token,
            customer : BOOLEAN]     \* externalCustomerId is set
NoRow == [deviceId |-> None, oauth |-> 0, customer |-> FALSE]
Request == [pc : {"idle", "create", "saveProfile", "saveAuth", "program", "next",
                  "refresh", "store", "activated"},
            op : Operations \cup {None}, user : Users \cup {None}, device : Device,
            customer : BOOLEAN,     \* a login's: externalCustomerId as read
            token : Token,          \* of the answer; 0 when it carries an error
            todo : SUBSET (Users \cup {"auth", "profile"})]
IdleRequest == [pc |-> "idle", op |-> None, user |-> None, device |-> None,
                customer |-> FALSE, token |-> 0, todo |-> {}]

TypeOK ==
    /\ accounts \in [Users -> Device] /\ issued \in Token /\ program \subseteq Users
    /\ profile \in [Users -> Token \cup {None}]
    /\ auth \in [Users -> AuthRow]
    /\ used \subseteq Devices
    /\ req \in [Requests -> Request]

Init ==
    /\ accounts = [u \in Users |-> None] /\ issued = 0 /\ program = {}
    /\ profile = [u \in Users |-> None]
    /\ auth = [u \in Users |-> NoRow]
    /\ used = {}
    /\ req = [r \in Requests |-> IdleRequest]

At(r, label) == req[r].pc = label
User(r) == req[r].user
HasAuth(u) == auth[u].deviceId # None
HasProfile(u) == profile[u] # None

Goto(r, label) == req' = [req EXCEPT ![r] = IF label = "idle" THEN IdleRequest
                                            ELSE [@ EXCEPT !.pc = label]]

\* A thrown error is answered; the script catches it for the user and goes on.
Fail(r) == Goto(r, IF req[r].op = "migrate" THEN "next" ELSE "idle")

Issue == issued < MaxTokens /\ issued' = issued + 1

generateDeviceId(d) == d \in Devices \ used /\ used' = used \cup {d}

-----------------------------------------------------------------------------
(* Registration and migration *)

\* "If already has backoffice profile or auth state, nothing to create" looks at the
\* auth state only.
registerByEmail(r, u) ==
    /\ At(r, "idle") /\ "register" \in Operations
    /\ ~HasAuth(u)
    /\ \E d \in Devices :
        /\ generateDeviceId(d)
        /\ req' = [req EXCEPT ![r] = [IdleRequest EXCEPT !.pc = "create", !.op = "register",
                                                         !.user = u, !.device = d]]
    /\ UNCHANGED <<backoffice, profile, auth>>

\* getUsersForMigration: the users asked for that have no profile now.
migrateUsers(r) ==
    /\ At(r, "idle") /\ "migrate" \in Operations
    /\ req' = [req EXCEPT ![r] = [IdleRequest EXCEPT !.pc = "next", !.op = "migrate",
                                    !.todo = {u \in Targets : ~HasProfile(u)}]]
    /\ UNCHANGED <<backoffice, profile, auth, used>>

\* Invalid data and a profile made meanwhile skip the user.
processUser(r) ==
    /\ At(r, "next")
    /\ \/ req[r].todo = {} /\ Goto(r, "idle") /\ UNCHANGED used
       \/ \E u \in req[r].todo :
            \/ req' = [req EXCEPT ![r] = [req[r] EXCEPT !.todo = @ \ {u}]] /\ UNCHANGED used
            \/ /\ ~HasProfile(u)
               /\ \E d \in Devices :
                    /\ generateDeviceId(d)
                    /\ req' = [req EXCEPT ![r] = [req[r] EXCEPT !.pc = "create", !.user = u,
                                                    !.device = d, !.todo = @ \ {u}]]
    /\ UNCHANGED <<backoffice, profile, auth>>

\* POST /user/v1/account/create: refused for an e-mail that has an account, or for
\* another reason; with a fault the call or its answer is lost.
CreateAccount(r, op) ==
    /\ At(r, "create") /\ req[r].op = op
    /\ \/ /\ accounts[User(r)] = None
          /\ accounts' = [accounts EXCEPT ![User(r)] = req[r].device]
          /\ Issue
          /\ \/ req' = [req EXCEPT ![r] = [@ EXCEPT !.pc = "saveProfile", !.token = issued + 1]]
             \/ "backoffice" \in Faults /\ Fail(r)
       \/ /\ accounts[User(r)] # None \/ "backoffice" \in Faults
          /\ Fail(r)
          /\ UNCHANGED <<accounts, issued>>
    /\ UNCHANGED <<program, profile, auth, used>>

\* A refusal may come as {err} in an answer with status 200.  `rs ?? responseData` is
\* then taken for an account, none of whose fields is defined.
TakenForAccount(r) ==
    /\ At(r, "create") /\ req[r].op = "register"
    /\ accounts[User(r)] # None \/ "backoffice" \in Faults
    /\ Goto(r, "saveProfile")
    /\ UNCHANGED <<backoffice, profile, auth, used>>

createAccountIn123(r) == CreateAccount(r, "register") \/ TakenForAccount(r)

\* The migration does look at `err`, and at the payload.
createCustomerAccount(r) == CreateAccount(r, "migrate")

\* mutant: the auth state is written first
AuthFirst(r) ==
    /\ At(r, "saveProfile") /\ req[r].op = "register"
    /\ auth' = [auth EXCEPT ![User(r)] = [deviceId |-> req[r].device, oauth |-> req[r].token,
                                          customer |-> TRUE]]
    /\ Goto(r, "saveAuth")
    /\ UNCHANGED <<backoffice, profile, used>>

SaveProfile(r, op) ==
    /\ At(r, "saveProfile") /\ req[r].op = op
    /\ profile' = [profile EXCEPT ![User(r)] = req[r].token]
    /\ Goto(r, "saveAuth")
    /\ UNCHANGED <<backoffice, auth, used>>

\* The ids of no account are NaN, which the database client stores as null or refuses;
\* fields that are undefined keep what the row has.
SaveNoProfile(r) ==
    /\ At(r, "saveProfile")
    /\ \/ /\ profile' = [profile EXCEPT ![User(r)] = IF HasProfile(User(r)) THEN @ ELSE 0]
          /\ Goto(r, "saveAuth")
       \/ Fail(r) /\ UNCHANGED profile
    /\ UNCHANGED <<backoffice, auth, used>>

upsertProfile(r) ==
    \/ req[r].token # 0 /\ SaveProfile(r, "register")
    \/ req[r].op = "register" /\ req[r].token = 0 /\ SaveNoProfile(r)

saveCustomerProfile(r) == SaveProfile(r, "migrate")

\* The row a handler upserts: `device` on creation, `kept` on update.
AuthOf(r, device, kept) ==
    [deviceId |-> IF HasAuth(User(r)) THEN kept ELSE device, oauth |-> req[r].token,
     customer |-> TRUE]

\* mutant: a refused registration leaves the customer id alone
RefusedKeepsCustomer(r) ==
    /\ At(r, "saveAuth") /\ req[r].op = "register"
    /\ auth' = [auth EXCEPT ![User(r)] = IF req[r].token # 0
                    THEN AuthOf(r, req[r].device, req[r].device)
                    ELSE [@ EXCEPT !.deviceId = req[r].device]]
    /\ Goto(r, "program")
    /\ UNCHANGED <<backoffice, profile, used>>

\* mutant: the stored device id is only the prefix
RegisterDevicePrefix(r) ==
    /\ At(r, "saveAuth") /\ req[r].op = "register"
    /\ auth' = [auth EXCEPT ![User(r)] = AuthOf(r, "device_", "device_")]
    /\ Goto(r, "program")
    /\ UNCHANGED <<backoffice, profile, used>>

\* Without an account a row cannot be created, as its keys are missing, and one that
\* somebody else made meanwhile loses its customer and its device.
upsertAuthState(r) ==
    /\ At(r, "saveAuth") /\ req[r].op = "register"
    /\ \/ /\ req[r].token # 0
          /\ auth' = [auth EXCEPT ![User(r)] = AuthOf(r, req[r].device, req[r].device)]
          /\ Goto(r, "program")
       \/ /\ req[r].token = 0 /\ HasAuth(User(r))
          /\ auth' = [auth EXCEPT ![User(r)] = [@ EXCEPT !.deviceId = req[r].device,
                                                         !.customer = FALSE]]
          /\ Goto(r, "program")
       \/ /\ req[r].token = 0 /\ ~HasAuth(User(r))
          /\ Fail(r) /\ UNCHANGED auth
    /\ UNCHANGED <<backoffice, profile, used>>

\* The migration generates a device id once more; an update keeps the stored one.
saveAuthenticationState(r) ==
    /\ At(r, "saveAuth") /\ req[r].op = "migrate"
    /\ \E d \in Devices :
        /\ generateDeviceId(d)
        /\ auth' = [auth EXCEPT ![User(r)] = AuthOf(r, d, auth[User(r)].deviceId)]
    /\ Goto(r, "next")
    /\ UNCHANGED <<backoffice, profile>>

\* The last step of the registration; without an account it names no customer.
assignCustomersToProgram(r) ==
    /\ At(r, "program")
    /\ \/ program' = IF req[r].token = 0 THEN program ELSE program \cup {User(r)}
       \/ "backoffice" \in Faults /\ UNCHANGED program
    /\ Goto(r, "idle")
    /\ UNCHANGED <<accounts, issued, profile, auth, used>>

-----------------------------------------------------------------------------
(* Login *)

\* Password and biometric login meet in buildJwtToken, which needs an auth state with
\* a device; refused credentials change nothing.
login(r, u) ==
    /\ At(r, "idle") /\ "login" \in Operations
    /\ HasAuth(u)
    /\ req' = [req EXCEPT ![r] = [IdleRequest EXCEPT !.pc = "refresh", !.op = "login",
                                                     !.user = u, !.device = auth[u].deviceId,
                                                     !.customer = auth[u].customer]]
    /\ UNCHANGED <<backoffice, profile, auth, used>>

\* external: the backoffice accepts the device it registered, and may accept others.
refreshCustomerToken(r) ==
    /\ At(r, "refresh")
    /\ \/ /\ Issue
          /\ req' = [req EXCEPT ![r] = [@ EXCEPT !.pc = "store", !.token = issued + 1,
                                                 !.todo = {"auth", "profile"}]]
       \/ /\ "backoffice" \in Faults \/ req[r].device # accounts[User(r)]
          /\ Goto(r, "idle") /\ UNCHANGED issued
    /\ UNCHANGED <<accounts, program, profile, auth, used>>

\* Promise.all of two updates, each landing in its own time; `wanted` are the tables.
StoreIn(r, wanted) ==
    /\ At(r, "store")
    /\ \E table \in req[r].todo \cap wanted :
        /\ auth' = IF table = "auth" THEN [auth EXCEPT ![User(r)].oauth = req[r].token] ELSE auth
        /\ profile' = IF table = "profile" /\ HasProfile(User(r))
                      THEN [profile EXCEPT ![User(r)] = req[r].token] ELSE profile
        /\ IF req[r].todo \cap wanted = {table} THEN Goto(r, "idle")
           ELSE req' = [req EXCEPT ![r] = [req[r] EXCEPT !.todo = @ \ {table}]]
    /\ UNCHANGED <<backoffice, used>>

\* A failed update of the profile is caught, one of the auth state ends the login.
getBackofficeJwtData(r) == StoreIn(r, {"auth", "profile"})

-----------------------------------------------------------------------------
\* activate-cards for a user with a profile: when the answer carries keys they are
\* stored, with the device id "script-activation" if there is no row yet.
ScriptAuthState(r) ==
    \/ \E u \in Users :
        /\ At(r, "idle") /\ "activate" \in Operations
        /\ HasProfile(u)
        /\ req' = [req EXCEPT ![r] = [IdleRequest EXCEPT !.pc = "activated", !.op = "activate",
                                                         !.user = u]]
        /\ UNCHANGED <<backoffice, profile, auth, used>>
    \/ /\ At(r, "activated")
       /\ auth' = IF HasAuth(User(r)) THEN auth
                  ELSE [auth EXCEPT ![User(r)] = [NoRow EXCEPT !.deviceId = "script-activation"]]
       /\ Goto(r, "idle")
       /\ UNCHANGED <<backoffice, profile, used>>

\* A failed database call; a crash ends all requests one by one.
Abort(r) ==
    /\ "abort" \in Faults /\ ~At(r, "idle")
    /\ Fail(r) \/ Goto(r, "idle")
    /\ UNCHANGED <<backoffice, profile, auth, used>>

Handler(r) ==
    \/ processUser(r) \/ createAccountIn123(r) \/ upsertProfile(r) \/ upsertAuthState(r)
    \/ createCustomerAccount(r) \/ saveCustomerProfile(r)
    \/ saveAuthenticationState(r) \/ assignCustomersToProgram(r)
    \/ refreshCustomerToken(r) \/ getBackofficeJwtData(r)

Next ==
    \E r \in Requests :
        \/ \E u \in Users : registerByEmail(r, u) \/ login(r, u)
        \/ migrateUsers(r) \/ ScriptAuthState(r)
        \/ Handler(r) \/ Abort(r)

Spec == Init /\ [][Next]_vars

-----------------------------------------------------------------------------
(* Properties *)

Quiet == \A r \in Requests : At(r, "idle")

\* registerByEmail takes an auth state for a complete registration, so nobody may have
\* one without profile, or with a customer and without account, whatever fails, races or
\* is taken for an account in between.
AuthStateComplete ==
    \A u \in Users : HasAuth(u) => /\ HasProfile(u)
                                   /\ auth[u].customer => accounts[u] # None

\* "reusedRegisteredDevice: true": a login whose token names a customer presents the
\* device the account was created with, however registrations race, fail and
\* overwrite each other's row.  The rows of the migration are the exception, and the
\* rows with another device that the card script adds, or a refused registration
\* leaves, name no customer: the token says customer 0.
LoginReusesDevice ==
    \A r \in Requests : At(r, "refresh") /\ req[r].customer /\ User(r) \notin Targets =>
        req[r].device = accounts[User(r)]

\* "If already has backoffice profile or auth state, nothing to create": no account is
\* requested for a user with a profile.
NothingToCreate ==
    \A r \in Requests : At(r, "create") => ~HasProfile(User(r))

\* "User already provisioned in backoffice": between requests a user with an auth
\* state has nothing left to do, the program included.
ProvisionedInProgram == Quiet => \A u \in Users : HasAuth(u) => u \in program

\* "Running migration for ALL users without backoffice profiles": when the script is
\* over, no user without profile was passed over.
MigrationCoversAll ==
    [][\A r \in Requests : At(r, "next") /\ ~At(r, "next")' /\ At(r, "idle")'
            => \A u \in Users : HasProfile(u) \/ u \in Targets]_vars
=============================================================================
