------------------------------ MODULE Biometric ------------------------------
(***************************************************************************)
(* Biometric login: a device is enrolled with a public key, asks for a      *)
(* challenge and logs its user in by signing it.  BiometricAuthService      *)
(* reads, checks and writes in separate statements, so verifications of     *)
(* one challenge and enrolments of one device interleave.  A signature is   *)
(* abstracted to the key that made it; a key stays with the person whose    *)
(* phone holds it.                                                          *)
(***************************************************************************)
EXTENDS Naturals

CONSTANTS
    Users,
    Keys,         \* key pairs
    KeyOf,        \* whose phone holds a key
    Devices,
    Challenges,   \* challenge ids; bounds how many are created
    Requests,
    Lifetime,     \* 90_000 ms, in units of the clock
    MaxTime,      \* bound on the clock
    Faults,       \* {"abort"}: database calls may fail
    None

ASSUME ConstantsAssumption ==
    /\ KeyOf \in [Keys -> Users]
    /\ Lifetime \in Nat /\ MaxTime \in Nat
    /\ Faults \subseteq {"abort"}
    /\ None \notin Users \cup Keys \cup Devices \cup Challenges

VARIABLES
    now,
    credentials,   \* DeviceCredentials: user and key of each device
    challenges,    \* LoginChallenges
    logins,        \* history: <<challenge, key, user>> of the logins answered
    answered,      \* history: how often each challenge logged somebody in
    req

vars == <<now, credentials, challenges, logins, answered, req>>
tables == <<credentials, challenges>>
history == <<logins, answered>>

-----------------------------------------------------------------------------
Credential == [user : Users \cup {None}, key : Keys \cup {None}]
Challenge == [device : Devices \cup {None}, expiresAt : Nat, used : BOOLEAN]
NoCredential == [user |-> None, key |-> None]
NoChallenge == [device |-> None, expiresAt |-> 0, used |-> FALSE]
Request == [pc : {"idle", "insert", "credential", "markUsed", "touch"},
            device : Devices \cup {None}, challenge : Challenges \cup {None},
            key : Keys \cup {None}, user : Users \cup {None}, expiresAt : Nat]
IdleRequest == [pc |-> "idle", device |-> None, challenge |-> None, key |-> None,
                user |-> None, expiresAt |-> 0]

TypeOK ==
    /\ now \in 0 .. MaxTime
    /\ credentials \in [Devices -> Credential]
    /\ challenges \in [Challenges -> Challenge]
    /\ logins \subseteq Challenges \X Keys \X Users
    /\ answered \in [Challenges -> Nat]
    /\ req \in [Requests -> Request]

Init ==
    /\ now = 0
    /\ credentials = [d \in Devices |-> NoCredential]
    /\ challenges = [c \in Challenges |-> NoChallenge]
    /\ logins = {}
    /\ answered = [c \in Challenges |-> 0]
    /\ req = [r \in Requests |-> IdleRequest]

At(r, label) == req[r].pc = label
Goto(r, label) == req' = [req EXCEPT ![r].pc = label]
Finish(r) == req' = [req EXCEPT ![r] = IdleRequest]

-----------------------------------------------------------------------------
\* One upsert on the unique device_id: the last enrolment owns the device.
enroll(d, k) ==
    /\ credentials' = [credentials EXCEPT ![d] = [user |-> KeyOf[k], key |-> k]]
    /\ UNCHANGED <<now, challenges, history, req>>

createChallenge(r, d) ==
    /\ At(r, "idle")
    /\ credentials[d] # NoCredential
    /\ req' = [req EXCEPT ![r] = [IdleRequest EXCEPT !.pc = "insert", !.device = d,
                                                       !.expiresAt = now + Lifetime]]
    /\ UNCHANGED <<now, tables, history>>

InsertChallenge(r) ==
    /\ At(r, "insert")
    /\ \E c \in Challenges :
        /\ challenges[c] = NoChallenge
        /\ challenges' = [challenges EXCEPT ![c] = [device |-> req[r].device,
                                                    expiresAt |-> req[r].expiresAt,
                                                    used |-> FALSE]]
    /\ Finish(r)
    /\ UNCHANGED <<now, credentials, history>>

\* mutant: used_at is not looked at
VerifyUsed(r, c, k) ==
    /\ At(r, "idle")
    /\ challenges[c].device # None /\ now <= challenges[c].expiresAt
    /\ req' = [req EXCEPT ![r] = [IdleRequest EXCEPT
                    !.pc = "credential", !.device = challenges[c].device,
                    !.challenge = c, !.key = k]]
    /\ UNCHANGED <<now, tables, history>>

\* The challenge must be of the device, unused and not expired; the signature is
\* made with k.
verifyChallenge(r, c, k) ==
    /\ At(r, "idle")
    /\ challenges[c].device # None /\ ~challenges[c].used /\ now <= challenges[c].expiresAt
    /\ req' = [req EXCEPT ![r] = [IdleRequest EXCEPT
                    !.pc = "credential", !.device = challenges[c].device,
                    !.challenge = c, !.key = k]]
    /\ UNCHANGED <<now, tables, history>>

\* The key and the user come from one read of the row.
verifyEs256JwkSignature(r) ==
    /\ At(r, "credential")
    /\ IF credentials[req[r].device].key = req[r].key
       THEN req' = [req EXCEPT ![r].pc = "markUsed",
                               ![r].user = credentials[req[r].device].user]
       ELSE Finish(r)
    /\ UNCHANGED <<now, tables, history>>

\* mutant: the challenge is left open
LeaveUnused(r) ==
    /\ At(r, "markUsed")
    /\ Goto(r, "touch")
    /\ UNCHANGED <<now, tables, history>>

markUsed(r) ==
    /\ At(r, "markUsed")
    /\ challenges' = [challenges EXCEPT ![req[r].challenge].used = TRUE]
    /\ Goto(r, "touch")
    /\ UNCHANGED <<now, credentials, history>>

\* mutant: the login is for the user who holds the device by now
LoginCurrentHolder(r) ==
    /\ At(r, "touch")
    /\ logins' = logins \cup {<<req[r].challenge, req[r].key, credentials[req[r].device].user>>}
    /\ answered' = [answered EXCEPT ![req[r].challenge] = @ + 1]
    /\ Finish(r)
    /\ UNCHANGED <<now, tables>>

\* last_used_at is written and the login goes on for the user read before.
touchLastUsed(r) ==
    /\ At(r, "touch")
    /\ logins' = logins \cup {<<req[r].challenge, req[r].key, req[r].user>>}
    /\ answered' = [answered EXCEPT ![req[r].challenge] = @ + 1]
    /\ Finish(r)
    /\ UNCHANGED <<now, tables>>

\* A failed database call, or a crash, ends a request.
Abort(r) ==
    /\ "abort" \in Faults /\ ~At(r, "idle")
    /\ Finish(r)
    /\ UNCHANGED <<now, tables, history>>

Tick == now < MaxTime /\ now' = now + 1 /\ UNCHANGED <<tables, history, req>>

Next ==
    \/ Tick
    \/ \E d \in Devices, k \in Keys : enroll(d, k)
    \/ \E r \in Requests :
        \/ \E d \in Devices : createChallenge(r, d)
        \/ \E c \in Challenges, k \in Keys : verifyChallenge(r, c, k)
        \/ InsertChallenge(r) \/ verifyEs256JwkSignature(r) \/ markUsed(r)
        \/ touchLastUsed(r) \/ Abort(r)

Spec == Init /\ [][Next]_vars

-----------------------------------------------------------------------------
(* Properties *)

\* A biometric login is always for the person whose key signed the challenge, although
\* the device may be enrolled by somebody else between any two reads.
SignerLogsIn == \A l \in logins : l[3] = KeyOf[l[2]]

\* A challenge that logged somebody in is closed for good.
LoginClosesChallenge ==
    \A c \in Challenges : answered[c] > 0 => challenges[c].used

\* No verification that starts after a login with the same challenge succeeds.
ClosedStaysClosed ==
    [][\A r \in Requests : At(r, "idle") /\ At(r, "credential")'
            => answered[req'[r].challenge] = 0]_vars

\* "Challenge already used": a challenge logs in at most once.
ChallengeUsedOnce == \A c \in Challenges : answered[c] <= 1
=============================================================================
