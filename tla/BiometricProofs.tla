---------------------------- MODULE BiometricProofs ---------------------------
(***************************************************************************)
(* Proofs about Biometric, for any number of users, keys, devices,          *)
(* challenges and requests, any lifetime and any length of the clock.       *)
(***************************************************************************)
EXTENDS Biometric, TLAPS

\* What a request in flight has established.  The user it will log in was read with the
\* key that signed, and by the last step the challenge is closed.
RequestOK(x) ==
    /\ x.pc = "insert" => x.device \in Devices
    /\ x.pc \in {"credential", "markUsed", "touch"} =>
            x.device \in Devices /\ x.challenge \in Challenges /\ x.key \in Keys
    /\ x.pc \in {"markUsed", "touch"} => x.user = KeyOf[x.key]
    /\ x.pc = "touch" => challenges[x.challenge].used

\* A device is stored with a key and the holder of that key, or not at all.
CredentialsOK ==
    \A d \in Devices : credentials[d].key # None =>
        credentials[d].user = KeyOf[credentials[d].key]

IInv ==
    /\ TypeOK
    /\ CredentialsOK
    /\ SignerLogsIn
    /\ LoginClosesChallenge
    /\ \A r \in Requests : RequestOK(req[r])

\* A step of request r to the record x that reopens no challenge.
LEMMA RequestMoves ==
    ASSUME IInv, NEW r \in Requests, NEW x \in Request,
           req' = [req EXCEPT ![r] = x],
           \A c \in Challenges : challenges[c].used => challenges'[c].used,
           RequestOK(x)'
    PROVE  req' \in [Requests -> Request] /\ \A q \in Requests : RequestOK(req[q])'
<1>1. req' \in [Requests -> Request] /\ req'[r] = x
  BY DEF IInv, TypeOK
<1>2. RequestOK(req[r])'
  BY <1>1 DEF RequestOK
<1>3. ASSUME NEW q \in Requests \ {r} PROVE RequestOK(req[q])'
  <2>1. req'[q] = req[q] /\ RequestOK(req[q])
    BY DEF IInv, TypeOK
  <2> QED
    BY <2>1 DEF RequestOK
<1> QED
  BY <1>1, <1>2, <1>3

\* A step that moves request r and writes nothing else.
LEMMA LocalStep ==
    ASSUME IInv, NEW r \in Requests, NEW x \in Request,
           req' = [req EXCEPT ![r] = x], RequestOK(x),
           UNCHANGED <<now, tables, history>>
    PROVE  IInv'
<1>1. RequestOK(x)'
  BY DEF RequestOK, tables
<1>2. req' \in [Requests -> Request] /\ \A q \in Requests : RequestOK(req[q])'
  BY <1>1, RequestMoves DEF tables
<1> QED
  BY <1>2 DEF IInv, TypeOK, CredentialsOK, SignerLogsIn, LoginClosesChallenge,
              tables, history

LEMMA IdleOK == IdleRequest \in Request /\ IdleRequest.pc = "idle" /\ RequestOK(IdleRequest)
  BY DEF IdleRequest, Request, RequestOK

LEMMA EnrollStep ==
    ASSUME IInv, NEW d \in Devices, NEW k \in Keys, enroll(d, k)
    PROVE  IInv'
<1> DEFINE x == [user |-> KeyOf[k], key |-> k]
<1>1. x \in Credential /\ x.user = KeyOf[k] /\ x.key = k
  BY ConstantsAssumption DEF Credential
<1>2. credentials' = [credentials EXCEPT ![d] = x] /\ UNCHANGED <<now, challenges, history, req>>
  BY DEF enroll
<1> HIDE DEF x
<1>3. credentials' \in [Devices -> Credential] /\ CredentialsOK'
  BY <1>1, <1>2 DEF IInv, TypeOK, CredentialsOK
<1> QED
  BY <1>2, <1>3 DEF IInv, TypeOK, SignerLogsIn, LoginClosesChallenge, RequestOK, history

LEMMA CreateChallengeStep ==
    ASSUME IInv, NEW r \in Requests, NEW d \in Devices, createChallenge(r, d)
    PROVE  IInv'
<1> DEFINE x == [IdleRequest EXCEPT !.pc = "insert", !.device = d, !.expiresAt = now + Lifetime]
<1>1. now + Lifetime \in Nat
  BY ConstantsAssumption DEF IInv, TypeOK
<1>2. x \in Request /\ x.pc = "insert" /\ x.device = d
  BY <1>1 DEF IdleRequest, Request
<1>3. req' = [req EXCEPT ![r] = x] /\ UNCHANGED <<now, tables, history>>
  BY DEF createChallenge
<1> HIDE DEF x
<1>4. RequestOK(x)
  BY <1>2 DEF RequestOK
<1> QED
  BY <1>2, <1>3, <1>4, LocalStep

\* A new challenge takes an id that no login and no request at its last step is about.
LEMMA InsertChallengeStep ==
    ASSUME IInv, NEW r \in Requests, InsertChallenge(r)
    PROVE  IInv'
<1>1. PICK c \in Challenges :
        /\ challenges[c] = NoChallenge
        /\ challenges' = [challenges EXCEPT ![c] = [device |-> req[r].device,
                                expiresAt |-> req[r].expiresAt, used |-> FALSE]]
  BY DEF InsertChallenge
<1> DEFINE x == [device |-> req[r].device, expiresAt |-> req[r].expiresAt, used |-> FALSE]
<1>2. x \in Challenge /\ x.used = FALSE
  BY DEF IInv, TypeOK, Request, Challenge
<1>3. challenges' = [challenges EXCEPT ![c] = x]
  BY <1>1
<1> HIDE DEF x
<1>4. ~challenges[c].used
  BY <1>1 DEF NoChallenge
<1>5. /\ challenges' \in [Challenges -> Challenge]
      /\ \A e \in Challenges : challenges[e].used => challenges'[e].used
  BY <1>2, <1>3, <1>4 DEF IInv, TypeOK
<1>6. RequestOK(IdleRequest)'
  BY DEF IdleRequest, RequestOK
<1>7. req' \in [Requests -> Request] /\ \A q \in Requests : RequestOK(req[q])'
  BY <1>5, <1>6, IdleOK, RequestMoves DEF InsertChallenge, Finish
<1>8. LoginClosesChallenge'
  BY <1>5 DEF IInv, LoginClosesChallenge, InsertChallenge, history
<1> QED
  BY <1>5, <1>7, <1>8
     DEF IInv, TypeOK, CredentialsOK, SignerLogsIn, InsertChallenge, history

LEMMA VerifyChallengeStep ==
    ASSUME IInv, NEW r \in Requests, NEW c \in Challenges, NEW k \in Keys,
           verifyChallenge(r, c, k)
    PROVE  IInv'
<1> DEFINE x == [IdleRequest EXCEPT !.pc = "credential", !.device = challenges[c].device,
                                    !.challenge = c, !.key = k]
<1>1. challenges[c].device \in Devices
  BY DEF verifyChallenge, IInv, TypeOK, Challenge
<1>2. /\ x \in Request /\ x.pc = "credential" /\ x.device \in Devices
      /\ x.challenge = c /\ x.key = k
  BY <1>1 DEF IdleRequest, Request
<1>3. req' = [req EXCEPT ![r] = x] /\ UNCHANGED <<now, tables, history>>
  BY DEF verifyChallenge
<1> HIDE DEF x
<1>4. RequestOK(x)
  BY <1>2 DEF RequestOK
<1> QED
  BY <1>2, <1>3, <1>4, LocalStep

\* Key and user come from one read, so the user is the holder of the key.
LEMMA VerifySignatureStep ==
    ASSUME IInv, NEW r \in Requests, verifyEs256JwkSignature(r)
    PROVE  IInv'
<1>1. UNCHANGED <<now, tables, history>>
  BY DEF verifyEs256JwkSignature
<1>2. /\ req[r] \in Request /\ req[r].device \in Devices
      /\ req[r].challenge \in Challenges /\ req[r].key \in Keys
  BY DEF verifyEs256JwkSignature, At, IInv, TypeOK, RequestOK
<1>3. CASE credentials[req[r].device].key = req[r].key
  <2> DEFINE u == credentials[req[r].device].user
             x == [req[r] EXCEPT !.pc = "markUsed", !.user = u]
  <2>1. u = KeyOf[req[r].key] /\ u \in Users \cup {None}
    BY <1>2, <1>3, ConstantsAssumption DEF IInv, TypeOK, CredentialsOK, Credential
  <2> HIDE DEF u
  <2>2. /\ x \in Request /\ x.pc = "markUsed" /\ x.user = u
        /\ x.device = req[r].device /\ x.challenge = req[r].challenge /\ x.key = req[r].key
    BY <1>2, <2>1 DEF Request
  <2>3. req' = [req EXCEPT ![r] = x]
    BY <1>3 DEF verifyEs256JwkSignature, IInv, TypeOK, u
  <2> HIDE DEF x
  <2>4. RequestOK(x)
    BY <1>2, <2>1, <2>2 DEF RequestOK
  <2> QED
    BY <1>1, <2>2, <2>3, <2>4, LocalStep
<1>4. CASE credentials[req[r].device].key # req[r].key
  BY <1>1, <1>4, IdleOK, LocalStep DEF verifyEs256JwkSignature, Finish
<1> QED
  BY <1>3, <1>4

LEMMA MarkUsedStep ==
    ASSUME IInv, NEW r \in Requests, markUsed(r)
    PROVE  IInv'
<1>1. PICK c \in Challenges : c = req[r].challenge
  BY DEF markUsed, At, IInv, RequestOK
<1>2. challenges' = [challenges EXCEPT ![c].used = TRUE]
  BY <1>1 DEF markUsed
<1>3. challenges[c] \in Challenge
  BY DEF IInv, TypeOK
<1>4. /\ challenges' \in [Challenges -> Challenge] /\ challenges'[c].used
      /\ \A e \in Challenges : challenges[e].used => challenges'[e].used
  BY <1>2, <1>3 DEF IInv, TypeOK, Challenge
<1>5. req[r] \in Request /\ RequestOK(req[r]) /\ req[r].pc = "markUsed"
  BY DEF markUsed, At, IInv, TypeOK
<1>6. PICK x \in Request :
        /\ x = [req[r] EXCEPT !.pc = "touch"]
        /\ x.pc = "touch" /\ x.user = req[r].user
        /\ x.device = req[r].device /\ x.challenge = c /\ x.key = req[r].key
  <2>1. [req[r] EXCEPT !.pc = "touch"] \in Request
    BY <1>5 DEF Request
  <2> QED
    BY <1>1, <1>5, <2>1 DEF Request
<1>7. req' = [req EXCEPT ![r] = x]
  BY <1>6 DEF markUsed, Goto, IInv, TypeOK
<1>8. RequestOK(x)'
  BY <1>4, <1>5, <1>6 DEF RequestOK
<1>9. req' \in [Requests -> Request] /\ \A q \in Requests : RequestOK(req[q])'
  BY <1>4, <1>6, <1>7, <1>8, RequestMoves
<1>10. LoginClosesChallenge'
  BY <1>4 DEF IInv, LoginClosesChallenge, markUsed, history
<1> QED
  BY <1>4, <1>9, <1>10 DEF IInv, TypeOK, CredentialsOK, SignerLogsIn, markUsed, history

LEMMA TouchLastUsedStep ==
    ASSUME IInv, NEW r \in Requests, touchLastUsed(r)
    PROVE  IInv'
<1>1. PICK c \in Challenges, k \in Keys, u \in Users :
        /\ c = req[r].challenge /\ k = req[r].key /\ u = req[r].user
        /\ u = KeyOf[k] /\ challenges[c].used
  BY ConstantsAssumption DEF touchLastUsed, At, IInv, RequestOK
<1>2. /\ logins' = logins \cup {<<c, k, u>>}
      /\ answered' = [answered EXCEPT ![c] = @ + 1]
      /\ Finish(r) /\ UNCHANGED <<now, tables>>
  BY <1>1 DEF touchLastUsed
<1>3. logins' \subseteq Challenges \X Keys \X Users /\ SignerLogsIn'
  BY <1>1, <1>2 DEF IInv, TypeOK, SignerLogsIn
<1>4. answered' \in [Challenges -> Nat] /\ LoginClosesChallenge'
  BY <1>1, <1>2 DEF IInv, TypeOK, LoginClosesChallenge, tables
<1>5. RequestOK(IdleRequest)'
  BY DEF IdleRequest, RequestOK
<1>6. req' \in [Requests -> Request] /\ \A q \in Requests : RequestOK(req[q])'
  BY <1>2, <1>5, IdleOK, RequestMoves DEF Finish, tables
<1> QED
  BY <1>2, <1>3, <1>4, <1>6 DEF IInv, TypeOK, CredentialsOK, tables

LEMMA AbortStep == ASSUME IInv, NEW r \in Requests, Abort(r) PROVE IInv'
  BY IdleOK, LocalStep DEF Abort, Finish

LEMMA TickStep == ASSUME IInv, Tick PROVE IInv'
  BY ConstantsAssumption DEF Tick, IInv, TypeOK, CredentialsOK, SignerLogsIn,
     LoginClosesChallenge, RequestOK, tables, history

LEMMA InitIInv == Init => IInv
  BY IdleOK, ConstantsAssumption
     DEF Init, IInv, TypeOK, CredentialsOK, SignerLogsIn, LoginClosesChallenge,
         Credential, Challenge, NoCredential, NoChallenge

LEMMA NextIInv == IInv /\ [Next]_vars => IInv'
<1> SUFFICES ASSUME IInv, [Next]_vars PROVE IInv'
  OBVIOUS
<1>1. CASE Tick
  BY <1>1, TickStep
<1>2. ASSUME NEW d \in Devices, NEW k \in Keys, enroll(d, k) PROVE IInv'
  BY <1>2, EnrollStep
<1>3. ASSUME NEW r \in Requests, NEW d \in Devices, createChallenge(r, d) PROVE IInv'
  BY <1>3, CreateChallengeStep
<1>4. ASSUME NEW r \in Requests, NEW c \in Challenges, NEW k \in Keys, verifyChallenge(r, c, k)
      PROVE  IInv'
  BY <1>4, VerifyChallengeStep
<1>5. ASSUME NEW r \in Requests,
             \/ InsertChallenge(r) \/ verifyEs256JwkSignature(r) \/ markUsed(r)
             \/ touchLastUsed(r) \/ Abort(r)
      PROVE  IInv'
  BY <1>5, InsertChallengeStep, VerifySignatureStep, MarkUsedStep, TouchLastUsedStep, AbortStep
<1>6. CASE UNCHANGED vars
  BY <1>6 DEF vars, IInv, TypeOK, CredentialsOK, SignerLogsIn, LoginClosesChallenge, RequestOK
<1> QED
  BY <1>1, <1>2, <1>3, <1>4, <1>5, <1>6 DEF Next

\* Only verifyChallenge takes an idle request to the credential check, and it refuses a
\* used challenge; a challenge that logged somebody in is used.
LEMMA VerifiesOpenChallenge ==
    ASSUME IInv, Next, NEW r \in Requests, At(r, "idle"), At(r, "credential")'
    PROVE  answered[req'[r].challenge] = 0
<1>1. ASSUME NEW q \in Requests, NEW c \in Challenges, NEW k \in Keys, verifyChallenge(q, c, k)
      PROVE  answered[req'[r].challenge] = 0
  <2>1. req'[q].challenge = c /\ ~challenges[c].used
    BY <1>1 DEF verifyChallenge, IdleRequest, IInv, TypeOK
  <2>2. q = r
    BY <1>1 DEF verifyChallenge, At, IInv, TypeOK
  <2>3. answered[c] = 0
    BY <2>1 DEF IInv, TypeOK, LoginClosesChallenge
  <2> QED
    BY <2>1, <2>2, <2>3
<1>2. ASSUME NEW q \in Requests, NEW d \in Devices, createChallenge(q, d) PROVE FALSE
  BY <1>2 DEF createChallenge, At, IInv, TypeOK, IdleRequest
<1>3. ASSUME NEW q \in Requests,
             InsertChallenge(q) \/ touchLastUsed(q) \/ Abort(q)
      PROVE  FALSE
  BY <1>3 DEF InsertChallenge, touchLastUsed, Abort, Finish, At, IInv, TypeOK, IdleRequest
<1>4. ASSUME NEW q \in Requests, markUsed(q) PROVE FALSE
  BY <1>4 DEF markUsed, Goto, At, IInv, TypeOK
<1>5. ASSUME NEW q \in Requests, verifyEs256JwkSignature(q) PROVE FALSE
  BY <1>5 DEF verifyEs256JwkSignature, Finish, At, IInv, TypeOK, IdleRequest
<1>6. CASE Tick \/ \E d \in Devices, k \in Keys : enroll(d, k)
  BY <1>6 DEF Tick, enroll, At
<1> QED
  BY <1>1, <1>2, <1>3, <1>4, <1>5, <1>6 DEF Next

\* A biometric login is for the person whose key signed, whoever enrols the device between
\* the reads.
THEOREM SignerLogsInThm == Spec => []SignerLogsIn
<1>1. IInv => SignerLogsIn
  BY DEF IInv
<1> QED
  BY <1>1, InitIInv, NextIInv, PTL DEF Spec

\* A login leaves its challenge closed, also when other verifications hold the challenge.
THEOREM LoginClosesChallengeThm == Spec => []LoginClosesChallenge
<1>1. IInv => LoginClosesChallenge
  BY DEF IInv
<1> QED
  BY <1>1, InitIInv, NextIInv, PTL DEF Spec

\* No verification that starts after a login with the same challenge gets as far as the
\* signature check.
THEOREM ClosedStaysClosedThm == Spec => ClosedStaysClosed
<1>1. IInv /\ [Next]_vars
        => [\A r \in Requests : At(r, "idle") /\ At(r, "credential")'
                => answered[req'[r].challenge] = 0]_vars
  BY VerifiesOpenChallenge
<1> QED
  BY <1>1, InitIInv, NextIInv, PTL DEF Spec, ClosedStaysClosed
=============================================================================
