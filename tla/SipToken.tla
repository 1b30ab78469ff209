------------------------------- MODULE SipToken -------------------------------
(***************************************************************************)
(* The bearer token of the SIP payments API: SipAuthService keeps one in    *)
(* the process, SipBmscService.withToken uses it for generateQr and, when   *)
(* it is refused, fetches another and repeats the call once.  Requests      *)
(* interleave at their awaited calls and share the cache.  Time counts in   *)
(* units of the configuration: a call is given up after Timeout, a token    *)
(* works for Validity from its issue and is cached for Ttl from the moment  *)
(* its answer arrives.  The SIP servers are external.                       *)
(***************************************************************************)
EXTENDS Naturals

CONSTANTS
    Requests,
    Validity,   \* external: how long SIP accepts a token
    Ttl,        \* config.sip.tokenCacheTtlSeconds
    Timeout,    \* config.sip.timeoutMs
    MaxTime,    \* bound on the clock
    Faults,     \* which of FaultKinds may happen
    None

\* auth: generarToken fails or answers another codigo; denied: 403; revoked: SIP
\* forgets its tokens; error: generaQr fails or its answer is lost; crash: restart
FaultKinds == {"auth", "denied", "revoked", "error", "crash"}

\* What the configuration and the validity of SIP's tokens have to satisfy.
TimesOK ==
    /\ Validity \in Nat /\ Ttl \in Nat /\ Timeout \in Nat /\ MaxTime \in Nat
    /\ Ttl + Timeout <= Validity
    /\ None \notin Nat
    /\ Faults \subseteq FaultKinds

VARIABLES
    now,
    cache,      \* the module variable `cache`
    minIssue,   \* external: tokens issued before this time are revoked
    qrs,        \* history: the QRs SIP made for each request
    req

vars == <<now, cache, minIssue, qrs, req>>

\* A token is known by the time of its issue.  sent: when the call in flight started.
Request == [pc : {"idle", "auth", "issued", "call", "reauth", "reissued", "retry"},
            token : Nat \cup {None}, sent : Nat]
IdleRequest == [pc |-> "idle", token |-> None, sent |-> 0]
NoToken == [token |-> None, expiresAt |-> 0]

TypeOK ==
    /\ now \in Nat /\ minIssue \in Nat
    /\ cache \in [token : Nat \cup {None}, expiresAt : Nat]
    /\ qrs \in [Requests -> Nat]
    /\ req \in [Requests -> Request]

Init ==
    /\ now = 0 /\ minIssue = 0
    /\ cache = NoToken
    /\ qrs = [r \in Requests |-> 0]
    /\ req = [r \in Requests |-> IdleRequest]

At(r, label) == req[r].pc = label

Set(r, pc, token) == req' = [req EXCEPT ![r] = [pc |-> pc, token |-> token, sent |-> now]]

Finish(r) == req' = [req EXCEPT ![r] = IdleRequest]

Valid(token) == token >= minIssue /\ now < token + Validity

-----------------------------------------------------------------------------
\* refreshToken up to its await: the cache is emptied first.
refreshToken(r, pc) == cache' = NoToken /\ Set(r, pc, None)

\* A generateQr request: the cached token while it lasts, otherwise a new one.
getToken(r) ==
    /\ At(r, "idle") /\ qrs[r] = 0
    /\ IF cache # NoToken /\ cache.expiresAt > now
       THEN Set(r, "call", cache.token) /\ UNCHANGED cache
       ELSE refreshToken(r, "auth")
    /\ UNCHANGED <<now, minIssue, qrs>>

\* external: generarToken issues a token and answers later.
IssueToken(r) ==
    /\ req[r].pc \in {"auth", "reauth"}
    /\ req' = [req EXCEPT ![r] = [pc |-> IF At(r, "auth") THEN "issued" ELSE "reissued",
                                  token |-> now, sent |-> req[r].sent]]
    /\ UNCHANGED <<now, cache, minIssue, qrs>>

\* mutant: the lifetime in the cache is that of the token
CacheForValidity(r) ==
    /\ req[r].pc \in {"issued", "reissued"}
    /\ cache' = [token |-> req[r].token, expiresAt |-> now + Validity]
    /\ Set(r, IF At(r, "issued") THEN "call" ELSE "retry", req[r].token)
    /\ UNCHANGED <<now, minIssue, qrs>>

\* The answer arrives: the token is cached from now on and used at once.
CacheToken(r) ==
    /\ req[r].pc \in {"issued", "reissued"}
    /\ cache' = [token |-> req[r].token, expiresAt |-> now + Ttl]
    /\ Set(r, IF At(r, "issued") THEN "call" ELSE "retry", req[r].token)
    /\ UNCHANGED <<now, minIssue, qrs>>

AuthFails(r) ==
    /\ "auth" \in Faults
    /\ req[r].pc \in {"auth", "issued", "reauth", "reissued"}
    /\ Finish(r)
    /\ UNCHANGED <<now, cache, minIssue, qrs>>

-----------------------------------------------------------------------------
\* SIP refuses an unknown token with 401 and, with a fault, a known one with 403;
\* sipInstance turns both into UnauthorizedError.
Unauthorized(r) == ~Valid(req[r].token) \/ "denied" \in Faults

\* mutant: the repeated call is repeated as well
RetryForever(r) ==
    /\ req[r].pc \in {"call", "retry"} /\ Unauthorized(r) /\ refreshToken(r, "reauth")
    /\ UNCHANGED <<now, minIssue, qrs>>

\* withToken: an UnauthorizedError of the first call is answered with a new token,
\* one of the second is thrown.
withToken(r) ==
    /\ \/ At(r, "call") /\ Unauthorized(r) /\ refreshToken(r, "reauth")
       \/ At(r, "retry") /\ Unauthorized(r) /\ Finish(r) /\ UNCHANGED cache
    /\ UNCHANGED <<now, minIssue, qrs>>

\* SIP makes the QR; the caller goes on to store it (SipPayments).
generateQr(r) ==
    /\ req[r].pc \in {"call", "retry"}
    /\ Valid(req[r].token)
    /\ qrs' = [qrs EXCEPT ![r] = @ + 1]
    /\ Finish(r)
    /\ UNCHANGED <<now, cache, minIssue>>

\* mutant: any error is retried with a new token
RetryAnyError(r) ==
    /\ At(r, "call") /\ "error" \in Faults
    /\ \/ Valid(req[r].token) /\ qrs' = [qrs EXCEPT ![r] = @ + 1]
       \/ UNCHANGED qrs
    /\ refreshToken(r, "reauth")
    /\ UNCHANGED <<now, minIssue>>

\* Any other error, a timeout included, is thrown.
CallFails(r) ==
    /\ req[r].pc \in {"call", "retry"} /\ "error" \in Faults
    /\ Finish(r)
    /\ UNCHANGED <<now, cache, minIssue, qrs>>

-----------------------------------------------------------------------------
InFlight(r) == ~At(r, "idle")

\* axios gives a call up after Timeout, so time does not pass it while one is open.
Tick ==
    /\ now < MaxTime
    /\ \A r \in Requests : InFlight(r) => now < req[r].sent + Timeout
    /\ now' = now + 1
    /\ UNCHANGED <<cache, minIssue, qrs, req>>

\* external: SIP forgets every token it issued so far.
Revoke ==
    /\ "revoked" \in Faults
    /\ minIssue' = now + 1
    /\ now' = now + 1 /\ now < MaxTime
    /\ \A r \in Requests : InFlight(r) => now < req[r].sent + Timeout
    /\ UNCHANGED <<cache, qrs, req>>

Crash ==
    /\ "crash" \in Faults
    /\ cache' = NoToken
    /\ req' = [r \in Requests |-> IdleRequest]
    /\ UNCHANGED <<now, minIssue, qrs>>

Handler(r) == IssueToken(r) \/ CacheToken(r) \/ AuthFails(r)
                \/ withToken(r) \/ generateQr(r) \/ CallFails(r)

Next == (\E r \in Requests : getToken(r) \/ Handler(r)) \/ Tick \/ Revoke \/ Crash

Spec == Init /\ [][Next]_vars

\* The event loop runs every request; a call ends by its answer or its timeout.
FairSpec == Spec /\ \A r \in Requests : WF_vars(Handler(r))

-----------------------------------------------------------------------------
(* Properties *)

\* "Returns a valid Bearer token, using cache when still valid": whatever order the
\* answers of concurrent refreshes arrive in, an entry getToken would use is younger
\* than the validity of its token, the time of the answer included.
CachedTokenValid ==
    cache # NoToken /\ cache.expiresAt > now => now < cache.token + Validity

\* The call is repeated only after a refusal, so one request makes at most one QR.
OneQrPerRequest == \A r \in Requests : qrs[r] <= 1

\* "On 401 (token expired), invalidates the cache, fetches a fresh token, and retries":
\* only a token SIP no longer accepts is replaced.
RefreshOnlyOn401 ==
    [][\A r \in Requests : At(r, "call") /\ At(r, "reauth")' => ~Valid(req[r].token)]_vars

\* Every request is answered, also when SIP keeps refusing fresh tokens.
RequestsAnswered == \A r \in Requests : InFlight(r) ~> ~InFlight(r)
=============================================================================
