----------------------------- MODULE TokenCache -----------------------------
(***************************************************************************)
(* SipToken under names that SipPayments does not use, so that the two       *)
(* parts of a QR request, the call with its token and the payment it is      *)
(* for, can be reasoned about side by side.                                  *)
(***************************************************************************)
EXTENDS Naturals

CONSTANTS Callers, Validity, Ttl, Timeout, MaxTime, TokenFaults, NoTime

VARIABLES now, cache, minIssue, tqrs, treq

T == INSTANCE SipToken WITH Requests <- Callers, Faults <- TokenFaults,
                            None <- NoTime, qrs <- tqrs, req <- treq

ASSUME TimesAssumption == T!TimesOK

TokenSpec == T!Spec

FairTokenSpec == T!FairSpec

\* "Returns a valid Bearer token, using cache when still valid": an entry that getToken
\* would use is younger than the validity of its token, whatever order the answers of
\* concurrent refreshes arrive in.
CachedTokenValid == T!CachedTokenValid

\* withToken repeats a call only after a refusal, so one request makes at most one QR.
OneQrPerRequest == T!OneQrPerRequest

\* "On 401 (token expired), invalidates the cache, fetches a fresh token, and retries":
\* only a token SIP no longer accepts is replaced.
RefreshOnlyOn401 == T!RefreshOnlyOn401

\* Every request is answered, also when SIP keeps refusing fresh tokens.
RequestsAnswered == T!RequestsAnswered
=============================================================================
