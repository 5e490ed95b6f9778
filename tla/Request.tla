------------------------------ MODULE Request -------------------------------
(***************************************************************************)
(* One GET of scripts/upstreams.py: the function request and the delay     *)
(* between its attempts.  The attempts of a GET are steps, the rest of the *)
(* world moves between them.                                               *)
(***************************************************************************)
EXTENDS Integers

CONSTANT Attempts    \* HTTP_ATTEMPTS

ASSUME AttemptsAssumption == Attempts \in Nat \ {0}

VARIABLE attempt     \* how many attempts of the current GET have failed

\* A time-out, a refused or reset connection, an answer that is cut short.
NoStatus == 0

\* HTTP_RETRY_STATUS
RetryStatus == {408, 425, 429, 500, 502, 503, 504, 507, 509, 522, 524}

Transient(status) == status = NoStatus \/ status \in RetryStatus

AtMost(m, n) == IF m <= n THEN m ELSE n

\* 3 * 2^n seconds, as far as they are below 60.
Backoff == <<3, 6, 12, 24, 48>>

\* retry_delay in seconds, without its jitter: the header Retry-After, when
\* there is one and it is a number, or exponential backoff.
RetryDelay(n, after) ==
  IF after # {} THEN AtMost(CHOOSE seconds \in after : TRUE, 60)
  ELSE IF n + 1 \in DOMAIN Backoff THEN Backoff[n + 1]
  ELSE 60

\* Defective variants: there is no last attempt, or one attempt less.
RetriesForEver(status, after) == Transient(status) /\ RetryDelay(attempt, after) >= 0

RetriesOnceLess(status, after) ==
  /\ Transient(status)
  /\ attempt < Attempts - 2
  /\ RetryDelay(attempt, after) >= 0

\* The next attempt follows after the delay; time.sleep refuses a negative one.
Retries(status, after) ==
  /\ Transient(status)
  /\ attempt < Attempts - 1
  /\ RetryDelay(attempt, after) >= 0

\* The exception the caller sees: the last failure, or the ValueError of
\* time.sleep, which has no status.
RaisedStatus(status) ==
  IF Transient(status) /\ attempt < Attempts - 1 THEN NoStatus ELSE status

\* Defective variant: the count starts over before it comes to its end.
CountStartsOver == attempt' = (attempt + 1) % (Attempts - 1)

CountAttempt == attempt' = attempt + 1

NextGet == attempt' = 0
=============================================================================
