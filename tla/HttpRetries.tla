---------------------------- MODULE HttpRetries -----------------------------
(***************************************************************************)
(* request_with_retries of core/http.py, which the Snipe-IT, Wazuh and     *)
(* Zabbix clients share.  A caller keeps the number of the attempt, from   *)
(* 0, and asks after every outcome whether it is tried again.              *)
(***************************************************************************)
EXTENDS Integers, Sequences

\* The outcomes of one attempt that the code tells apart.  "lost" is any
\* RequestError after the connection was made: the server may have acted.
Statuses == {"ok", "rejected", "rate_limited", "gateway", "server_error", "other_status"}
Outcomes == Statuses \cup {"not_connected", "lost"}
Failures == Outcomes \ {"ok"}

RETRYABLE_STATUS_CODES == {"rate_limited", "gateway"}

\* The pauses between the attempts, in quarters of a second.
RETRY_DELAYS == <<1, 2>>

MaxAttempts(retry_safe) == IF retry_safe THEN 3 ELSE 1

\* Mutated form of TriesAgain: one attempt too many.
TriesAgainOnceMore(retry_safe, attempt, outcome) ==
    /\ attempt < MaxAttempts(retry_safe)
    /\ \/ outcome = "not_connected"
       \/ retry_safe /\ outcome \in RETRYABLE_STATUS_CODES

\* Whether the loop goes on after the outcome of an attempt.
TriesAgain(retry_safe, attempt, outcome) ==
    /\ attempt + 1 < MaxAttempts(retry_safe)
    /\ \/ outcome = "not_connected"
       \/ retry_safe /\ outcome \in RETRYABLE_STATUS_CODES
=============================================================================
