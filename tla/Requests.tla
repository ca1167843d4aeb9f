------------------------------- MODULE Requests --------------------------------
(***************************************************************************)
(* The clock of the background services, and the requests they wait for.   *)
(* An answer shows its sender as of some moment between the request and    *)
(* its arrival; a request may fail instead.                                *)
(***************************************************************************)
EXTENDS Integers

CONSTANTS
  Timeout,      \* REQUEST_TIMEOUT_S: no request lasts longer
  MaxNow,       \* bound: the clock
  MaxFailures   \* bound: requests that fail, connections that break

ASSUME RequestsAssumption == Timeout \in Nat \ {0} /\ {MaxNow, MaxFailures} \subseteq Nat

VARIABLES now, failures

RequestsInit == now = 1 /\ failures = 0

Fail          == failures < MaxFailures /\ failures' = failures + 1
Answer(since) == since .. now
=============================================================================
