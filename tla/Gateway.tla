------------------------------ MODULE Gateway ------------------------------
(***************************************************************************)
(* api-gateway: the way of a request to product-service.  The first route  *)
(* whose path is a prefix of the request's takes it through its filters;   *)
(* the circuit breaker of the service then lets it pass or answers 503.    *)
(* Answers count when they come, in whatever state the breaker is by then. *)
(* The breaker's file speaks of a limited number of probes when half open; *)
(* the code lets every request pass until the first answer.                *)
(*                                                                         *)
(* Rate limiters are left out; a refusal of theirs never gets this far.    *)
(***************************************************************************)
EXTENDS Integers, Sequences

CONSTANTS FailureThreshold,
          HalfOpenMax,
          MaxInFlight,  \* bound: requests without an answer
          MaxOutages    \* bound: times the service goes down

ASSUME BreakerAssumption == FailureThreshold \in Nat \ {0} /\ HalfOpenMax \in Nat \ {0}

VARIABLES breaker,   \* the breaker's state and its two counters
          due,       \* resetTimeoutMs have passed since the last failure
          alive,     \* whether the service answers
          sound,     \* requests in flight that the service will answer
          doubtful,  \* those sent while it was down, or before it went down
          outages,
          streak     \* history: failures since the last answer that was none

gatewayVars == <<breaker, due, alive, sound, doubtful, outages, streak>>

Closed == [state |-> "CLOSED", failureCount |-> 0, successCount |-> 0]

GatewayTypeOK ==
  /\ breaker \in [state : {"CLOSED", "OPEN", "HALF_OPEN"},
                  failureCount : 0..FailureThreshold, successCount : 0..HalfOpenMax]
  /\ due \in BOOLEAN /\ alive \in BOOLEAN
  /\ sound \in 0..MaxInFlight /\ doubtful \in 0..MaxInFlight
  /\ outages \in 0..MaxOutages /\ streak \in 0..FailureThreshold

GatewayInit ==
  /\ breaker = Closed /\ due = TRUE
  /\ alive = TRUE /\ sound = 0 /\ doubtful = 0 /\ outages = 0
  /\ streak = 0

-----------------------------------------------------------------------------
(* Routes and filters.                                                      *)

\* The routes of product-service, in the order they are mounted.
Routes == << [path |-> "products/admin", public |-> FALSE, methods |-> {}],
             [path |-> "products", public |-> TRUE, methods |-> {"GET"}],
             [path |-> "products", public |-> FALSE, methods |-> {"POST", "PUT", "PATCH", "DELETE"}] >>

\* A path of the service, and its prefixes.
Prefixes == [products |-> {"products"}, admin |-> {"products", "products/admin"}]

RouteOf(path) ==
  LET matching == {i \in DOMAIN Routes : Routes[i].path \in Prefixes[path]}
  IN  Routes[CHOOSE i \in matching : \A j \in matching : i <= j]

\* authFilter, which asks for a valid token, or optionalAuthFilter, which does
\* not; a method a public route does not list is as on a protected one.
Authorised(path, method, token) ==
  LET route == RouteOf(path)
  IN  token \/ (route.public /\ (route.methods = {} \/ method \in route.methods))

-----------------------------------------------------------------------------
(* The breaker.                                                             *)

Smaller(a, b) == IF a < b THEN a ELSE b

CheckOpenToHalfOpen_Never == breaker

CheckOpenToHalfOpen ==
  IF breaker.state = "OPEN" /\ due
    THEN [breaker EXCEPT !.state = "HALF_OPEN", !.successCount = 0]
    ELSE breaker

OnSuccess_KeepsCount ==
  IF breaker.state = "HALF_OPEN" /\ breaker.successCount + 1 >= HalfOpenMax
    THEN Closed
    ELSE breaker

OnSuccess ==
  IF breaker.state = "HALF_OPEN" /\ breaker.successCount + 1 < HalfOpenMax
    THEN [breaker EXCEPT !.successCount = @ + 1]
    ELSE IF breaker.state = "OPEN" THEN breaker
    ELSE Closed

\* The counter is read only up to the threshold.
OnFailure ==
  LET failures == Smaller(breaker.failureCount + 1, FailureThreshold)
      opens == breaker.state = "HALF_OPEN"
               \/ (breaker.state = "CLOSED" /\ failures >= FailureThreshold)
  IN  [breaker EXCEPT !.failureCount = failures, !.state = IF opens THEN "OPEN" ELSE @]

\* isRejected, and the proxy.
Proxy(path, method, token) ==
  /\ Authorised(path, method, token)
  /\ sound + doubtful < MaxInFlight
  /\ breaker' = CheckOpenToHalfOpen
  /\ IF breaker'.state = "OPEN" THEN UNCHANGED <<sound, doubtful>>
     ELSE IF alive THEN sound' = sound + 1 /\ UNCHANGED doubtful
     ELSE doubtful' = doubtful + 1 /\ UNCHANGED sound
  /\ UNCHANGED <<due, alive, outages, streak>>

\* getState, for /health.
Health ==
  /\ breaker' = CheckOpenToHalfOpen
  /\ UNCHANGED <<due, alive, sound, doubtful, outages, streak>>

Succeeds ==
  /\ breaker' = OnSuccess /\ streak' = 0
  /\ UNCHANGED due

Fails ==
  /\ breaker' = OnFailure /\ due' = FALSE
  /\ streak' = Smaller(streak + 1, FailureThreshold)

\* An answer below 500.
AnswerSound ==
  /\ sound > 0 /\ sound' = sound - 1
  /\ Succeeds
  /\ UNCHANGED <<alive, doubtful, outages>>

\* An answer at last, a 5xx, or none within thirty seconds.
AnswerDoubtful ==
  /\ doubtful > 0 /\ doubtful' = doubtful - 1
  /\ (alive /\ Succeeds) \/ Fails
  /\ UNCHANGED <<alive, sound, outages>>

TimePasses ==
  /\ ~due /\ due' = TRUE
  /\ UNCHANGED <<breaker, alive, sound, doubtful, outages, streak>>

GoesDown ==
  /\ alive /\ outages < MaxOutages
  /\ alive' = FALSE /\ outages' = outages + 1
  /\ doubtful' = doubtful + sound /\ sound' = 0
  /\ UNCHANGED <<breaker, due, streak>>

ComesUp ==
  /\ ~alive /\ alive' = TRUE
  /\ UNCHANGED <<breaker, due, sound, doubtful, outages, streak>>

AnyRequest ==
  \E path \in DOMAIN Prefixes, method \in {"GET", "POST"}, token \in BOOLEAN :
    Proxy(path, method, token)

GatewayNext ==
  \/ AnyRequest \/ Health \/ AnswerSound \/ AnswerDoubtful \/ TimePasses \/ GoesDown \/ ComesUp

\* The proxy's timeouts end every request, and the clock goes on.
GatewayFairness ==
  WF_gatewayVars(AnswerSound) /\ WF_gatewayVars(AnswerDoubtful) /\ WF_gatewayVars(TimePasses)

-----------------------------------------------------------------------------
\* While the breaker is closed it counts exactly the failures in a row, in the
\* order the answers came, whatever state the requests were sent in: it opens
\* for FailureThreshold of them and not for as many with a success between.
CountsInARow ==
  breaker.state = "CLOSED" =>
    breaker.failureCount = streak /\ streak < FailureThreshold

\* A breaker whose service is back and stays so is closed in the end and stays
\* closed, whichever late failures of the outage still come in.
Recovers == <>[]alive => <>[](breaker.state = "CLOSED")
=============================================================================
