---------------------------- MODULE OcrRateLimit ----------------------------
(***************************************************************************)
(* ocr-rate-limit.js: the count of one user's OCR requests in Redis.  The  *)
(* first INCR of a window makes the key, and the EXPIRE that gives it an   *)
(* end is a second call; when a call to Redis fails, the request goes on,   *)
(* counted or not.                                                         *)
(***************************************************************************)
EXTENDS Naturals, FiniteSets

CONSTANTS OcrCalls,   \* requests at a time
          MaxOcr,     \* OCR_RATE_LIMIT_MAX
          MaxCounted  \* bound: the count beyond which no request is made, and the
                      \* requests a window lets through beyond which no INCR fails

ASSUME OcrAssumption == IsFiniteSet(OcrCalls) /\ MaxOcr \in Nat /\ MaxCounted \in Nat

VARIABLES count,      \* the counter; 0: there is no key
          ttl,        \* whether the key has a time to live
          ocr,        \* request -> the count INCR gave it, 0 when there is none
          timed,      \* requests past the EXPIRE, or that need none
          fresh,      \* history: requests the present key counted
          admitted,   \* history: requests let through since the last window ended
          beyond,     \* history: those of them let through by a failing Redis only
          endless     \* history: the key's EXPIRE was never carried out

ocrVars == <<count, ttl, ocr, timed, fresh, admitted, beyond, endless>>

OcrTypeOK ==
  /\ count \in 0..MaxCounted /\ ttl \in BOOLEAN
  /\ ocr \in [OcrCalls -> 0..MaxCounted] /\ timed \subseteq OcrCalls
  /\ fresh \subseteq OcrCalls
  /\ admitted \in Nat /\ beyond \in Nat /\ endless \in BOOLEAN

OcrInit ==
  /\ count = 0 /\ ttl = FALSE
  /\ ocr = [c \in OcrCalls |-> 0] /\ timed = {} /\ fresh = {}
  /\ admitted = 0 /\ beyond = 0 /\ endless = FALSE

First_OldValue(n) == n = 0

\* The request that made the key sets its end.
First(n) == n = 1

Incr(c) ==
  /\ ocr[c] = 0 /\ count < MaxCounted
  /\ count' = count + 1
  /\ ocr' = [ocr EXCEPT ![c] = count + 1]
  /\ timed' = IF First(count + 1) THEN timed \ {c} ELSE timed \cup {c}
  /\ fresh' = fresh \cup {c}
  /\ UNCHANGED <<ttl, admitted, beyond, endless>>

\* EXPIRE of a key that is gone does nothing.
Expire(c) ==
  /\ ocr[c] # 0 /\ c \notin timed
  /\ ttl' = (count > 0)
  /\ timed' = timed \cup {c}
  /\ UNCHANGED <<count, ocr, fresh, admitted, beyond, endless>>

Refused(n) == n > MaxOcr

\* next(), or the exception.
Decide(c) ==
  /\ ocr[c] # 0 /\ c \in timed
  /\ admitted' = IF c \in fresh /\ ~Refused(ocr[c]) THEN admitted + 1 ELSE admitted
  /\ ocr' = [ocr EXCEPT ![c] = 0]
  /\ UNCHANGED <<count, ttl, timed, fresh, beyond, endless>>

\* An INCR fails, carried out or not, and the request goes on.
IncrFails(c) ==
  /\ ocr[c] = 0 /\ admitted < MaxCounted
  /\ admitted' = admitted + 1 /\ beyond' = beyond + 1
  /\ \/ UNCHANGED <<count, endless>>
     \/ count < MaxCounted /\ count' = count + 1 /\ endless' = (endless \/ First(count + 1))
  /\ UNCHANGED <<ttl, ocr, timed, fresh>>

\* A request leaves before it was decided on.
Leaves(c) ==
  /\ ocr[c] # 0
  /\ endless' = (endless \/ c \in fresh \ timed)
  /\ ocr' = [ocr EXCEPT ![c] = 0]
  /\ UNCHANGED <<count, ttl, timed, fresh>>

\* The EXPIRE or the TTL fails, and the request goes on, also one beyond the limit.
CallFails(c) ==
  /\ Leaves(c)
  /\ admitted' = IF c \in fresh THEN admitted + 1 ELSE admitted
  /\ beyond' = IF c \in fresh /\ Refused(ocr[c]) THEN beyond + 1 ELSE beyond

ProcessStops(c) == Leaves(c) /\ UNCHANGED <<admitted, beyond>>

WindowEnds ==
  /\ ttl
  /\ count' = 0 /\ ttl' = FALSE /\ fresh' = {} /\ admitted' = 0 /\ beyond' = 0
  /\ UNCHANGED <<ocr, timed, endless>>

OcrNext ==
  \/ \E c \in OcrCalls :
       Incr(c) \/ Expire(c) \/ Decide(c) \/ IncrFails(c) \/ CallFails(c) \/ ProcessStops(c)
  \/ WindowEnds

\* A counter ends: it has a time to live, or the request that made it is about
\* to set one, unless that request failed between its INCR and its EXPIRE.  And
\* a window lets no more requests through than its limit, however many run at a
\* time, but for those that went on because Redis failed them: they were never
\* counted, or counted beyond the limit.  A failure of a request within the limit
\* leaves no room for another.
LimitEnds ==
  /\ count > 0 => ttl \/ endless \/ \E c \in OcrCalls : ocr[c] # 0 /\ c \notin timed
  /\ admitted <= MaxOcr + beyond
=============================================================================
