------------------------------ MODULE RateLimiter ------------------------------
(***************************************************************************)
(* The fixed-window rate limiters (login and refresh, registration and     *)
(* resend, citizen lookup, password): a counter in Redis for each          *)
(* dimension of a request, such as its address and its e-mail, that one    *)
(* script increments and, when it is new, gives the window as its expiry.  *)
(* The counters of one request are incremented in parallel, in any order   *)
(* with those of others, and the request is judged when all have answered. *)
(* Counts above the limit are alike.                                       *)
(***************************************************************************)
EXTENDS Naturals, FiniteSets

CONSTANTS
  Request,   \* requests under way at once
  Key,       \* counters, of any dimension
  Limit      \* requests a window lets through, for each counter

\* What is asked of the constants; MCBackground assumes it of its instance.
LimitAssumption == Limit \in Nat \ {0}

VARIABLES
  count,    \* 0 when the key is absent
  expires,  \* counters with an expiry
  asked,    \* the counters a request asks
  got,      \* those that have answered it
  over,     \* whether one of the counts was over the limit
  within,   \* history: counters whose window has not ended since they answered it
  passed    \* history: requests let through in the window of a counter

vars == <<count, expires, asked, got, over, within, passed>>

TypeOK ==
  /\ count \in [Key -> 0..(Limit + 1)]
  /\ expires \subseteq Key
  /\ asked \in [Request -> SUBSET Key]
  /\ got \in [Request -> SUBSET Key] /\ within \in [Request -> SUBSET Key]
  /\ \A r \in Request : within[r] \subseteq got[r] /\ got[r] \subseteq asked[r]
  /\ over \in [Request -> BOOLEAN]
  /\ passed \in [Key -> Nat]

Init ==
  /\ count = [k \in Key |-> 0] /\ expires = {}
  /\ asked = [r \in Request |-> {}] /\ got = [r \in Request |-> {}]
  /\ within = [r \in Request |-> {}]
  /\ over = [r \in Request |-> FALSE]
  /\ passed = [k \in Key |-> 0]

\* A request evaluates the script for each of its dimensions.
AssertAllowed(r, K) ==
  /\ asked[r] = {}
  /\ asked' = [asked EXCEPT ![r] = K]
  /\ UNCHANGED <<count, expires, got, over, within, passed>>

IsNew(n) == n = 1

\* Mutant of IsOver: one request more than the limit.
IsOverLate(n) == n > Limit + 1

IsOver(n) == n > Limit

\* INCREMENT_SCRIPT runs in one piece.
Increment(r, k) ==
  LET n == IF count[k] <= Limit THEN count[k] + 1 ELSE count[k] IN
  /\ k \in asked[r] \ got[r]
  /\ count' = [count EXCEPT ![k] = n]
  /\ expires' = IF IsNew(n) THEN expires \cup {k} ELSE expires
  /\ got' = [got EXCEPT ![r] = @ \cup {k}]
  /\ within' = [within EXCEPT ![r] = @ \cup {k}]
  /\ over' = [over EXCEPT ![r] = @ \/ IsOver(n)]
  /\ UNCHANGED <<asked, passed>>

\* All counters have answered: the request is let through unless one was over.
Judge(r) ==
  /\ asked[r] # {} /\ got[r] = asked[r]
  /\ passed' = [k \in Key |->
       IF ~over[r] /\ k \in within[r] THEN passed[k] + 1 ELSE passed[k]]
  /\ asked' = [asked EXCEPT ![r] = {}] /\ got' = [got EXCEPT ![r] = {}]
  /\ within' = [within EXCEPT ![r] = {}]
  /\ over' = [over EXCEPT ![r] = FALSE]
  /\ UNCHANGED <<count, expires>>

\* Redis drops the key.
EndWindow(k) ==
  /\ k \in expires
  /\ count' = [count EXCEPT ![k] = 0] /\ expires' = expires \ {k}
  /\ within' = [r \in Request |-> within[r] \ {k}]
  /\ passed' = [passed EXCEPT ![k] = 0]
  /\ UNCHANGED <<asked, got, over>>

Next ==
  \/ \E r \in Request, K \in (SUBSET Key) \ {{}} : AssertAllowed(r, K)
  \/ \E r \in Request, k \in Key : Increment(r, k)
  \/ \E r \in Request : Judge(r)
  \/ \E k \in Key : EndWindow(k)

Spec == Init /\ [][Next]_vars

\* No window of a counter lets more requests through than the limit, whatever order
\* requests increment their counters in and are judged.
WindowsHold == \A k \in Key : passed[k] <= Limit

\* A counter that refuses requests has an expiry: nobody stays refused for ever.
CountersExpire == \A k \in Key : count[k] > 0 => k \in expires
===============================================================================
