------------------------------- MODULE CallSlots -------------------------------
(***************************************************************************)
(* The limit on concurrent calls of EngineService, and of Argon2 hashing   *)
(* in PasswordPolicyService, in one process: acquire, the call, release.   *)
(*                                                                         *)
(* release wakes the first waiter, and the waiter counts itself only when  *)
(* its continuation runs.  Continuations that are ready run before the     *)
(* next call to the outside can end; one that was ready earlier may enter  *)
(* acquire between the release and the waiter it woke, and then more calls *)
(* run than Maximum.                                                       *)
(***************************************************************************)
EXTENDS Naturals, FiniteSets, Sequences

CONSTANTS
  Caller,
  Maximum   \* MUCYORA_ENGINE_MAX_CONCURRENCY, PASSWORD_HASH_MAX_CONCURRENCY

\* What is asked of the constants; MCBackground assumes it of its instance.
MaximumAssumption == Maximum \in Nat \ {0}

VARIABLES
  pc,       \* of a caller: "idle", "waiting", "woken", "calling"
  active,   \* the count the limit is compared with
  waiters

vars == <<pc, active, waiters>>

At(label) == {c \in Caller : pc[c] = label}

TypeOK ==
  /\ pc \in [Caller -> {"idle", "waiting", "woken", "calling"}]
  /\ active \in Nat
  /\ waiters \in Seq(Caller)
  /\ {waiters[i] : i \in DOMAIN waiters} = At("waiting")
  /\ Len(waiters) = Cardinality(At("waiting"))

Init == pc = [c \in Caller |-> "idle"] /\ active = 0 /\ waiters = <<>>

Full == active >= Maximum

Acquire(c) ==
  /\ pc[c] = "idle"
  /\ IF Full
     THEN /\ pc' = [pc EXCEPT ![c] = "waiting"]
          /\ waiters' = Append(waiters, c)
          /\ UNCHANGED active
     ELSE /\ pc' = [pc EXCEPT ![c] = "calling"]
          /\ active' = active + 1
          /\ UNCHANGED waiters

\* The rest of acquire: the limit is not asked for again.
Resume(c) ==
  /\ pc[c] = "woken"
  /\ pc' = [pc EXCEPT ![c] = "calling"]
  /\ active' = active + 1
  /\ UNCHANGED waiters

Wakes == waiters # <<>>

\* Mutant of Release: the slot is handed to the waiter, which counts itself as well.
ReleaseHandingOver(c) ==
  /\ active' = IF Wakes THEN active ELSE active - 1
  /\ pc' = [d \in Caller |->
       IF d = c THEN "idle" ELSE IF Wakes /\ d = Head(waiters) THEN "woken" ELSE pc[d]]
  /\ waiters' = IF Wakes THEN Tail(waiters) ELSE waiters

\* In a finally: the call answered or failed.
Release(c) ==
  /\ active' = active - 1
  /\ pc' = [d \in Caller |->
       IF d = c THEN "idle" ELSE IF Wakes /\ d = Head(waiters) THEN "woken" ELSE pc[d]]
  /\ waiters' = IF Wakes THEN Tail(waiters) ELSE waiters

EndCall(c) ==
  /\ pc[c] = "calling" /\ At("woken") = {}
  /\ Release(c)

Next == \E c \in Caller : Acquire(c) \/ Resume(c) \/ EndCall(c)

Spec == Init /\ [][Next]_vars

-------------------------------------------------------------------------------
(* Properties                                                              *)

\* The count is that of the calls under way, however releases, waiters and newcomers
\* interleave, so that failures never use the limit up.
ActiveIsCalling == active = Cardinality(At("calling"))

\* Nobody waits unless a call is under way or a waiter has been woken: a release is
\* still to come that wakes the next one.
NobodyStranded == waiters # <<>> => At("calling") \cup At("woken") # {}
===============================================================================
