------------------------------- MODULE Passkeys -------------------------------
(***************************************************************************)
(* Passkeys and recovery codes of one user: PasskeyService.                *)
(*                                                                         *)
(* An authentication takes its challenge from Redis, reads the credential, *)
(* verifies the assertion against the counter it read and writes the new   *)
(* counter and a session.  A registration takes the user's one challenge.  *)
(* A recovery code opens a password-reset request; a rotation replaces the *)
(* codes.  Consuming a code is one conditional update with an insert, so   *)
(* that waiting for the row only orders it among the others; a rotation    *)
(* fixes the rows it revokes when its update starts and asks again for     *)
(* their condition as it gets them.  The level of a session, the listing   *)
(* of credentials and the signatures themselves are left out: an assertion *)
(* verifies against the challenge it was made for.                         *)
(***************************************************************************)
EXTENDS Naturals, FiniteSets

CONSTANTS
  Call,       \* calls in flight
  Credential, \* passkeys, by credential id
  Flow,       \* authentication flows (bound on options asked for)
  Code,       \* recovery codes (bound on rotations)
  First,      \* the codes of the rotation before
  CodeCount,  \* RECOVERY_CODE_COUNT
  MaxCounter, \* bound on the signatures of an authenticator
  None

\* What is asked of the constants; MCAccountFlows assumes it of its instance.
SlotAssumption ==
  None \notin Credential \cup Flow /\ First \subseteq Code /\ IsFiniteSet(Code)

BoundAssumption == CodeCount \in Nat \ {0} /\ MaxCounter \in Nat

VARIABLES
  passkey,   \* PasskeyCredential rows
  signed,    \* the authenticators' own counters
  flow,      \* Redis: "none", "open", "gone" (taken or expired)
  assertion, \* what was signed over a flow's challenge
  challenge, \* Redis: the credential the user's registration challenge was given to
  sessions,  \* sessions created by a flow
  code,      \* AccountRecoveryCode rows: "none", "live", "used", "revoked"
  resets,    \* password-reset requests opened by a code
  pc, asked, seen, \* a call: where it is, the flow and assertion or the credential it
                   \* presents, the counter it read
  older,     \* the codes a rotation means to revoke
  revoked    \* history: the passkeys that were revoked when a call began

rows == <<passkey, signed, flow, assertion, challenge, sessions>>
vars == <<rows, code, resets, pc, asked, seen, older, revoked>>

Counter  == 0..MaxCounter
Asked    == [flow : Flow, signed : Flow] \cup Credential \cup {None}

TypeOK ==
  /\ passkey \in [Credential -> [state : {"none", "active", "revoked"}, counter : Counter]]
  /\ signed \in [Credential -> Counter]
  /\ flow \in [Flow -> {"none", "open", "gone"}]
  /\ assertion \in [Flow -> {None} \cup [credential : Credential, counter : Counter]]
  /\ challenge \in Credential \cup {None}
  /\ sessions \in [Flow -> Nat]
  /\ code \in [Code -> {"none", "live", "used", "revoked"}]
  /\ resets \in [Code -> Nat]
  /\ pc \in [Call -> {"idle", "take", "read", "verify", "store", "takeChallenge", "create",
                      "rotate"}]
  /\ asked \in [Call -> Asked]
  /\ seen \in [Call -> Counter]
  /\ older \in [Call -> SUBSET Code]
  /\ revoked \in [Call -> SUBSET Credential]

Init ==
  /\ passkey = [k \in Credential |-> [state |-> "none", counter |-> 0]]
  /\ signed = [k \in Credential |-> 0]
  /\ flow = [f \in Flow |-> "none"]
  /\ assertion = [f \in Flow |-> None]
  /\ challenge = None
  /\ sessions = [f \in Flow |-> 0]
  /\ code = [r \in Code |-> IF r \in First THEN "live" ELSE "none"]
  /\ resets = [r \in Code |-> 0]
  /\ pc = [c \in Call |-> "idle"]
  /\ asked = [c \in Call |-> None]
  /\ seen = [c \in Call |-> 0]
  /\ older = [c \in Call |-> {}]
  /\ revoked = [c \in Call |-> {}]

Goto(c, label) == pc' = [pc EXCEPT ![c] = label]

\* The call ends, with an answer or an error.
Finish(c) ==
  /\ Goto(c, "idle")
  /\ asked' = [asked EXCEPT ![c] = None]
  /\ seen' = [seen EXCEPT ![c] = 0]
  /\ older' = [older EXCEPT ![c] = {}]
  /\ revoked' = [revoked EXCEPT ![c] = {}]

Refuse(c) == Finish(c) /\ UNCHANGED <<rows, code, resets>>

Revoked == {k \in Credential : passkey[k].state = "revoked"}

-------------------------------------------------------------------------------
(* Authentication                                                          *)

AuthenticationOptions(f) ==
  /\ flow[f] = "none"
  /\ flow' = [flow EXCEPT ![f] = "open"]
  /\ UNCHANGED <<passkey, signed, assertion, challenge, sessions, code, resets, pc, asked,
                 seen, older, revoked>>

\* An authenticator signs the flow's challenge and counts.
Sign(f, k) ==
  /\ flow[f] # "none" /\ assertion[f] = None
  /\ passkey[k].state # "none" /\ signed[k] < MaxCounter
  /\ signed' = [signed EXCEPT ![k] = @ + 1]
  /\ assertion' = [assertion EXCEPT ![f] = [credential |-> k, counter |-> signed[k] + 1]]
  /\ UNCHANGED <<passkey, flow, challenge, sessions, code, resets, pc, asked, seen, older,
                 revoked>>

ExpireFlow(f) ==
  /\ flow[f] = "open"
  /\ flow' = [flow EXCEPT ![f] = "gone"]
  /\ UNCHANGED <<passkey, signed, assertion, challenge, sessions, code, resets, pc, asked,
                 seen, older, revoked>>

\* A flow is presented with an assertion, its own or another flow's, once or more.
VerifyAuthentication(c, f, g) ==
  /\ pc[c] = "idle"
  /\ assertion[g] # None
  /\ asked' = [asked EXCEPT ![c] = [flow |-> f, signed |-> g]]
  /\ revoked' = [revoked EXCEPT ![c] = Revoked]
  /\ Goto(c, "take")
  /\ UNCHANGED <<rows, code, resets, seen, older>>

\* GETDEL
Taken(f) == flow' = [flow EXCEPT ![f] = "gone"]

TakeFlow(c) ==
  /\ pc[c] = "take"
  /\ \/ flow[asked[c].flow] # "open" /\ Refuse(c)
     \/ /\ flow[asked[c].flow] = "open"
        /\ Taken(asked[c].flow)
        /\ Goto(c, "read")
        /\ UNCHANGED <<passkey, signed, assertion, challenge, sessions, code, resets, asked,
                       seen, older, revoked>>

Presented(c) == assertion[asked[c].signed]
Stored(c)    == passkey[Presented(c).credential]

\* Mutant of ReadCredential: a revoked credential is found as well.
ReadAnyCredential(c) ==
  /\ pc[c] = "read"
  /\ seen' = [seen EXCEPT ![c] = Stored(c).counter]
  /\ Goto(c, "verify")
  /\ UNCHANGED <<rows, code, resets, asked, older, revoked>>

ReadCredential(c) ==
  /\ pc[c] = "read"
  /\ \/ Stored(c).state # "active" /\ Refuse(c)
     \/ /\ Stored(c).state = "active"
        /\ seen' = [seen EXCEPT ![c] = Stored(c).counter]
        /\ Goto(c, "verify")
        /\ UNCHANGED <<rows, code, resets, asked, older, revoked>>

\* verifyAuthenticationResponse: the flow's challenge, and a counter above the one read.
Verifies(c) == asked[c].signed = asked[c].flow /\ Presented(c).counter > seen[c]

Verify(c) ==
  /\ pc[c] = "verify"
  /\ \/ ~Verifies(c) /\ Refuse(c)
     \/ /\ Verifies(c)
        /\ Goto(c, "store")
        /\ UNCHANGED <<rows, code, resets, asked, seen, older, revoked>>

NewCounter(c) == Presented(c).counter

\* The transaction: the counter by the row's id, the session and its token.
StoreSession(c) ==
  /\ pc[c] = "store"
  /\ passkey' = [passkey EXCEPT ![Presented(c).credential].counter = NewCounter(c)]
  /\ sessions' = [sessions EXCEPT ![asked[c].flow] = @ + 1]
  /\ Finish(c)
  /\ UNCHANGED <<signed, flow, assertion, challenge, code, resets>>

-------------------------------------------------------------------------------
(* Registration and revocation                                             *)

\* A user has one registration challenge; asking again replaces it.
RegistrationOptions(k) ==
  /\ passkey[k].state # "active" /\ challenge # k
  /\ challenge' = k
  /\ UNCHANGED <<passkey, signed, flow, assertion, sessions, code, resets, pc, asked, seen,
                 older, revoked>>

VerifyRegistration(c, k) ==
  /\ pc[c] = "idle"
  /\ asked' = [asked EXCEPT ![c] = k]
  /\ Goto(c, "takeChallenge")
  /\ UNCHANGED <<rows, code, resets, seen, older, revoked>>

\* GETDEL, whatever the response was made for.
TakeChallenge(c) ==
  /\ pc[c] = "takeChallenge"
  /\ challenge' = None
  /\ \/ challenge = asked[c] /\ Goto(c, "create") /\ UNCHANGED <<asked, seen, older, revoked>>
     \/ challenge # asked[c] /\ Finish(c)
  /\ UNCHANGED <<passkey, signed, flow, assertion, sessions, code, resets>>

\* Credential ids are unique: one that exists, revoked or not, fails the insert.
CreateCredential(c) ==
  /\ pc[c] = "create"
  /\ \/ passkey[asked[c]].state # "none" /\ UNCHANGED passkey
     \/ /\ passkey[asked[c]].state = "none"
        /\ passkey' = [passkey EXCEPT ![asked[c]] =
                         [state |-> "active", counter |-> signed[asked[c]]]]
  /\ Finish(c)
  /\ UNCHANGED <<signed, flow, assertion, challenge, sessions, code, resets>>

RevokeCredential(k) ==
  /\ passkey[k].state = "active"
  /\ passkey' = [passkey EXCEPT ![k].state = "revoked"]
  /\ UNCHANGED <<signed, flow, assertion, challenge, sessions, code, resets, pc, asked, seen,
                 older, revoked>>

-------------------------------------------------------------------------------
(* Recovery codes                                                          *)

Consumable(r) == code[r] = "live"

\* The code and the request it opens, in one transaction.
ConsumeRecoveryCode(r) ==
  /\ Consumable(r)
  /\ code' = [code EXCEPT ![r] = "used"]
  /\ resets' = [resets EXCEPT ![r] = @ + 1]
  /\ UNCHANGED <<rows, pc, asked, seen, older, revoked>>

Unmade == {r \in Code : code[r] = "none"}
Live   == {r \in Code : code[r] = "live"}

\* The update of a rotation starts: these are the codes it revokes.
RotateRecoveryCodes(c) ==
  /\ pc[c] = "idle"
  /\ CodeCount * (1 + Cardinality({d \in Call : pc[d] = "rotate"})) <= Cardinality(Unmade)
  /\ older' = [older EXCEPT ![c] = Live]
  /\ Goto(c, "rotate")
  /\ UNCHANGED <<rows, code, resets, asked, seen, revoked>>

\* The update asks again, so a code consumed meanwhile stays used.
StillRevoked(c, r) == r \in older[c] /\ code[r] = "live"

\* The rows are revoked, the new ones inserted; the commit.
CommitRotation(c) ==
  /\ pc[c] = "rotate"
  /\ \E new \in SUBSET Unmade :
       /\ Cardinality(new) = CodeCount
       /\ code' = [r \in Code |-> CASE r \in new          -> "live"
                                    [] StillRevoked(c, r) -> "revoked"
                                    [] OTHER              -> code[r]]
  /\ Finish(c)
  /\ UNCHANGED <<rows, resets>>

-------------------------------------------------------------------------------

\* An error or a crash; a challenge that was taken stays gone.
Fail(c) == pc[c] # "idle" /\ Refuse(c)

CallStep(c) ==
  \/ \E f, g \in Flow : VerifyAuthentication(c, f, g)
  \/ TakeFlow(c) \/ ReadCredential(c) \/ Verify(c) \/ StoreSession(c)
  \/ (\E k \in Credential : VerifyRegistration(c, k)) \/ TakeChallenge(c)
  \/ CreateCredential(c)
  \/ RotateRecoveryCodes(c) \/ CommitRotation(c)
  \/ Fail(c)

Next ==
  \/ \E c \in Call : CallStep(c)
  \/ \E f \in Flow : AuthenticationOptions(f) \/ ExpireFlow(f) \/ \E k \in Credential : Sign(f, k)
  \/ \E k \in Credential : RegistrationOptions(k) \/ RevokeCredential(k)
  \/ \E r \in Code : ConsumeRecoveryCode(r)

Spec == Init /\ [][Next]_vars

-------------------------------------------------------------------------------
(* Properties                                                              *)

\* A flow creates one session at most, however often its assertion is presented and
\* whichever calls run at once.
OneSessionPerFlow == \A f \in Flow : sessions[f] <= 1

\* No session comes from a call that began after its passkey was revoked, and a
\* revoked passkey is never registered back; a call in flight may still finish.
NoSessionAfterRevoke ==
  [][/\ \A c \in Call : pc[c] = "store" /\ sessions' # sessions /\ pc'[c] = "idle"
          => Presented(c).credential \notin revoked[c]
     /\ Revoked \subseteq Revoked']_vars

\* The stored counter falls only when authentications overlapped: the one that
\* writes had read a counter that another has replaced since.
OnlyRacesLowerCounter ==
  [][\A c \in Call : pc[c] = "store" /\ sessions' # sessions /\ pc'[c] = "idle"
       => Presented(c).counter > Stored(c).counter \/ seen[c] # Stored(c).counter]_vars

\* What overlapping authentications, registrations and revocations leave true of passkeys.
PasskeysHold == NoSessionAfterRevoke /\ OnlyRacesLowerCounter

\* A recovery code opens one request or none, and none once it is revoked, whichever
\* of a consumption and a rotation came first.
CodeOpensOnce == \A r \in Code : resets[r] = IF code[r] = "used" THEN 1 ELSE 0

\* When a rotation commits, no code it found is live any more, though the codes of
\* a rotation that ran beside it are.
OlderCodesEnd ==
  [][\A c \in Call : pc[c] = "rotate" /\ Unmade' # Unmade /\ pc'[c] = "idle"
       => older[c] \cap Live' = {}]_vars
===============================================================================
