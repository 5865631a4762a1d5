----------------------------- MODULE PasskeysProofs -----------------------------
(***************************************************************************)
(* Theorems about Passkeys for any number of calls, flows, passkeys and    *)
(* recovery codes.                                                         *)
(***************************************************************************)
EXTENDS Passkeys, TLAPS

Presentation == [flow : Flow, signed : Flow]
Signature    == [credential : Credential, counter : Counter]
Verifying    == {"read", "verify", "store"}

\* A call knows what it was asked: a flow with an assertion that was signed, or a
\* credential id.
AskedOK ==
  \A c \in Call :
    /\ pc[c] \in Verifying \cup {"take"} =>
         asked[c] \in Presentation /\ assertion[asked[c].signed] \in Signature \ {None}
    /\ pc[c] \in {"takeChallenge", "create"} => asked[c] \in Credential

Typed == TypeOK /\ AskedOK

LEMMA TypeInit == ASSUME BoundAssumption, Init PROVE Typed
  BY DEF Init, Typed, TypeOK, AskedOK, Counter, Asked, BoundAssumption, Verifying

\* A call that ends.
LEMMA Finished ==
  ASSUME Typed, 0 \in Counter, NEW c \in Call, Finish(c)
  PROVE  /\ asked' \in [Call -> Asked] /\ seen' \in [Call -> Counter]
         /\ older' \in [Call -> SUBSET Code] /\ revoked' \in [Call -> SUBSET Credential]
         /\ pc' \in [Call -> {"idle", "take", "read", "verify", "store", "takeChallenge",
                              "create", "rotate"}]
         /\ pc'[c] = "idle" /\ older'[c] = {} /\ revoked'[c] = {}
         /\ \A d \in Call \ {c} : /\ pc'[d] = pc[d] /\ asked'[d] = asked[d]
                                  /\ seen'[d] = seen[d] /\ older'[d] = older[d]
                                  /\ revoked'[d] = revoked[d]
<1> HIDE DEF Counter, Asked
<1>1. None \in Asked
  BY DEF Asked
<1> QED
  BY <1>1 DEF Typed, TypeOK, Finish, Goto

LEMMA Moved ==
  ASSUME Typed, NEW c \in Call,
         NEW l \in {"take", "read", "verify", "store", "takeChallenge", "create", "rotate"},
         Goto(c, l)
  PROVE  /\ pc' \in [Call -> {"idle", "take", "read", "verify", "store", "takeChallenge",
                              "create", "rotate"}]
         /\ pc'[c] = l /\ \A d \in Call \ {c} : pc'[d] = pc[d]
  BY DEF Typed, TypeOK, Goto

LEMMA TypeStep == ASSUME BoundAssumption, Typed, [Next]_vars PROVE Typed'
<1> USE DEF rows, Counter
<1> HIDE DEF Asked
<1>0. 0 \in Counter
  BY DEF BoundAssumption
<1>1. ASSUME NEW c \in Call, Refuse(c) PROVE Typed'
  <2>1. UNCHANGED <<rows, code, resets>>
    BY <1>1 DEF Refuse
  <2>2. Finish(c)
    BY <1>1 DEF Refuse
  <2> QED
    BY <1>0, <2>1, <2>2, Finished DEF Typed, TypeOK, AskedOK, Verifying
<1>2. ASSUME NEW c \in Call, NEW f \in Flow, NEW g \in Flow, VerifyAuthentication(c, f, g)
      PROVE  Typed'
  <2>1. [flow |-> f, signed |-> g] \in Asked \cap Presentation
    BY DEF Asked, Presentation
  <2>2. assertion[g] \in Signature \ {None}
    BY <1>2 DEF VerifyAuthentication, Typed, TypeOK, Signature
  <2>3. /\ asked' = [asked EXCEPT ![c] = [flow |-> f, signed |-> g]]
        /\ revoked' = [revoked EXCEPT ![c] = Revoked] /\ Goto(c, "take")
        /\ UNCHANGED <<rows, code, resets, seen, older>>
    BY <1>2 DEF VerifyAuthentication
  <2>4. Revoked \subseteq Credential
    BY DEF Revoked
  <2> DEFINE a == [flow |-> f, signed |-> g]
  <2>5. a.signed = g
    OBVIOUS
  <2> HIDE DEF a
  <2>6. /\ asked' \in [Call -> Asked] /\ asked'[c] = a
        /\ \A d \in Call \ {c} : asked'[d] = asked[d]
    BY <2>1, <2>3 DEF a, Typed, TypeOK
  <2>7. revoked' \in [Call -> SUBSET Credential]
    BY <2>3, <2>4 DEF Typed, TypeOK
  <2>8. TypeOK'
    BY <2>3, <2>6, <2>7, Moved DEF Typed, TypeOK
  <2>9. AskedOK'
    BY <2>1, <2>2, <2>3, <2>5, <2>6, Moved DEF a, Typed, AskedOK
  <2> QED
    BY <2>8, <2>9 DEF Typed
<1>3. ASSUME NEW c \in Call, TakeFlow(c) PROVE Typed'
  <2>1. CASE Refuse(c)
    BY <1>1, <2>1
  <2>2. CASE ~Refuse(c)
    <3>1. asked[c] \in Presentation
      BY <1>3 DEF TakeFlow, Typed, AskedOK
    <3>2. /\ Taken(asked[c].flow) /\ Goto(c, "read")
          /\ UNCHANGED <<passkey, signed, assertion, challenge, sessions, code, resets, asked,
                         seen, older, revoked>>
      BY <1>3, <2>2 DEF TakeFlow
    <3>3. flow' \in [Flow -> {"none", "open", "gone"}]
      BY <3>1, <3>2 DEF Taken, Presentation, Typed, TypeOK
    <3>4. TypeOK'
      BY <3>2, <3>3, Moved DEF Typed, TypeOK
    <3>5. AskedOK'
      BY <1>3, <3>2, Moved DEF TakeFlow, Typed, AskedOK, Verifying
    <3> QED
      BY <3>4, <3>5 DEF Typed
  <2> QED
    BY <2>1, <2>2
<1>4. ASSUME NEW c \in Call, ReadCredential(c) PROVE Typed'
  <2>1. CASE Refuse(c)
    BY <1>1, <2>1
  <2>2. CASE ~Refuse(c)
    <3>1. /\ seen' = [seen EXCEPT ![c] = Stored(c).counter] /\ Goto(c, "verify")
          /\ UNCHANGED <<rows, code, resets, asked, older, revoked>>
      BY <1>4, <2>2 DEF ReadCredential
    <3>2. Presented(c) \in Signature
      BY <1>4 DEF ReadCredential, Typed, AskedOK, Verifying, Presented
    <3>3. Stored(c).counter \in Counter
      BY <3>2 DEF Stored, Signature, Typed, TypeOK
    <3>4. seen' \in [Call -> Counter]
      BY <3>1, <3>3 DEF Typed, TypeOK
    <3>5. TypeOK'
      BY <3>1, <3>4, Moved DEF Typed, TypeOK
    <3>6. AskedOK'
      BY <1>4, <3>1, Moved DEF ReadCredential, Typed, AskedOK, Verifying
    <3> QED
      BY <3>5, <3>6 DEF Typed
  <2> QED
    BY <2>1, <2>2
<1>5. ASSUME NEW c \in Call, Verify(c) PROVE Typed'
  <2>1. CASE Refuse(c)
    BY <1>1, <2>1
  <2>2. CASE ~Refuse(c)
    <3>1. Goto(c, "store") /\ UNCHANGED <<rows, code, resets, asked, seen, older, revoked>>
      BY <1>5, <2>2 DEF Verify
    <3>2. TypeOK'
      BY <3>1, Moved DEF Typed, TypeOK
    <3>3. AskedOK'
      BY <1>5, <3>1, Moved DEF Verify, Typed, AskedOK, Verifying
    <3> QED
      BY <3>2, <3>3 DEF Typed
  <2> QED
    BY <2>1, <2>2
<1>6. ASSUME NEW c \in Call, StoreSession(c) PROVE Typed'
  <2>1. Finish(c) /\ UNCHANGED <<signed, flow, assertion, challenge, code, resets>>
    BY <1>6 DEF StoreSession
  <2>2. asked[c] \in Presentation /\ Presented(c) \in Signature
    BY <1>6 DEF StoreSession, Typed, AskedOK, Verifying, Presented
  <2>3. passkey' \in [Credential -> [state : {"none", "active", "revoked"}, counter : Counter]]
    BY <1>6, <2>2 DEF StoreSession, NewCounter, Signature, Typed, TypeOK
  <2>4. sessions' \in [Flow -> Nat]
    BY <1>6, <2>2 DEF StoreSession, Presentation, Typed, TypeOK
  <2> QED
    BY <1>0, <2>1, <2>3, <2>4, Finished DEF Typed, TypeOK, AskedOK, Verifying
<1>7. ASSUME NEW c \in Call, NEW k \in Credential, VerifyRegistration(c, k) PROVE Typed'
  <2>1. /\ asked' = [asked EXCEPT ![c] = k] /\ Goto(c, "takeChallenge")
        /\ UNCHANGED <<rows, code, resets, seen, older, revoked>>
    BY <1>7 DEF VerifyRegistration
  <2>2. k \in Asked
    BY DEF Asked
  <2>3. /\ asked' \in [Call -> Asked] /\ asked'[c] = k
        /\ \A d \in Call \ {c} : asked'[d] = asked[d]
    BY <2>1, <2>2 DEF Typed, TypeOK
  <2>4. TypeOK'
    BY <2>1, <2>3, Moved DEF Typed, TypeOK
  <2>5. AskedOK'
    BY <2>1, <2>3, Moved DEF Typed, AskedOK, Verifying
  <2> QED
    BY <2>4, <2>5 DEF Typed
<1>8. ASSUME NEW c \in Call, TakeChallenge(c) PROVE Typed'
  <2>1. /\ challenge' = None
        /\ UNCHANGED <<passkey, signed, flow, assertion, sessions, code, resets>>
    BY <1>8 DEF TakeChallenge
  <2>2. CASE Finish(c)
    BY <1>0, <2>1, <2>2, Finished DEF Typed, TypeOK, AskedOK, Verifying
  <2>3. CASE Goto(c, "create") /\ UNCHANGED <<asked, seen, older, revoked>>
    <3>1. TypeOK'
      BY <2>1, <2>3, Moved DEF Typed, TypeOK
    <3>2. AskedOK'
      BY <1>8, <2>1, <2>3, Moved DEF TakeChallenge, Typed, AskedOK, Verifying
    <3> QED
      BY <3>1, <3>2 DEF Typed
  <2> QED
    BY <1>8, <2>2, <2>3 DEF TakeChallenge
<1>9. ASSUME NEW c \in Call, CreateCredential(c) PROVE Typed'
  <2>1. Finish(c) /\ UNCHANGED <<signed, flow, assertion, challenge, sessions, code, resets>>
    BY <1>9 DEF CreateCredential
  <2>2. asked[c] \in Credential
    BY <1>9 DEF CreateCredential, Typed, AskedOK
  <2>3. passkey' \in [Credential -> [state : {"none", "active", "revoked"}, counter : Counter]]
    BY <1>9, <2>2 DEF CreateCredential, Typed, TypeOK
  <2> QED
    BY <1>0, <2>1, <2>3, Finished DEF Typed, TypeOK, AskedOK, Verifying
<1>10. ASSUME NEW c \in Call, RotateRecoveryCodes(c) PROVE Typed'
  <2>1. /\ older' = [older EXCEPT ![c] = Live] /\ Goto(c, "rotate")
        /\ UNCHANGED <<rows, code, resets, asked, seen, revoked>>
    BY <1>10 DEF RotateRecoveryCodes
  <2>2. older' \in [Call -> SUBSET Code]
    BY <2>1 DEF Live, Typed, TypeOK
  <2>3. TypeOK'
    BY <2>1, <2>2, Moved DEF Typed, TypeOK
  <2>4. AskedOK'
    BY <2>1, Moved DEF Typed, AskedOK, Verifying
  <2> QED
    BY <2>3, <2>4 DEF Typed
<1>11. ASSUME NEW c \in Call, CommitRotation(c) PROVE Typed'
  <2>1. Finish(c) /\ UNCHANGED <<rows, resets>>
    BY <1>11 DEF CommitRotation
  <2>2. code' \in [Code -> {"none", "live", "used", "revoked"}]
    BY <1>11 DEF CommitRotation, Typed, TypeOK
  <2> QED
    BY <1>0, <2>1, <2>2, Finished DEF Typed, TypeOK, AskedOK, Verifying
<1>12. ASSUME NEW f \in Flow, AuthenticationOptions(f) \/ ExpireFlow(f) PROVE Typed'
  BY <1>12 DEF AuthenticationOptions, ExpireFlow, Typed, TypeOK, AskedOK
<1>13. ASSUME NEW f \in Flow, NEW k \in Credential, Sign(f, k) PROVE Typed'
  <2>1. UNCHANGED <<passkey, flow, challenge, sessions, code, resets, pc, asked, seen, older,
                    revoked>>
    BY <1>13 DEF Sign
  <2>2. signed[k] + 1 \in Counter
    BY <1>13 DEF Sign, Typed, TypeOK, BoundAssumption
  <2>3. signed' \in [Credential -> Counter]
    BY <1>13, <2>2 DEF Sign, Typed, TypeOK
  <2>4. [credential |-> k, counter |-> signed[k] + 1] \in Signature
    BY <2>2 DEF Signature
  <2>5. assertion' \in [Flow -> {None} \cup Signature]
    BY <1>13, <2>4 DEF Sign, Typed, TypeOK, Signature
  <2>6. \A g \in Flow : assertion[g] # None => assertion'[g] = assertion[g]
    BY <1>13 DEF Sign, Typed, TypeOK
  <2>7. TypeOK'
    BY <2>1, <2>3, <2>5 DEF Typed, TypeOK, Signature
  <2>8. AskedOK'
    BY <2>1, <2>6 DEF Typed, AskedOK, Presentation
  <2> QED
    BY <2>7, <2>8 DEF Typed
<1>14. ASSUME NEW k \in Credential, RegistrationOptions(k) \/ RevokeCredential(k) PROVE Typed'
  <2>1. UNCHANGED <<signed, flow, assertion, sessions, code, resets, pc, asked, seen, older,
                    revoked>>
    BY <1>14 DEF RegistrationOptions, RevokeCredential
  <2>2. challenge' \in Credential \cup {None}
    BY <1>14 DEF RegistrationOptions, RevokeCredential, Typed, TypeOK
  <2>3. passkey' \in [Credential -> [state : {"none", "active", "revoked"}, counter : Counter]]
    BY <1>14 DEF RegistrationOptions, RevokeCredential, Typed, TypeOK
  <2> QED
    BY <2>1, <2>2, <2>3 DEF Typed, TypeOK, AskedOK
<1>15. ASSUME NEW r \in Code, ConsumeRecoveryCode(r) PROVE Typed'
  BY <1>15 DEF ConsumeRecoveryCode, Consumable, Typed, TypeOK, AskedOK
<1>16. CASE UNCHANGED vars
  BY <1>16 DEF vars, Typed, TypeOK, AskedOK, Presented
<1>17. ASSUME NEW c \in Call, CallStep(c) PROVE Typed'
  BY <1>1, <1>2, <1>3, <1>4, <1>5, <1>6, <1>7, <1>8, <1>9, <1>10, <1>11, <1>17
  DEF CallStep, Fail
<1>18. CASE Next
  BY <1>12, <1>13, <1>14, <1>15, <1>17, <1>18 DEF Next
<1> QED
  BY <1>16, <1>18

\* Every variable of Passkeys keeps its type.
THEOREM TypeCorrect == ASSUME BoundAssumption PROVE Spec => []TypeOK
<1>1. Typed => TypeOK
  BY DEF Typed
<1> QED
  BY <1>1, TypeInit, TypeStep, PTL DEF Spec
-------------------------------------------------------------------------------
(* One session of a flow                                                   *)

\* A flow's challenge is with one call at most once it was taken, and neither an
\* untaken challenge nor one in hand has made a session.
FlowSpent ==
  /\ \A f \in Flow : sessions[f] <= 1
  /\ \A f \in Flow : flow[f] # "gone" =>
       sessions[f] = 0 /\ \A c \in Call : pc[c] \in Verifying => asked[c].flow # f
  /\ \A c \in Call : pc[c] \in Verifying => sessions[asked[c].flow] = 0
  /\ \A c, d \in Call : {pc[c], pc[d]} \subseteq Verifying /\ asked[c].flow = asked[d].flow
                          => c = d

LEMMA FlowInit == ASSUME Init PROVE FlowSpent
  BY DEF Init, FlowSpent, Verifying

\* A step that only ends calls, or moves them on with what they hold.
LEMMA FlowKept ==
  ASSUME FlowSpent, UNCHANGED <<flow, sessions>>,
         \A c \in Call : pc'[c] \in Verifying => pc[c] \in Verifying /\ asked'[c] = asked[c]
  PROVE  FlowSpent'
  BY DEF FlowSpent

LEMMA FlowStep == ASSUME BoundAssumption, Typed, FlowSpent, [Next]_vars PROVE FlowSpent'
<1> USE DEF rows
<1>0. 0 \in Counter
  BY DEF BoundAssumption, Counter
<1>1. ASSUME NEW c \in Call, Refuse(c) PROVE FlowSpent'
  <2>1. Finish(c) /\ UNCHANGED <<flow, sessions>>
    BY <1>1 DEF Refuse
  <2>2. \A d \in Call : pc'[d] \in Verifying => pc[d] \in Verifying /\ asked'[d] = asked[d]
    BY <1>0, <2>1, Finished DEF Verifying
  <2> QED
    BY <2>1, <2>2, FlowKept
<1>2. ASSUME NEW c \in Call, NEW f \in Flow, NEW g \in Flow, VerifyAuthentication(c, f, g)
      PROVE  FlowSpent'
  BY <1>2, Moved, FlowKept DEF VerifyAuthentication, Typed, TypeOK, Verifying
<1>3. ASSUME NEW c \in Call, TakeFlow(c) PROVE FlowSpent'
  <2>1. CASE Refuse(c)
    BY <1>1, <2>1
  <2>2. CASE ~Refuse(c)
    <3> DEFINE f == asked[c].flow
    <3>1. f \in Flow /\ pc[c] = "take"
      BY <1>3 DEF TakeFlow, Typed, AskedOK, Presentation
    <3>2. flow[f] = "open" /\ flow' = [flow EXCEPT ![f] = "gone"] /\ Goto(c, "read")
      BY <1>3, <2>2 DEF TakeFlow, Taken
    <3>3. UNCHANGED <<sessions, asked>>
      BY <1>3, <2>2 DEF TakeFlow
    <3>4. /\ flow'[f] = "gone" /\ \A g \in Flow \ {f} : flow'[g] = flow[g]
          /\ pc'[c] = "read" /\ \A d \in Call \ {c} : pc'[d] = pc[d]
      BY <3>1, <3>2, Moved DEF Typed, TypeOK
    <3> HIDE DEF f
    <3>5. sessions[f] = 0 /\ \A d \in Call : pc[d] \in Verifying => asked[d].flow # f
      BY <3>1, <3>2 DEF FlowSpent
    <3>6. asked[c].flow = f
      BY DEF f
    <3> QED
      BY <3>1, <3>3, <3>4, <3>5, <3>6 DEF FlowSpent, Verifying
  <2> QED
    BY <2>1, <2>2
<1>4. ASSUME NEW c \in Call, ReadCredential(c) \/ Verify(c) PROVE FlowSpent'
  <2>1. CASE Refuse(c)
    BY <1>1, <2>1
  <2>2. CASE ~Refuse(c)
    <3>1. pc[c] \in Verifying /\ UNCHANGED <<flow, sessions, asked>>
      BY <1>4, <2>2 DEF ReadCredential, Verify, Verifying
    <3>2. \A d \in Call \ {c} : pc'[d] = pc[d]
      BY <1>4, <2>2, Moved DEF ReadCredential, Verify
    <3> QED
      BY <3>1, <3>2, FlowKept
  <2> QED
    BY <2>1, <2>2
<1>5. ASSUME NEW c \in Call, StoreSession(c) PROVE FlowSpent'
  <2> DEFINE f == asked[c].flow
  <2>1. f \in Flow /\ pc[c] \in Verifying
    BY <1>5 DEF StoreSession, Typed, AskedOK, Presentation, Verifying
  <2>2. Finish(c) /\ UNCHANGED flow /\ sessions' = [sessions EXCEPT ![f] = @ + 1]
    BY <1>5 DEF StoreSession
  <2>3. /\ pc'[c] = "idle"
        /\ \A d \in Call \ {c} : pc'[d] = pc[d] /\ asked'[d] = asked[d]
    BY <1>0, <2>2, Finished
  <2>4. sessions[f] = 0 /\ flow[f] = "gone"
    BY <2>1 DEF FlowSpent
  <2>5. sessions'[f] = 1 /\ \A g \in Flow \ {f} : sessions'[g] = sessions[g]
    BY <2>1, <2>2, <2>4 DEF Typed, TypeOK
  <2>6. \A d \in Call \ {c} : pc[d] \in Verifying => asked[d].flow # f
    BY <2>1 DEF FlowSpent
  <2> HIDE DEF f
  <2>7. \A d \in Call : pc'[d] \in Verifying =>
           d # c /\ pc[d] \in Verifying /\ asked'[d] = asked[d] /\ asked[d].flow # f
    BY <2>3, <2>6 DEF Verifying
  <2>8. \A d \in Call : pc[d] \in Verifying => asked[d].flow \in Flow
    BY DEF Typed, AskedOK, Presentation
  <2> QED
    BY <2>2, <2>4, <2>5, <2>7, <2>8 DEF FlowSpent
<1>6. ASSUME NEW c \in Call, NEW k \in Credential, VerifyRegistration(c, k) PROVE FlowSpent'
  BY <1>6, Moved, FlowKept DEF VerifyRegistration, Typed, TypeOK, Verifying
<1>7. ASSUME NEW c \in Call, TakeChallenge(c) PROVE FlowSpent'
  <2>1. UNCHANGED <<flow, sessions>> /\ pc[c] = "takeChallenge"
    BY <1>7 DEF TakeChallenge
  <2>2. CASE Finish(c)
    BY <1>0, <2>1, <2>2, Finished, FlowKept DEF Verifying
  <2>3. CASE Goto(c, "create") /\ UNCHANGED <<asked, seen, older, revoked>>
    BY <2>1, <2>3, Moved, FlowKept DEF Verifying
  <2> QED
    BY <1>7, <2>2, <2>3 DEF TakeChallenge
<1>8. ASSUME NEW c \in Call, CreateCredential(c) \/ CommitRotation(c) PROVE FlowSpent'
  <2>1. Finish(c) /\ UNCHANGED <<flow, sessions>>
    BY <1>8 DEF CreateCredential, CommitRotation
  <2> QED
    BY <1>0, <2>1, Finished, FlowKept DEF Verifying
<1>9. ASSUME NEW c \in Call, RotateRecoveryCodes(c) PROVE FlowSpent'
  BY <1>9, Moved, FlowKept DEF RotateRecoveryCodes, Verifying
<1>10. ASSUME NEW f \in Flow, AuthenticationOptions(f) \/ ExpireFlow(f) PROVE FlowSpent'
  BY <1>10 DEF AuthenticationOptions, ExpireFlow, FlowSpent, Typed, TypeOK
<1>11. CASE UNCHANGED <<flow, sessions, pc, asked>>
  BY <1>11, FlowKept
<1> QED
  BY <1>1, <1>2, <1>3, <1>4, <1>5, <1>6, <1>7, <1>8, <1>9, <1>10, <1>11
  DEF Next, CallStep, Fail, Sign, RegistrationOptions, RevokeCredential, ConsumeRecoveryCode, vars

\* A flow creates one session at most, whichever calls present its assertion and when.
THEOREM FlowMakesOne == ASSUME BoundAssumption PROVE Spec => []OneSessionPerFlow
<1>1. FlowSpent => OneSessionPerFlow
  BY DEF FlowSpent, OneSessionPerFlow
<1> QED
  BY <1>1, TypeInit, TypeStep, FlowInit, FlowStep, PTL DEF Spec

-------------------------------------------------------------------------------
(* Revoked passkeys and counters                                           *)

\* A call that read its passkey did not find it revoked when it began, and what it
\* writes is above the counter it read.
Checked(c) ==
  /\ revoked[c] \subseteq Revoked
  /\ pc[c] \in {"verify", "store"} => Presented(c).credential \notin revoked[c]
  /\ pc[c] = "store" => Presented(c).counter > seen[c]

CheckedOK == \A c \in Call : Checked(c)

LEMMA CheckedInit == ASSUME Init PROVE CheckedOK
  BY DEF Init, CheckedOK, Checked

\* A revoked passkey stays revoked.
LEMMA StaysRevoked == ASSUME Typed, [Next]_vars PROVE Revoked \subseteq Revoked'
<1>1. ASSUME NEW k \in Credential, passkey[k].state = "revoked"
      PROVE  passkey'[k].state = "revoked"
  <2>0. passkey[k] \in [state : {"none", "active", "revoked"}, counter : Counter]
    BY DEF Typed, TypeOK
  <2>1. ASSUME NEW c \in Call, StoreSession(c) PROVE passkey'[k].state = "revoked"
    BY <1>1, <2>0, <2>1 DEF StoreSession, Typed, TypeOK
  <2>2. ASSUME NEW c \in Call, CreateCredential(c) PROVE passkey'[k].state = "revoked"
    BY <1>1, <2>0, <2>2 DEF CreateCredential, Typed, TypeOK
  <2>3. ASSUME NEW j \in Credential, RevokeCredential(j) PROVE passkey'[k].state = "revoked"
    BY <1>1, <2>0, <2>3 DEF RevokeCredential, Typed, TypeOK
  <2>4. CASE UNCHANGED passkey
    BY <1>1, <2>4
  <2> QED
    BY <2>1, <2>2, <2>3, <2>4
    DEF Next, CallStep, Fail, Refuse, rows, vars, VerifyAuthentication, TakeFlow, ReadCredential,
        Verify, VerifyRegistration, TakeChallenge, RotateRecoveryCodes, CommitRotation,
        AuthenticationOptions, ExpireFlow, Sign, RegistrationOptions, ConsumeRecoveryCode
<1> QED
  BY <1>1 DEF Revoked

\* What was signed stays as it was signed.
LEMMA StaysSigned ==
  ASSUME Typed, [Next]_vars, NEW f \in Flow, assertion[f] # None
  PROVE  assertion'[f] = assertion[f]
<1>1. ASSUME NEW g \in Flow, NEW k \in Credential, Sign(g, k) PROVE assertion'[f] = assertion[f]
  BY <1>1 DEF Sign, Typed, TypeOK
<1>2. CASE UNCHANGED assertion
  BY <1>2
<1> QED
  BY <1>1, <1>2
  DEF Next, CallStep, Fail, Refuse, rows, vars, VerifyAuthentication, TakeFlow, ReadCredential,
      Verify, StoreSession, VerifyRegistration, TakeChallenge, CreateCredential,
      RotateRecoveryCodes, CommitRotation, AuthenticationOptions, ExpireFlow,
      RegistrationOptions, RevokeCredential, ConsumeRecoveryCode

LEMMA PresentedStays ==
  ASSUME Typed, [Next]_vars, NEW c \in Call, pc[c] \in Verifying, asked'[c] = asked[c]
  PROVE  Presented(c)' = Presented(c)
<1>1. asked[c].signed \in Flow /\ assertion[asked[c].signed] # None
  BY DEF Typed, AskedOK, Presentation
<1> QED
  BY <1>1, StaysSigned DEF Presented

\* A call that others' steps leave alone stays checked.
LEMMA CheckedKept ==
  ASSUME Typed, [Next]_vars, NEW c \in Call, Checked(c),
         /\ pc'[c] = pc[c] /\ asked'[c] = asked[c] /\ seen'[c] = seen[c]
         /\ revoked'[c] = revoked[c]
  PROVE  Checked(c)'
<1>1. CASE pc[c] \in Verifying
  BY <1>1, PresentedStays, StaysRevoked DEF Checked
<1>2. CASE pc[c] \notin Verifying
  BY <1>2, StaysRevoked DEF Checked, Verifying
<1> QED
  BY <1>1, <1>2

\* A call that ended, or has not read its passkey yet.
LEMMA CheckedIdle ==
  ASSUME Typed, [Next]_vars, NEW c \in Call, pc'[c] \notin {"verify", "store"},
         revoked'[c] \subseteq Revoked
  PROVE  Checked(c)'
  BY StaysRevoked DEF Checked

LEMMA CheckedStep ==
  ASSUME BoundAssumption, Typed, CheckedOK, [Next]_vars
  PROVE  CheckedOK'
<1> USE DEF rows
<1>0. 0 \in Counter /\ \A c \in Call : Checked(c)
  BY DEF BoundAssumption, Counter, CheckedOK
<1>a. ASSUME NEW c \in Call, Finish(c) PROVE CheckedOK'
  <2>1. pc'[c] = "idle" /\ revoked'[c] = {}
    BY <1>0, <1>a, Finished
  <2>2. \A d \in Call \ {c} : /\ pc'[d] = pc[d] /\ asked'[d] = asked[d] /\ seen'[d] = seen[d]
                              /\ revoked'[d] = revoked[d]
    BY <1>0, <1>a, Finished
  <2>3. Checked(c)'
    BY <2>1, CheckedIdle
  <2>4. ASSUME NEW d \in Call \ {c} PROVE Checked(d)'
    BY <1>0, <2>2, CheckedKept
  <2> QED
    BY <2>3, <2>4 DEF CheckedOK
<1>b. ASSUME UNCHANGED <<pc, asked, seen, revoked>> PROVE CheckedOK'
  <2>1. ASSUME NEW d \in Call PROVE Checked(d)'
    BY <1>0, <1>b, CheckedKept
  <2> QED
    BY <2>1 DEF CheckedOK
\* One call moves on by Goto, the others stay where they are.
<1>c. ASSUME NEW c \in Call, \A d \in Call \ {c} : pc'[d] = pc[d] /\ asked'[d] = asked[d],
             \A d \in Call \ {c} : seen'[d] = seen[d] /\ revoked'[d] = revoked[d], Checked(c)'
      PROVE  CheckedOK'
  <2>1. ASSUME NEW d \in Call \ {c} PROVE Checked(d)'
    BY <1>0, <1>c, CheckedKept
  <2> QED
    BY <1>c, <2>1 DEF CheckedOK
<1>1. ASSUME NEW c \in Call, NEW f \in Flow, NEW g \in Flow, VerifyAuthentication(c, f, g)
      PROVE  CheckedOK'
  <2>1. /\ asked' = [asked EXCEPT ![c] = [flow |-> f, signed |-> g]]
        /\ revoked' = [revoked EXCEPT ![c] = Revoked] /\ Goto(c, "take") /\ UNCHANGED seen
    BY <1>1 DEF VerifyAuthentication
  <2>2. pc'[c] = "take" /\ \A d \in Call \ {c} : pc'[d] = pc[d]
    BY <2>1, Moved
  <2>3. revoked'[c] = Revoked /\ \A d \in Call \ {c} : revoked'[d] = revoked[d]
    BY <2>1 DEF Typed, TypeOK
  <2>4. \A d \in Call \ {c} : asked'[d] = asked[d]
    BY <2>1 DEF Typed, TypeOK
  <2>5. Checked(c)'
    BY <2>2, <2>3, CheckedIdle
  <2> QED
    BY <1>c, <2>1, <2>2, <2>3, <2>4, <2>5
<1>2. ASSUME NEW c \in Call, TakeFlow(c) \/ (TakeChallenge(c) /\ ~Finish(c)) PROVE CheckedOK'
  <2>1. CASE Refuse(c)
    BY <1>a, <2>1 DEF Refuse
  <2>2. CASE ~Refuse(c)
    <3>1. (Goto(c, "read") \/ Goto(c, "create")) /\ UNCHANGED <<asked, seen, revoked>>
      BY <1>2, <2>2 DEF TakeFlow, TakeChallenge
    <3>2. pc'[c] \in {"read", "create"} /\ \A d \in Call \ {c} : pc'[d] = pc[d]
      BY <3>1, Moved
    <3>3. Checked(c)'
      BY <1>0, <3>1, <3>2, CheckedIdle DEF Checked
    <3> QED
      BY <1>c, <3>1, <3>2, <3>3
  <2> QED
    BY <2>1, <2>2
<1>3. ASSUME NEW c \in Call, ReadCredential(c) PROVE CheckedOK'
  <2>1. CASE Refuse(c)
    BY <1>a, <2>1 DEF Refuse
  <2>2. CASE ~Refuse(c)
    <3>1. /\ pc[c] = "read" /\ Stored(c).state = "active" /\ Goto(c, "verify")
          /\ seen' = [seen EXCEPT ![c] = Stored(c).counter] /\ UNCHANGED <<asked, revoked>>
      BY <1>3, <2>2 DEF ReadCredential
    <3>2. pc'[c] = "verify" /\ \A d \in Call \ {c} : pc'[d] = pc[d]
      BY <3>1, Moved
    <3>3. \A d \in Call \ {c} : seen'[d] = seen[d]
      BY <3>1 DEF Typed, TypeOK
    <3>4. Presented(c).credential \notin Revoked
      BY <3>1 DEF Stored, Revoked
    <3>5. Presented(c)' = Presented(c)
      BY <3>1, PresentedStays DEF Verifying
    <3>6. Checked(c)'
      BY <1>0, <3>1, <3>2, <3>4, <3>5, StaysRevoked DEF Checked
    <3> QED
      BY <1>c, <3>1, <3>2, <3>3, <3>6
  <2> QED
    BY <2>1, <2>2
<1>4. ASSUME NEW c \in Call, Verify(c) PROVE CheckedOK'
  <2>1. CASE Refuse(c)
    BY <1>a, <2>1 DEF Refuse
  <2>2. CASE ~Refuse(c)
    <3>1. /\ pc[c] = "verify" /\ Presented(c).counter > seen[c] /\ Goto(c, "store")
          /\ UNCHANGED <<asked, seen, revoked>>
      BY <1>4, <2>2 DEF Verify, Verifies
    <3>2. pc'[c] = "store" /\ \A d \in Call \ {c} : pc'[d] = pc[d]
      BY <3>1, Moved
    <3>3. Presented(c)' = Presented(c)
      BY <3>1, PresentedStays DEF Verifying
    <3>4. Checked(c)'
      BY <1>0, <3>1, <3>2, <3>3, StaysRevoked DEF Checked
    <3> QED
      BY <1>c, <3>1, <3>2, <3>4
  <2> QED
    BY <2>1, <2>2
<1>5. ASSUME NEW c \in Call, NEW k \in Credential, VerifyRegistration(c, k) PROVE CheckedOK'
  <2>1. /\ asked' = [asked EXCEPT ![c] = k] /\ Goto(c, "takeChallenge")
        /\ UNCHANGED <<seen, revoked>>
    BY <1>5 DEF VerifyRegistration
  <2>2. pc'[c] = "takeChallenge" /\ \A d \in Call \ {c} : pc'[d] = pc[d]
    BY <2>1, Moved
  <2>3. \A d \in Call \ {c} : asked'[d] = asked[d]
    BY <2>1 DEF Typed, TypeOK
  <2>4. Checked(c)'
    BY <1>0, <2>1, <2>2, CheckedIdle DEF Checked
  <2> QED
    BY <1>c, <2>1, <2>2, <2>3, <2>4
<1>6. ASSUME NEW c \in Call, RotateRecoveryCodes(c) PROVE CheckedOK'
  <2>1. Goto(c, "rotate") /\ UNCHANGED <<asked, seen, revoked>>
    BY <1>6 DEF RotateRecoveryCodes
  <2>2. pc'[c] = "rotate" /\ \A d \in Call \ {c} : pc'[d] = pc[d]
    BY <2>1, Moved
  <2>3. Checked(c)'
    BY <1>0, <2>1, <2>2, CheckedIdle DEF Checked
  <2> QED
    BY <1>c, <2>1, <2>2, <2>3
<1>7. CASE \E c \in Call : Finish(c)
  BY <1>7, <1>a
<1> QED
  BY <1>b, <1>1, <1>2, <1>3, <1>4, <1>5, <1>6, <1>7
  DEF Next, CallStep, Fail, Refuse, vars, StoreSession, CreateCredential, CommitRotation,
      AuthenticationOptions, ExpireFlow, Sign, RegistrationOptions, RevokeCredential,
      ConsumeRecoveryCode

\* No session for a call that began after its passkey was revoked, and a counter falls only
\* under a call that read it before another wrote it.
THEOREM PasskeysKept == ASSUME BoundAssumption PROVE Spec => PasskeysHold
<1>1. Typed /\ CheckedOK /\ [Next]_vars
        => /\ [/\ \A c \in Call : pc[c] = "store" /\ sessions' # sessions /\ pc'[c] = "idle"
                    => Presented(c).credential \notin revoked[c]
               /\ Revoked \subseteq Revoked']_vars
           /\ [\A c \in Call : pc[c] = "store" /\ sessions' # sessions /\ pc'[c] = "idle"
                 => Presented(c).counter > Stored(c).counter
                    \/ seen[c] # Stored(c).counter]_vars
  <2> SUFFICES ASSUME Typed, CheckedOK, [Next]_vars
               PROVE  /\ Revoked \subseteq Revoked'
                      /\ \A c \in Call : pc[c] = "store" =>
                           /\ Presented(c).credential \notin revoked[c]
                           /\ Presented(c).counter > seen[c]
    OBVIOUS
  <2> QED
    BY StaysRevoked DEF CheckedOK, Checked
<1> QED
  BY <1>1, TypeInit, TypeStep, CheckedInit, CheckedStep, PTL
  DEF Spec, PasskeysHold, NoSessionAfterRevoke, OnlyRacesLowerCounter

-------------------------------------------------------------------------------
(* Recovery codes                                                          *)

LEMMA CodeInit == ASSUME Init PROVE CodeOpensOnce
  BY DEF Init, CodeOpensOnce

LEMMA CodeStep ==
  ASSUME BoundAssumption, Typed, CodeOpensOnce, [Next]_vars PROVE CodeOpensOnce'
<1>1. ASSUME NEW r \in Code, ConsumeRecoveryCode(r) PROVE CodeOpensOnce'
  <2>1. \A s \in Code : /\ code'[s] = IF s = r THEN "used" ELSE code[s]
                        /\ resets'[s] = IF s = r THEN resets[s] + 1 ELSE resets[s]
    BY <1>1 DEF ConsumeRecoveryCode, Typed, TypeOK
  <2> QED
    BY <1>1, <2>1 DEF ConsumeRecoveryCode, Consumable, CodeOpensOnce
<1>2. ASSUME NEW c \in Call, CommitRotation(c) PROVE CodeOpensOnce'
  <2>1. UNCHANGED resets
    BY <1>2 DEF CommitRotation
  <2>2. \A r \in Code : code'[r] = "used" <=> code[r] = "used"
    BY <1>2 DEF CommitRotation, Unmade, StillRevoked
  <2> QED
    BY <2>1, <2>2 DEF CodeOpensOnce
<1>3. CASE UNCHANGED <<code, resets>>
  BY <1>3 DEF CodeOpensOnce
<1> QED
  BY <1>1, <1>2, <1>3
  DEF Next, CallStep, Fail, Refuse, vars, VerifyAuthentication, TakeFlow, ReadCredential,
      Verify, StoreSession, VerifyRegistration, TakeChallenge, CreateCredential,
      RotateRecoveryCodes, AuthenticationOptions, ExpireFlow, Sign, RegistrationOptions,
      RevokeCredential

\* A recovery code opens a request exactly when it is used, whichever rotations run beside.
THEOREM CodesOpenOnce == ASSUME BoundAssumption PROVE Spec => []CodeOpensOnce
  BY TypeInit, TypeStep, CodeInit, CodeStep, PTL DEF Spec

\* What a rotation found was made before.
OlderMade == \A c \in Call : older[c] \cap Unmade = {}

LEMMA OlderInit == ASSUME Init PROVE OlderMade
  BY DEF Init, OlderMade

\* No code is unmade again.
LEMMA MadeStays == ASSUME Typed, [Next]_vars PROVE Unmade' \subseteq Unmade
<1>1. ASSUME NEW r \in Code, ConsumeRecoveryCode(r) PROVE Unmade' \subseteq Unmade
  BY <1>1 DEF ConsumeRecoveryCode, Unmade, Typed, TypeOK
<1>2. ASSUME NEW c \in Call, CommitRotation(c) PROVE Unmade' \subseteq Unmade
  BY <1>2 DEF CommitRotation, Unmade, Typed, TypeOK
<1>3. CASE UNCHANGED code
  BY <1>3 DEF Unmade
<1> QED
  BY <1>1, <1>2, <1>3
  DEF Next, CallStep, Fail, Refuse, vars, VerifyAuthentication, TakeFlow, ReadCredential,
      Verify, StoreSession, VerifyRegistration, TakeChallenge, CreateCredential,
      RotateRecoveryCodes, AuthenticationOptions, ExpireFlow, Sign, RegistrationOptions,
      RevokeCredential

LEMMA OlderStep ==
  ASSUME BoundAssumption, Typed, OlderMade, [Next]_vars PROVE OlderMade'
<1>1. ASSUME NEW c \in Call, RotateRecoveryCodes(c) PROVE OlderMade'
  <2>1. older' = [older EXCEPT ![c] = Live]
    BY <1>1 DEF RotateRecoveryCodes
  <2>2. older'[c] = Live /\ \A d \in Call \ {c} : older'[d] = older[d]
    BY <2>1 DEF Typed, TypeOK
  <2>3. Live \cap Unmade = {}
    BY DEF Live, Unmade
  <2> QED
    BY <2>2, <2>3, MadeStays DEF OlderMade
<1>2. ASSUME NEW c \in Call, Finish(c) PROVE OlderMade'
  <2>1. older' = [older EXCEPT ![c] = {}]
    BY <1>2 DEF Finish
  <2>2. older'[c] = {} /\ \A d \in Call \ {c} : older'[d] = older[d]
    BY <2>1 DEF Typed, TypeOK
  <2> QED
    BY <2>2, MadeStays DEF OlderMade
<1>3. CASE UNCHANGED older
  BY <1>3, MadeStays DEF OlderMade
<1> QED
  BY <1>1, <1>2, <1>3
  DEF Next, CallStep, Fail, Refuse, vars, VerifyAuthentication, TakeFlow, ReadCredential,
      Verify, StoreSession, VerifyRegistration, TakeChallenge, CreateCredential,
      CommitRotation, AuthenticationOptions, ExpireFlow, Sign, RegistrationOptions,
      RevokeCredential, ConsumeRecoveryCode

\* A committed rotation leaves none of the codes it found live.
THEOREM RotationEndsOlder == ASSUME BoundAssumption PROVE Spec => OlderCodesEnd
<1>1. Typed /\ OlderMade /\ [Next]_vars
        => [\A c \in Call : pc[c] = "rotate" /\ Unmade' # Unmade /\ pc'[c] = "idle"
              => older[c] \cap Live' = {}]_vars
  <2> SUFFICES ASSUME Typed, OlderMade, [Next]_vars, NEW c \in Call,
                      pc[c] = "rotate", Unmade' # Unmade, pc'[c] = "idle"
               PROVE  older[c] \cap Live' = {}
    OBVIOUS
  <2>1. ASSUME NEW d \in Call, CommitRotation(d) PROVE older[c] \cap Live' = {}
    <3>1. d = c
      BY <2>1 DEF CommitRotation, Finish, Goto, Typed, TypeOK
    <3> QED
      BY <2>1, <3>1 DEF CommitRotation, StillRevoked, Live, OlderMade, Unmade
  <2>2. ASSUME NEW r \in Code, ConsumeRecoveryCode(r) PROVE FALSE
    BY <2>2 DEF ConsumeRecoveryCode, Consumable, Unmade, Typed, TypeOK
  <2>3. CASE UNCHANGED code
    BY <2>3 DEF Unmade
  <2> QED
    BY <2>1, <2>2, <2>3
    DEF Next, CallStep, Fail, Refuse, vars, VerifyAuthentication, TakeFlow, ReadCredential,
        Verify, StoreSession, VerifyRegistration, TakeChallenge, CreateCredential,
        RotateRecoveryCodes, AuthenticationOptions, ExpireFlow, Sign, RegistrationOptions,
        RevokeCredential
<1> QED
  BY <1>1, TypeInit, TypeStep, OlderInit, OlderStep, PTL DEF Spec, OlderCodesEnd
===============================================================================
