---------------------------- MODULE MCAccountFlows ----------------------------
(***************************************************************************)
(* Small instances for TLC of the flows an account goes through:           *)
(* registration, e-mail verification, refresh, session upgrade, step-up,   *)
(* passkeys and recovery codes.  A behaviour is one of one flow, chosen in *)
(* FlowInit; the variables of the others keep their values.                *)
(***************************************************************************)
EXTENDS StepUpVerification

CONSTANTS
  Orphan,                                               \* RefreshRotation
  None, Lookup, Nid, Email, Key, Ticket, MaxAttempts,   \* Registration
  EmailToken, First, EmailTtl, EmailClock,              \* EmailVerification
  Rotator, Content, Session, MaxVersion,                \* SessionUpgrade
  RecordTtl, LimitedTtl, UpgradeClock,
  Credential, Flow, Code, OldCode, MaxCounter           \* Passkeys

VARIABLES
  scenario,
  challenge, accounts, record, keyRow, challengeRow, emailRow, nidRow, rClock, rPc, call,
  now, answer, looking, subject,
  rStatus, issued, generation, usedAt, replacedBy, revokedTokens, reused, sessionRow,
  familyRow, redisLock, tClock, tPc, tSeen, tNow, tTodo, kind,
  tokens, account, tokenRow, accountRow, eClock, ePc, eNow, target, eTodo, older,
  limited, full, uRecord, verified, passed, uKeyRow, limitedRow, uClock, uPc, uCall, uNow,
  snap, uTarget, uAnswer, made, gone,
  passkey, signed, flow, signature, ceremony, sessions, code, resets, pPc, asked, seen,
  olderCodes, revoked

stepUpVars == vars
registrationVars ==
  <<challenge, accounts, record, keyRow, challengeRow, emailRow, nidRow, rClock, rPc, call,
    now, answer, looking, subject>>
emailVars ==
  <<tokens, account, tokenRow, accountRow, eClock, ePc, eNow, target, eTodo, older>>
rotationVars ==
  <<rStatus, issued, generation, usedAt, replacedBy, revokedTokens, reused, sessionRow,
    familyRow, redisLock, tClock, tPc, tSeen, tNow, tTodo, kind>>
upgradeVars ==
  <<limited, full, uRecord, verified, passed, uKeyRow, limitedRow, uClock, uPc, uCall, uNow,
    snap, uTarget, uAnswer, made, gone>>
passkeyVars ==
  <<passkey, signed, flow, signature, ceremony, sessions, code, resets, pPc, asked, seen,
    olderCodes, revoked>>
flowVars ==
  <<scenario, registrationVars, emailVars, rotationVars, stepUpVars, upgradeVars,
    passkeyVars>>

\* Where a component has a module of proofs, that module is instantiated: it extends the
\* component's, and what is proved there can be cited of the instance.
R == INSTANCE RegistrationProofs WITH
       Challenge <- Ticket, Request <- Call, ChallengeTtl <- 1, MaxClock <- 1,
       clock <- rClock, pc <- rPc

E == INSTANCE EmailVerification WITH
       Token <- EmailToken, TokenTtl <- EmailTtl, MaxClock <- EmailClock,
       clock <- eClock, pc <- ePc, now <- eNow, todo <- eTodo

T == INSTANCE RefreshRotationProofs WITH
       Request <- Call, Revoker <- {}, Grace <- 1, SessionTtl <- 3,
       GenerationUnique <- TRUE, MaxToken <- 2,
       status <- rStatus, revoked <- revokedTokens, tokenRow <- familyRow, clock <- tClock,
       pc <- tPc, seen <- tSeen, now <- tNow, todo <- tTodo

U == INSTANCE SessionUpgrade WITH
       MaxClock <- UpgradeClock,
       record <- uRecord, keyRow <- uKeyRow, clock <- uClock, pc <- uPc, call <- uCall,
       now <- uNow, target <- uTarget, answer <- uAnswer

\* Passkeys with the codes of registration only, and recovery codes without flows.
P == INSTANCE PasskeysProofs WITH
       Code <- OldCode, First <- OldCode, CodeCount <- 1,
       assertion <- signature, challenge <- ceremony, pc <- pPc, older <- olderCodes

C == INSTANCE PasskeysProofs WITH
       Flow <- {}, First <- OldCode, CodeCount <- 1,
       assertion <- signature, challenge <- ceremony, pc <- pPc, older <- olderCodes

ASSUME FlowAssumption ==
  /\ R!RowAssumption /\ R!RegistrationBounds
  /\ E!SlotAssumption /\ E!TimeAssumption
  /\ U!SlotAssumption /\ U!TimeAssumption
  /\ T!ActorAssumption /\ T!BoundAssumption
  /\ P!SlotAssumption /\ P!BoundAssumption /\ C!SlotAssumption

FlowInit ==
  /\ scenario \in {"registration", "email", "stepUp", "rotation", "upgrade", "passkeys",
                   "codes"}
  /\ R!Init /\ E!Init /\ Init /\ T!Init /\ U!Init
  /\ IF scenario = "codes" THEN C!Init ELSE P!Init

InRegistration ==
  /\ scenario = "registration"
  /\ UNCHANGED <<scenario, emailVars, rotationVars, stepUpVars, upgradeVars, passkeyVars>>

InEmail ==
  /\ scenario = "email"
  /\ UNCHANGED <<scenario, registrationVars, rotationVars, stepUpVars, upgradeVars, passkeyVars>>

InStepUp ==
  /\ scenario = "stepUp"
  /\ UNCHANGED <<scenario, registrationVars, emailVars, rotationVars, upgradeVars, passkeyVars>>

InRotation ==
  /\ scenario = "rotation"
  /\ UNCHANGED <<scenario, registrationVars, emailVars, stepUpVars, upgradeVars, passkeyVars>>

InUpgrade ==
  /\ scenario = "upgrade"
  /\ UNCHANGED <<scenario, registrationVars, emailVars, rotationVars, stepUpVars, passkeyVars>>

InPasskeys ==
  /\ scenario = "passkeys"
  /\ UNCHANGED <<scenario, registrationVars, emailVars, rotationVars, stepUpVars, upgradeVars>>

InCodes ==
  /\ scenario = "codes"
  /\ UNCHANGED <<scenario, registrationVars, emailVars, rotationVars, stepUpVars, upgradeVars>>

\* Requests under idempotency keys: all but one key are used with one content only.
Asked(contents) ==
  {ask \in Key \X contents :
     \/ ask[1] = CHOOSE k \in Key : TRUE
     \/ ask[2] = CHOOSE content \in contents : TRUE}

FlowNext ==
  \/ InRegistration /\ \E l \in Lookup : R!LookupStep(l)
  \/ InRegistration /\ \E l \in Lookup, n \in Nid, e \in Email : R!FindCitizen(l, n, e)
  \/ InRegistration /\ \E c \in Call : R!RegisterStep(c)
  \/ InRegistration /\ \E c \in Call : R!Fail(c)
  \/ InRegistration /\ \E c \in Call, ask \in Asked(R!Body) :
                         R!Register(c, ask[1], ask[2])
  \/ InRegistration /\ R!Tick
  \/ InEmail /\ \E c \in Call : E!Step(c)
  \/ InEmail /\ \E c \in Call : E!Fail(c)
  \/ InEmail /\ \E c \in Call : E!Resend(c)
  \/ InEmail /\ \E c \in Call, t \in EmailToken : E!Verify(c, t)
  \/ InEmail /\ E!Tick
  \/ InRotation /\ \E c \in Call, t \in T!Token : T!Present(c, t)
  \/ InRotation /\ \E c \in Call : T!RequestStep(c)
  \/ InRotation /\ \E c \in Call : T!Crash(c)
  \/ InRotation /\ \E c \in Call : T!FailTx(c)
  \/ InRotation /\ T!LockTtl
  \/ InRotation /\ T!Tick
  \/ InStepUp /\ \E c \in Call : Begin(c)
  \/ InStepUp /\ \E c \in Call : CallStep(c)
  \/ InStepUp /\ \E c \in Call : Abandon(c)
  \/ InStepUp /\ \E h \in Challenge : AttemptEnds(h)
  \/ InStepUp /\ Tick
  \/ InUpgrade /\ \E c \in Call : U!Step(c)
  \/ InUpgrade /\ \E c \in Call : U!Fail(c)
  \/ InUpgrade /\ \E c \in Call, ask \in Asked(Content) : U!Upgrade(c, ask[1], ask[2])
  \/ InUpgrade /\ U!RotateLimited
  \/ InUpgrade /\ U!CommitRotation
  \/ InUpgrade /\ U!Logout
  \/ InUpgrade /\ \E s \in Session : U!EndFull(s)
  \/ InUpgrade /\ U!Decide
  \/ InUpgrade /\ \E k \in Key : U!Purge(k)
  \/ InUpgrade /\ U!Tick
  \/ InPasskeys /\ \E c \in Call : P!CallStep(c)
  \/ InPasskeys /\ \E f \in Flow : P!AuthenticationOptions(f)
  \/ InPasskeys /\ \E f \in Flow : P!ExpireFlow(f)
  \/ InPasskeys /\ \E f \in Flow, k \in Credential : P!Sign(f, k)
  \/ InPasskeys /\ \E k \in Credential : P!RegistrationOptions(k)
  \/ InPasskeys /\ \E k \in Credential : P!RevokeCredential(k)
  \/ InCodes /\ \E c \in Call : C!CallStep(c)
  \/ InCodes /\ \E r \in Code : C!ConsumeRecoveryCode(r)

\* What is fair in one of the flows.  As the scenario does not change, fairness of the
\* disjunction is that of each flow in its own behaviours.
StronglyFair(c) ==
  \/ InRegistration /\ R!RegisterStep(c)
  \/ InEmail /\ E!Step(c)
  \/ InStepUp /\ (IssueClaim(c) \/ ExpireCommit(c))
  \/ InUpgrade /\ U!Step(c)

FlowFairness ==
  /\ \A c \in Call :
       /\ SF_flowVars(StronglyFair(c))
       /\ WF_vars(scenario = "stepUp" /\ CallStep(c))
       /\ WF_rotationVars(scenario = "rotation" /\ (T!RequestStep(c) \/ T!FailTx(c)))
  /\ WF_rotationVars(scenario = "rotation" /\ T!LockTtl)
  /\ WF_upgradeVars(scenario = "upgrade" /\ U!CommitRotation)

FlowSpec == FlowInit /\ [][FlowNext]_flowVars /\ FlowFairness

-------------------------------------------------------------------------------
(* Properties                                                              *)

\* The type invariant of each flow.
TypesHold ==
  /\ scenario = "registration" => R!TypeOK
  /\ scenario = "email" => E!TypeOK
  /\ scenario = "stepUp" => TypeOK
  /\ scenario = "rotation" => T!TypeOK
  /\ scenario = "upgrade" => U!TypeOK
  /\ scenario = "passkeys" => P!TypeOK
  /\ scenario = "codes" => C!TypeOK

\* What may be spent once is, whatever runs at once: a registration challenge on one
\* account (of an identity and an address of its own), an e-mail token on one activation,
\* a step-up challenge on one passed attempt, a limited session on one full session (and
\* then it is barren), a passkey flow on one session, a recovery code on one request.
SpentOnce ==
  /\ scenario = "registration" => R!ChallengeSpentOnce /\ R!AccountsDistinct
  /\ scenario = "stepUp" => ConsumedByPass /\ SealedWhileUsable
  /\ scenario = "email" => E!ActivatedOnce /\ E!ConsumedOrSuperseded
  /\ scenario = "upgrade" => U!OneExchange /\ U!LimitedIsBarren
  /\ scenario = "passkeys" => P!OneSessionPerFlow
  /\ scenario = "codes" => C!CodeOpensOnce

\* No answer of a registration or an upgrade, first or replayed under its idempotency
\* key, names what was made for another request, and no upgrade is answered with a full
\* session that had ended before the request.
AnswersHold == [](R!AnswersOwnAccount /\ U!AnswersOwnRequest) /\ U!NoDeadAnswer

\* No session comes from a call begun after its passkey was revoked, and a stored
\* counter falls only when authentications overlapped.
PasskeysHold == P!PasskeysHold

\* A resend ends the e-mail tokens it found, a rotation the recovery codes it found.
OlderEnd == E!OlderTokensEnd /\ C!OlderCodesEnd

\* Registration implements the ledger of challenges and accounts.
ImplementsLedger == R!ImplementsLedger

\* A refresh call that dies with the Redis lock does not block its session for good.
LockRecovers == T!LockRecovers

\* Every call of every flow ends: none waits for a row or tries again for ever.
EveryCallEnds ==
  \A c \in Call :
    []<>(/\ rPc[c] = "idle" /\ ePc[c] = "idle" /\ tPc[c] = "idle"
         /\ pc[c] = "idle" /\ uPc[c] = "idle")
===============================================================================
