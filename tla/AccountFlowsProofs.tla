--------------------------- MODULE AccountFlowsProofs ---------------------------
(***************************************************************************)
(* Theorems about the flows of an account, for every value of the          *)
(* constants: EmailVerification, SessionUpgrade and StepUpVerification     *)
(* first, then the composition, whose other components have modules of     *)
(* proofs of their own.                                                    *)
(***************************************************************************)
EXTENDS MCAccountFlows, FiniteSetTheorems, TLAPS

-----------------------------------------------------------------------------
(* EmailVerification: every number of calls and tokens, every lifetime     *)

EmailRow == [made : BOOLEAN, used : BOOLEAN, superseded : BOOLEAN, expiresAt : E!Instant]

\* The steps at which a transaction owns the token it was given, and those at which a
\* resend has a token to make.
Presenting == {"activate", "activated"}
Resending  == {"supersede", "lock", "create"}

Ended(t) == tokens[t].used \/ tokens[t].superseded

\* What a call checked still holds of the rows it owns; a token a resend found live is
\* still to be locked, locked, or ended by another.
EmailCallOK(c) ==
  /\ ePc[c] \in {"read", "consume"} \cup Presenting => target[c] \in EmailToken
  /\ ePc[c] \in Presenting =>
       tokenRow[target[c]] = c /\ tokens[target[c]].made /\ ~Ended(target[c])
  /\ ePc[c] = "activated" => accountRow = c /\ E!Pending
  /\ ePc[c] \in Resending =>
       /\ target[c] \in EmailToken /\ ~tokens[target[c]].made
       /\ \A d \in Call \ {c} : target[d] # target[c]
  /\ ePc[c] \in {"lock", "create"} =>
       /\ \A t \in E!Held(c) : tokens[t].made /\ ~Ended(t)
       /\ \A t \in older[c] :
            /\ tokens[t].made /\ eNow[c] < tokens[t].expiresAt
            /\ t \in eTodo[c] \/ tokenRow[t] = c \/ Ended(t)
  /\ ePc[c] \notin {"lock", "create"} \cup Presenting => E!Held(c) = {}
  /\ ePc[c] = "create" => eTodo[c] = {}

\* A token ends in one way, and only once it was made.
TokensOK ==
  \A t \in EmailToken :
    (Ended(t) => tokens[t].made) /\ ~(tokens[t].used /\ tokens[t].superseded)

\* The account is as the consumed token left it.
AccountOK ==
  IF E!Pending
  THEN account.version = 0 /\ account.welcomes = 0 /\ \A t \in EmailToken : ~tokens[t].used
  ELSE /\ account.version = 1 /\ account.welcomes = 1
       /\ \E t \in EmailToken : \A u \in EmailToken : tokens[u].used <=> u = t

EmailInv == E!TypeOK /\ (\A c \in Call : EmailCallOK(c)) /\ TokensOK /\ AccountOK

LEMMA EmailTypes ==
  ASSUME E!TypeOK
  PROVE  /\ tokens \in [EmailToken -> EmailRow] /\ tokenRow \in [EmailToken -> Call \cup {Free}]
         /\ ePc \in [Call -> {"idle", "read", "readUser"} \cup E!InTx]
         /\ eNow \in [Call -> 0..EmailClock] /\ target \in [Call -> EmailToken \cup {NoToken}]
         /\ eTodo \in [Call -> SUBSET EmailToken] /\ older \in [Call -> SUBSET EmailToken]
         /\ \A t \in EmailToken : tokens[t].used \in BOOLEAN /\ tokens[t].superseded \in BOOLEAN
                             /\ tokens[t].made \in BOOLEAN
  BY DEF E!TypeOK, EmailRow

LEMMA EmailInit == ASSUME E!SlotAssumption, E!TimeAssumption, E!Init PROVE EmailInv
<1>1. tokens \in [EmailToken -> EmailRow]
  <2>1. EmailTtl \in E!Instant /\ 0 \in E!Instant
    BY DEF E!Instant, E!TimeAssumption
  <2> QED
    BY <2>1 DEF E!Init, EmailRow
<1>2. E!TypeOK
  BY <1>1 DEF E!Init, E!TypeOK, EmailRow, E!TimeAssumption
<1>3. \A t \in EmailToken : ~tokens[t].used /\ ~tokens[t].superseded
  BY DEF E!Init
<1>4. \A c \in Call : EmailCallOK(c)
  BY DEF E!Init, EmailCallOK, Presenting, Resending, E!Held, E!SlotAssumption
<1>5. TokensOK
  BY <1>3 DEF TokensOK, Ended
<1>6. AccountOK
  BY <1>3 DEF E!Init, AccountOK, E!Pending
<1> QED
  BY <1>2, <1>4, <1>5, <1>6 DEF EmailInv

\* A step of c leaves other calls and what they own alone.
OthersKept(c) ==
  \A d \in Call \ {c} :
    /\ ePc'[d] = ePc[d] /\ eNow'[d] = eNow[d] /\ target'[d] = target[d]
    /\ eTodo'[d] = eTodo[d] /\ older'[d] = older[d]
    /\ \A t \in EmailToken : tokenRow'[t] = d <=> tokenRow[t] = d
    /\ accountRow = d => accountRow' = d

\* The tokens a step of c may write: those it owns, and the one it makes.
TokensKept(c) ==
  \A t \in EmailToken :
    \/ tokens'[t] = tokens[t]
    \/ /\ tokenRow[t] = c /\ tokens[t].made /\ tokens'[t].made
       /\ tokens'[t].expiresAt = tokens[t].expiresAt
       /\ ~Ended(t)
    \/ t = target[c] /\ ~tokens[t].made /\ ePc[c] = "create"

LEMMA FinishEffect ==
  ASSUME E!SlotAssumption, E!TimeAssumption, E!TypeOK, NEW c \in Call, E!Finish(c)
  PROVE  /\ OthersKept(c) /\ ePc'[c] = "idle" /\ target'[c] = NoToken /\ E!Held(c)' = {}
         /\ ePc' \in [Call -> {"idle", "read", "readUser"} \cup E!InTx]
         /\ tokenRow' \in [EmailToken -> Call \cup {Free}] /\ accountRow' \in Call \cup {Free}
         /\ eNow' \in [Call -> 0..EmailClock] /\ target' \in [Call -> EmailToken \cup {NoToken}]
         /\ eTodo' \in [Call -> SUBSET EmailToken] /\ older' \in [Call -> SUBSET EmailToken]
<1>1. 0 \in 0..EmailClock
  BY DEF E!TimeAssumption
<1>2. /\ ePc' \in [Call -> {"idle", "read", "readUser"} \cup E!InTx] /\ ePc'[c] = "idle"
      /\ eNow' \in [Call -> 0..EmailClock]
      /\ target' \in [Call -> EmailToken \cup {NoToken}] /\ target'[c] = NoToken
      /\ eTodo' \in [Call -> SUBSET EmailToken] /\ older' \in [Call -> SUBSET EmailToken]
      /\ \A d \in Call \ {c} :
           /\ ePc'[d] = ePc[d] /\ eNow'[d] = eNow[d] /\ target'[d] = target[d]
           /\ eTodo'[d] = eTodo[d] /\ older'[d] = older[d]
  BY <1>1, EmailTypes DEF E!Finish, E!Goto
<1>3. /\ tokenRow' \in [EmailToken -> Call \cup {Free}]
      /\ \A t \in EmailToken : tokenRow'[t] = IF tokenRow[t] = c THEN Free ELSE tokenRow[t]
      /\ accountRow' \in Call \cup {Free}
      /\ \A d \in Call \ {c} : accountRow = d => accountRow' = d
  BY EmailTypes DEF E!Finish, E!TypeOK
<1>4. E!Held(c)' = {}
  BY <1>3 DEF E!Held, E!SlotAssumption
<1>5. OthersKept(c)
  BY <1>2, <1>3 DEF OthersKept, E!SlotAssumption
<1> QED
  BY <1>2, <1>3, <1>4, <1>5

\* What holds of another call still does.
LEMMA BystanderKept ==
  ASSUME E!SlotAssumption, EmailInv, E!TypeOK', NEW c \in Call, OthersKept(c), TokensKept(c),
         account' = account \/ accountRow = c,
         target'[c] \in {target[c], NoToken} \/ target'[c] \in E!Unmade
           \/ (target'[c] \in EmailToken /\ tokens[target'[c]].made),
         NEW d \in Call \ {c}
  PROVE  EmailCallOK(d)'
<1>1. /\ EmailCallOK(d) /\ EmailCallOK(c) /\ E!TypeOK
      /\ ePc'[d] = ePc[d] /\ eNow'[d] = eNow[d] /\ target'[d] = target[d]
      /\ eTodo'[d] = eTodo[d] /\ older'[d] = older[d]
      /\ \A t \in EmailToken : tokenRow'[t] = d <=> tokenRow[t] = d
      /\ accountRow = d => accountRow' = d
  BY DEF EmailInv, OthersKept
<1>2. E!Held(d)' = E!Held(d)
  BY <1>1 DEF E!Held
<1>3. \A t \in EmailToken : tokens[t].made
      /\ (tokenRow[t] = d \/ Ended(t)) => tokens'[t] = tokens[t]
  BY <1>1 DEF TokensKept
<1>4. \A t \in EmailToken : tokens[t].made =>
        tokens'[t].made /\ tokens'[t].expiresAt = tokens[t].expiresAt
  BY <1>1 DEF TokensKept
<1>5. ePc[d] \in Presenting =>
        tokenRow'[target[d]] = d /\ tokens'[target[d]].made /\ ~Ended(target[d])'
  BY <1>1, <1>3 DEF EmailCallOK, Ended
<1>6. ePc[d] = "activated" => accountRow' = d /\ E!Pending'
  BY <1>1 DEF EmailCallOK, E!Pending
<1>7. ePc[d] \in Resending =>
        /\ target[d] \in EmailToken /\ ~tokens'[target[d]].made
        /\ \A e \in Call \ {d} : target'[e] # target[d]
  <2> SUFFICES ASSUME ePc[d] \in Resending
               PROVE  /\ target[d] \in EmailToken /\ ~tokens'[target[d]].made
                      /\ \A e \in Call \ {d} : target'[e] # target[d]
    OBVIOUS
  <2>1. /\ target[d] \in EmailToken /\ ~tokens[target[d]].made
        /\ \A e \in Call \ {d} : target[e] # target[d]
    BY <1>1 DEF EmailCallOK
  <2>2. tokens'[target[d]] = tokens[target[d]]
    BY <2>1 DEF TokensKept
  <2>3. target'[c] # target[d]
    BY <2>1 DEF E!Unmade, E!SlotAssumption
  <2>4. \A e \in Call \ {d} : e # c => target'[e] = target[e]
    BY DEF OthersKept
  <2> QED
    BY <2>1, <2>2, <2>3, <2>4
<1>8. ePc[d] \in {"lock", "create"} => \A t \in E!Held(d) : tokens'[t].made /\ ~Ended(t)'
  BY <1>1, <1>3 DEF EmailCallOK, E!Held, Ended
<1>9. ePc[d] \in {"lock", "create"} =>
        \A t \in older[d] :
          /\ tokens'[t].made /\ eNow[d] < tokens'[t].expiresAt
          /\ t \in eTodo[d] \/ tokenRow'[t] = d \/ Ended(t)'
  <2> SUFFICES ASSUME ePc[d] \in {"lock", "create"}, NEW t \in older[d]
               PROVE  /\ tokens'[t].made /\ eNow[d] < tokens'[t].expiresAt
                      /\ t \in eTodo[d] \/ tokenRow'[t] = d \/ Ended(t)'
    OBVIOUS
  <2>1. /\ t \in EmailToken /\ tokens[t].made /\ eNow[d] < tokens[t].expiresAt
        /\ t \in eTodo[d] \/ tokenRow[t] = d \/ Ended(t)
    BY <1>1, EmailTypes DEF EmailCallOK
  <2>2. tokens'[t].made /\ tokens'[t].expiresAt = tokens[t].expiresAt
    BY <1>4, <2>1
  <2>3. Ended(t) => Ended(t)'
    BY <1>3, <2>1 DEF Ended
  <2> QED
    BY <1>1, <2>1, <2>2, <2>3
<1> QED
  BY <1>1, <1>2, <1>5, <1>6, <1>7, <1>8, <1>9 DEF EmailCallOK

\* A step of c that writes no committed row.
LEMMA EmailGoesOn ==
  ASSUME E!SlotAssumption, EmailInv, NEW c \in Call, OthersKept(c),
         UNCHANGED <<tokens, account, eClock>>, EmailCallOK(c)',
         ePc' \in [Call -> {"idle", "read", "readUser"} \cup E!InTx],
         tokenRow' \in [EmailToken -> Call \cup {Free}], accountRow' \in Call \cup {Free},
         eNow' \in [Call -> 0..EmailClock], target' \in [Call -> EmailToken \cup {NoToken}],
         eTodo' \in [Call -> SUBSET EmailToken], older' \in [Call -> SUBSET EmailToken],
         target'[c] \in {target[c], NoToken} \/ target'[c] \in E!Unmade
           \/ (target'[c] \in EmailToken /\ tokens[target'[c]].made)
  PROVE  EmailInv'
<1>1. E!TypeOK'
  BY DEF EmailInv, E!TypeOK, EmailRow
<1>2. TokensKept(c)
  BY DEF TokensKept
<1>3. \A d \in Call : EmailCallOK(d)'
  BY <1>1, <1>2, BystanderKept
<1>4. TokensOK' /\ AccountOK'
  BY DEF EmailInv, TokensOK, AccountOK, Ended, E!Pending
<1> QED
  BY <1>1, <1>3, <1>4 DEF EmailInv

LEMMA EmailRollback ==
  ASSUME E!SlotAssumption, E!TimeAssumption, EmailInv, NEW c \in Call, E!Rollback(c)
  PROVE  EmailInv'
<1>1. E!TypeOK /\ E!Finish(c) /\ UNCHANGED <<tokens, account, eClock>>
  BY DEF EmailInv, E!Rollback
<1>2. EmailCallOK(c)'
  BY <1>1, FinishEffect DEF EmailCallOK, Presenting, Resending
<1> QED
  BY <1>1, <1>2, FinishEffect, EmailGoesOn

\* A step on which only the label of c changes.
LEMMA EmailGoto ==
  ASSUME E!SlotAssumption, EmailInv, NEW c \in Call,
         NEW x \in {"idle", "read", "readUser"} \cup E!InTx, E!Goto(c, x),
         UNCHANGED <<tokens, account, E!rowVars, eClock, E!localVars>>, EmailCallOK(c)'
  PROVE  EmailInv'
<1>1. /\ ePc' \in [Call -> {"idle", "read", "readUser"} \cup E!InTx]
      /\ \A d \in Call \ {c} : ePc'[d] = ePc[d]
  BY EmailTypes DEF EmailInv, E!Goto
<1>2. OthersKept(c)
  BY <1>1 DEF OthersKept, E!rowVars, E!localVars
<1>3. E!TypeOK
  BY DEF EmailInv
<1> QED
  BY <1>1, <1>2, <1>3, EmailGoesOn DEF E!TypeOK, E!rowVars, E!localVars

LEMMA VerifyOK ==
  ASSUME E!SlotAssumption, E!TimeAssumption, EmailInv, NEW c \in Call, NEW t \in EmailToken,
         E!Verify(c, t)
  PROVE  EmailInv'
<1>1. /\ ePc[c] = "idle" /\ tokens[t].made /\ E!TypeOK /\ EmailCallOK(c)
      /\ eNow' = [eNow EXCEPT ![c] = eClock] /\ target' = [target EXCEPT ![c] = t]
      /\ E!Goto(c, "read") /\ UNCHANGED <<tokens, account, E!rowVars, eClock, eTodo, older>>
  BY DEF E!Verify, EmailInv
<1>2. /\ ePc' \in [Call -> {"idle", "read", "readUser"} \cup E!InTx] /\ ePc'[c] = "read"
      /\ eNow' \in [Call -> 0..EmailClock]
      /\ target' \in [Call -> EmailToken \cup {NoToken}] /\ target'[c] = t
      /\ \A d \in Call \ {c} : ePc'[d] = ePc[d] /\ eNow'[d] = eNow[d] /\ target'[d] = target[d]
  BY <1>1 DEF E!TypeOK, E!Goto
<1>3. OthersKept(c)
  BY <1>1, <1>2 DEF OthersKept, E!rowVars
<1>4. E!Held(c)' = {}
  BY <1>1 DEF EmailCallOK, E!Held, E!rowVars, Presenting
<1>5. EmailCallOK(c)'
  BY <1>2, <1>4 DEF EmailCallOK, Presenting, Resending
<1> QED
  BY <1>1, <1>2, <1>3, <1>5, EmailGoesOn DEF E!TypeOK, E!rowVars

LEMMA ReadTokenOK ==
  ASSUME E!SlotAssumption, E!TimeAssumption, EmailInv, NEW c \in Call, E!ReadToken(c)
  PROVE  EmailInv'
<1>1. CASE E!Rollback(c)
  BY <1>1, EmailRollback
<1>2. CASE ~E!Rollback(c)
  <2>1. /\ ePc[c] = "read" /\ E!TypeOK /\ EmailCallOK(c) /\ E!Goto(c, "consume")
        /\ UNCHANGED <<tokens, account, E!rowVars, eClock, E!localVars>>
    BY <1>2 DEF E!ReadToken, EmailInv
  <2>2. ePc'[c] = "consume"
    BY <2>1 DEF E!TypeOK, E!Goto
  <2>3. EmailCallOK(c)'
    BY <2>1, <2>2 DEF EmailCallOK, Presenting, Resending, E!Held, E!rowVars, E!localVars
  <2> QED
    BY <2>1, <2>3, EmailGoto DEF E!InTx
<1> QED
  BY <1>1, <1>2

LEMMA ConsumeOK ==
  ASSUME E!SlotAssumption, E!TimeAssumption, EmailInv, NEW c \in Call, E!Consume(c)
  PROVE  EmailInv'
<1>1. CASE E!Rollback(c)
  BY <1>1, EmailRollback
<1>2. CASE ~E!Rollback(c)
  <2> DEFINE t == target[c]
  <2>1. /\ ePc[c] = "consume" /\ E!TypeOK /\ EmailCallOK(c) /\ E!Goto(c, "activate")
        /\ tokenRow[t] = Free /\ E!Usable(t, eNow[c])
        /\ tokenRow' = [tokenRow EXCEPT ![t] = c]
        /\ UNCHANGED <<tokens, account, accountRow, eClock, E!localVars>>
    BY <1>2 DEF E!Consume, EmailInv
  <2>2. t \in EmailToken /\ tokens[t].made /\ ~Ended(t)
    BY <2>1 DEF EmailCallOK, E!Usable, Ended
  <2>3. /\ ePc' \in [Call -> {"idle", "read", "readUser"} \cup E!InTx] /\ ePc'[c] = "activate"
        /\ \A d \in Call \ {c} : ePc'[d] = ePc[d]
    BY <2>1 DEF E!TypeOK, E!Goto, E!InTx
  <2>4. /\ tokenRow' \in [EmailToken -> Call \cup {Free}] /\ tokenRow'[t] = c
        /\ \A u \in EmailToken \ {t} : tokenRow'[u] = tokenRow[u]
    BY <2>1, <2>2, EmailTypes
  <2>5. OthersKept(c)
    BY <2>1, <2>3, <2>4 DEF OthersKept, E!localVars, E!SlotAssumption
  <2>6. EmailCallOK(c)'
    BY <2>1, <2>2, <2>3, <2>4
       DEF EmailCallOK, Presenting, Resending, Ended, E!localVars
  <2> QED
    BY <2>1, <2>3, <2>4, <2>5, <2>6, EmailGoesOn DEF E!TypeOK, E!localVars
<1> QED
  BY <1>1, <1>2

LEMMA ActivateOK ==
  ASSUME E!SlotAssumption, E!TimeAssumption, EmailInv, NEW c \in Call, E!Activate(c)
  PROVE  EmailInv'
<1>1. CASE E!Rollback(c)
  BY <1>1, EmailRollback
<1>2. CASE ~E!Rollback(c)
  <2>1. /\ ePc[c] = "activate" /\ E!TypeOK /\ EmailCallOK(c) /\ E!Goto(c, "activated")
        /\ accountRow = Free /\ E!Pending /\ accountRow' = c
        /\ UNCHANGED <<tokens, account, tokenRow, eClock, E!localVars>>
    BY <1>2 DEF E!Activate, EmailInv
  <2>2. /\ ePc' \in [Call -> {"idle", "read", "readUser"} \cup E!InTx] /\ ePc'[c] = "activated"
        /\ \A d \in Call \ {c} : ePc'[d] = ePc[d]
    BY <2>1 DEF E!TypeOK, E!Goto, E!InTx
  <2>3. OthersKept(c)
    BY <2>1, <2>2 DEF OthersKept, E!localVars, E!SlotAssumption
  <2>4. EmailCallOK(c)'
    BY <2>1, <2>2 DEF EmailCallOK, Presenting, Resending, Ended, E!localVars, E!Pending
  <2> QED
    BY <2>1, <2>2, <2>3, <2>4, EmailGoesOn DEF E!TypeOK, E!localVars
<1> QED
  BY <1>1, <1>2

\* The one activation: no token was used before, this one is.
LEMMA CommitVerifyOK ==
  ASSUME E!SlotAssumption, E!TimeAssumption, EmailInv, NEW c \in Call, E!CommitVerify(c)
  PROVE  EmailInv'
<1> DEFINE t == target[c]
<1>1. /\ ePc[c] = "activated" /\ E!TypeOK /\ EmailCallOK(c) /\ E!Finish(c) /\ UNCHANGED eClock
      /\ tokens' = [tokens EXCEPT ![t].used = TRUE]
      /\ account' = [status |-> "ACTIVE", version |-> account.version + 1,
                     welcomes |-> account.welcomes + 1]
  BY DEF E!CommitVerify, EmailInv
<1>2. /\ t \in EmailToken /\ tokenRow[t] = c /\ tokens[t].made /\ ~Ended(t)
      /\ accountRow = c /\ E!Pending
  BY <1>1 DEF EmailCallOK, Presenting
<1> DEFINE r == [tokens[t] EXCEPT !.used = TRUE]
<1>3. /\ r \in EmailRow /\ r.used = TRUE /\ r.superseded = tokens[t].superseded
      /\ r.made = tokens[t].made /\ r.expiresAt = tokens[t].expiresAt
  BY <1>1, <1>2, EmailTypes DEF EmailRow
<1>4. tokens' = [tokens EXCEPT ![t] = r]
  BY <1>1
<1> HIDE DEF r
<1>5. /\ tokens' \in [EmailToken -> EmailRow] /\ tokens'[t] = r
      /\ \A u \in EmailToken \ {t} : tokens'[u] = tokens[u]
  <2>1. tokens \in [EmailToken -> EmailRow] /\ r \in EmailRow /\ t \in EmailToken
    BY <1>1, <1>2, <1>3, EmailTypes
  <2> QED
    BY <1>4, <2>1
<1>6. account.version = 0 /\ account.welcomes = 0 /\ \A u \in EmailToken : ~tokens[u].used
  BY <1>2 DEF EmailInv, AccountOK
<1>7. /\ account'.status = "ACTIVE" /\ account'.version = 1 /\ account'.welcomes = 1
      /\ account' \in [status : {"PENDING_EMAIL_VERIFICATION", "ACTIVE"}, version : Nat,
                       welcomes : Nat]
  BY <1>1, <1>6
<1>8. E!TypeOK'
  BY <1>1, <1>5, <1>7, FinishEffect DEF E!TypeOK, EmailRow
<1>9. OthersKept(c) /\ TokensKept(c)
  BY <1>1, <1>2, <1>3, <1>5, FinishEffect DEF TokensKept
<1>10. \A d \in Call : EmailCallOK(d)'
  <2>1. EmailCallOK(c)'
    BY <1>1, FinishEffect DEF EmailCallOK, Presenting, Resending
  <2> QED
    BY <1>1, <1>2, <1>8, <1>9, <2>1, FinishEffect, BystanderKept
<1>11. TokensOK'
  BY <1>2, <1>3, <1>5 DEF EmailInv, TokensOK, Ended
<1>12. AccountOK'
  <2>1. ~E!Pending'
    BY <1>7 DEF E!Pending
  <2>2. \A u \in EmailToken : tokens'[u].used <=> u = t
    BY <1>2, <1>3, <1>5, <1>6
  <2> QED
    BY <1>2, <1>7, <2>1, <2>2 DEF AccountOK
<1> QED
  BY <1>8, <1>10, <1>11, <1>12 DEF EmailInv

LEMMA ResendOK ==
  ASSUME E!SlotAssumption, E!TimeAssumption, EmailInv, NEW c \in Call, E!Resend(c)
  PROVE  EmailInv'
<1>1. /\ ePc[c] = "idle" /\ E!TypeOK /\ EmailCallOK(c) /\ E!Goto(c, "readUser")
      /\ UNCHANGED <<tokens, account, E!rowVars, eClock, E!localVars>>
  BY DEF E!Resend, EmailInv
<1>2. ePc'[c] = "readUser"
  BY <1>1 DEF E!TypeOK, E!Goto
<1>3. EmailCallOK(c)'
  BY <1>1, <1>2 DEF EmailCallOK, Presenting, Resending, E!Held, E!rowVars
<1> QED
  BY <1>1, <1>3, EmailGoto

LEMMA ReadUserOK ==
  ASSUME E!SlotAssumption, E!TimeAssumption, EmailInv, NEW c \in Call, E!ReadUser(c)
  PROVE  EmailInv'
<1>1. CASE E!Rollback(c)
  BY <1>1, EmailRollback
<1>2. CASE ~E!Rollback(c)
  <2> DEFINE t == CHOOSE u \in E!Unmade : TRUE
  <2>1. /\ ePc[c] = "readUser" /\ E!TypeOK /\ EmailCallOK(c) /\ E!Unmade # {}
        /\ target' = [target EXCEPT ![c] = t] /\ eNow' = [eNow EXCEPT ![c] = eClock]
        /\ E!Goto(c, "supersede")
        /\ UNCHANGED <<tokens, account, E!rowVars, eClock, eTodo, older>>
    BY <1>2 DEF E!ReadUser, EmailInv
  <2>2. t \in E!Unmade
    BY <2>1
  <2> HIDE DEF t
  <2>3. t \in EmailToken /\ ~tokens[t].made /\ \A d \in Call : target[d] # t
    BY <2>2 DEF E!Unmade
  <2>4. /\ ePc' \in [Call -> {"idle", "read", "readUser"} \cup E!InTx] /\ ePc'[c] = "supersede"
        /\ eNow' \in [Call -> 0..EmailClock]
        /\ target' \in [Call -> EmailToken \cup {NoToken}] /\ target'[c] = t
        /\ \A d \in Call \ {c} : ePc'[d] = ePc[d] /\ eNow'[d] = eNow[d]
           /\ target'[d] = target[d]
    BY <2>1, <2>3 DEF E!TypeOK, E!Goto, E!InTx
  <2>5. OthersKept(c)
    BY <2>1, <2>4 DEF OthersKept, E!rowVars
  <2>6. E!Held(c)' = {}
    BY <2>1 DEF EmailCallOK, E!Held, E!rowVars, Presenting
  <2>7. EmailCallOK(c)'
    BY <2>1, <2>3, <2>4, <2>6 DEF EmailCallOK, Presenting, Resending
  <2> QED
    BY <2>1, <2>2, <2>4, <2>5, <2>7, EmailGoesOn DEF E!TypeOK, E!rowVars
<1> QED
  BY <1>1, <1>2

LEMMA StartSupersedeOK ==
  ASSUME E!SlotAssumption, E!TimeAssumption, EmailInv, NEW c \in Call, E!StartSupersede(c)
  PROVE  EmailInv'
<1> DEFINE live == {t \in EmailToken : E!Usable(t, eNow[c])}
<1>1. /\ ePc[c] = "supersede" /\ E!TypeOK /\ EmailCallOK(c) /\ E!Goto(c, "lock")
      /\ eTodo' = [eTodo EXCEPT ![c] = live] /\ older' = [older EXCEPT ![c] = live]
      /\ UNCHANGED <<tokens, account, E!rowVars, eClock, eNow, target>>
  BY DEF E!StartSupersede, EmailInv
<1>2. \A t \in live : t \in EmailToken /\ tokens[t].made /\ eNow[c] < tokens[t].expiresAt
  BY DEF E!Usable
<1>3. live \in SUBSET EmailToken
  OBVIOUS
<1> HIDE DEF live
<1>4. /\ ePc' \in [Call -> {"idle", "read", "readUser"} \cup E!InTx] /\ ePc'[c] = "lock"
      /\ eTodo' \in [Call -> SUBSET EmailToken] /\ older' \in [Call -> SUBSET EmailToken]
      /\ eTodo'[c] = live /\ older'[c] = live
      /\ \A d \in Call \ {c} : ePc'[d] = ePc[d] /\ eTodo'[d] = eTodo[d] /\ older'[d] = older[d]
  BY <1>1, <1>3 DEF E!TypeOK, E!Goto, E!InTx
<1>5. OthersKept(c)
  BY <1>1, <1>4 DEF OthersKept, E!rowVars
<1>6. E!Held(c)' = {}
  BY <1>1 DEF EmailCallOK, E!Held, E!rowVars, Presenting
<1>7. EmailCallOK(c)'
  BY <1>1, <1>2, <1>4, <1>6 DEF EmailCallOK, Presenting, Resending
<1> QED
  BY <1>1, <1>4, <1>5, <1>7, EmailGoesOn DEF E!TypeOK, E!rowVars

LEMMA LockTokenOK ==
  ASSUME E!SlotAssumption, E!TimeAssumption, EmailInv, NEW c \in Call, NEW t \in EmailToken,
         E!LockToken(c, t)
  PROVE  EmailInv'
<1>1. /\ ePc[c] = "lock" /\ t \in eTodo[c] /\ E!TypeOK /\ EmailCallOK(c) /\ tokenRow[t] = Free
      /\ eTodo' = [eTodo EXCEPT ![c] = eTodo[c] \ {t}]
      /\ tokenRow' = [tokenRow EXCEPT ![t] = IF E!Usable(t, eNow[c]) THEN c ELSE Free]
      /\ UNCHANGED <<tokens, account, accountRow, eClock, ePc, eNow, target, older>>
  BY DEF E!LockToken, EmailInv
<1>2. /\ tokenRow' \in [EmailToken -> Call \cup {Free}]
      /\ tokenRow'[t] = IF E!Usable(t, eNow[c]) THEN c ELSE Free
      /\ \A u \in EmailToken \ {t} : tokenRow'[u] = tokenRow[u]
  BY <1>1, EmailTypes
<1>3. /\ eTodo' \in [Call -> SUBSET EmailToken] /\ eTodo'[c] = eTodo[c] \ {t}
      /\ \A d \in Call \ {c} : eTodo'[d] = eTodo[d]
  BY <1>1, EmailTypes
<1>4. OthersKept(c)
  BY <1>1, <1>2, <1>3 DEF OthersKept, E!SlotAssumption
<1>5. \A u \in E!Held(c)' : tokens[u].made /\ ~Ended(u)
  <2> SUFFICES ASSUME NEW u \in EmailToken, tokenRow'[u] = c PROVE tokens[u].made /\ ~Ended(u)
    BY DEF E!Held
  <2>1. CASE u = t
    BY <1>2, <2>1 DEF E!SlotAssumption, E!Usable, Ended
  <2>2. CASE u # t
    BY <1>1, <1>2, <2>2 DEF EmailCallOK, E!Held
  <2> QED
    BY <2>1, <2>2
<1>6. \A u \in older[c] : /\ tokens[u].made /\ eNow[c] < tokens[u].expiresAt
                          /\ u \in eTodo'[c] \/ tokenRow'[u] = c \/ Ended(u)
  <2> SUFFICES ASSUME NEW u \in older[c]
               PROVE  /\ tokens[u].made /\ eNow[c] < tokens[u].expiresAt
                      /\ u \in eTodo'[c] \/ tokenRow'[u] = c \/ Ended(u)
    OBVIOUS
  <2>1. /\ tokens[u].made /\ eNow[c] < tokens[u].expiresAt /\ u \in EmailToken
        /\ u \in eTodo[c] \/ tokenRow[u] = c \/ Ended(u)
    BY <1>1, EmailTypes DEF EmailCallOK
  <2>2. CASE u = t
    BY <1>2, <2>1, <2>2 DEF E!Usable, Ended
  <2>3. CASE u # t
    BY <1>2, <1>3, <2>1, <2>3
  <2> QED
    BY <2>1, <2>2, <2>3
<1>7. EmailCallOK(c)'
  <2>1. /\ ePc[c] \in Resending /\ ePc[c] \notin Presenting
        /\ target[c] \in EmailToken /\ ~tokens[target[c]].made
        /\ \A d \in Call \ {c} : target[d] # target[c]
    BY <1>1 DEF EmailCallOK, Presenting, Resending
  <2>2. ePc'[c] = "lock" /\ eNow' = eNow /\ older' = older /\ target' = target
        /\ tokens' = tokens
    BY <1>1
  <2>3. \A u \in EmailToken : Ended(u)' = Ended(u)
    BY <1>1 DEF Ended
  <2>4. \A u \in E!Held(c)' : tokens'[u].made /\ ~Ended(u)'
    BY <1>5, <2>2, <2>3 DEF E!Held
  <2>5. \A u \in older'[c] : /\ tokens'[u].made /\ eNow'[c] < tokens'[u].expiresAt
                             /\ u \in eTodo'[c] \/ tokenRow'[u] = c \/ Ended(u)'
    BY <1>6, <2>2 DEF Ended
  <2> QED
    BY <2>1, <2>2, <2>4, <2>5 DEF EmailCallOK, Presenting, Resending
<1> QED
  BY <1>1, <1>2, <1>3, <1>4, <1>7, EmailGoesOn DEF E!TypeOK

LEMMA SupersededOK ==
  ASSUME E!SlotAssumption, E!TimeAssumption, EmailInv, NEW c \in Call, E!Superseded(c)
  PROVE  EmailInv'
<1>1. /\ ePc[c] = "lock" /\ eTodo[c] = {} /\ E!TypeOK /\ EmailCallOK(c) /\ E!Goto(c, "create")
      /\ UNCHANGED <<tokens, account, E!rowVars, eClock, E!localVars>>
  BY DEF E!Superseded, EmailInv
<1>2. ePc'[c] = "create"
  BY <1>1 DEF E!TypeOK, E!Goto
<1>3. EmailCallOK(c)'
  <2>1. E!Held(c)' = E!Held(c) /\ \A t : Ended(t)' = Ended(t)
    BY <1>1 DEF E!Held, Ended, E!rowVars
  <2> QED
    BY <1>1, <1>2, <2>1 DEF EmailCallOK, Presenting, Resending, E!rowVars, E!localVars
<1> QED
  BY <1>1, <1>3, EmailGoto DEF E!InTx

\* What a resend's commit does to the tokens.
LEMMA ResendEffect ==
  ASSUME E!SlotAssumption, E!TimeAssumption, EmailInv, NEW c \in Call, E!CommitResend(c)
  PROVE  /\ tokens' \in [EmailToken -> EmailRow] /\ target[c] \in EmailToken
         /\ tokens'[target[c]].made
         /\ ~tokens'[target[c]].used /\ ~tokens'[target[c]].superseded
         /\ \A t \in EmailToken \ {target[c]} :
              IF tokenRow[t] = c
              THEN /\ tokens'[t].superseded /\ tokens'[t].used = tokens[t].used
                   /\ tokens'[t].made = tokens[t].made
                   /\ tokens'[t].expiresAt = tokens[t].expiresAt
              ELSE tokens'[t] = tokens[t]
<1> DEFINE new == [made |-> TRUE, used |-> FALSE, superseded |-> FALSE,
                    expiresAt |-> E!Expiry(c)]
<1>1. /\ ePc[c] = "create" /\ E!TypeOK /\ target[c] \in EmailToken
  BY DEF E!CommitResend, EmailInv, EmailCallOK, Resending
<1>2. E!Expiry(c) \in E!Instant
  BY <1>1 DEF E!Expiry, E!Instant, E!TypeOK, E!TimeAssumption
<1>3. new \in EmailRow
  BY <1>2 DEF EmailRow
<1>4. \A t \in EmailToken : /\ [tokens[t] EXCEPT !.superseded = TRUE] \in EmailRow
                       /\ [tokens[t] EXCEPT !.superseded = TRUE].superseded
                       /\ [tokens[t] EXCEPT !.superseded = TRUE].used = tokens[t].used
                       /\ [tokens[t] EXCEPT !.superseded = TRUE].made = tokens[t].made
                       /\ [tokens[t] EXCEPT !.superseded = TRUE].expiresAt = tokens[t].expiresAt
  BY <1>1, EmailTypes DEF EmailRow
<1>5. /\ tokens' = [t \in EmailToken |->
           IF t = target[c] THEN new
           ELSE IF t \in E!Held(c) THEN [tokens[t] EXCEPT !.superseded = TRUE] ELSE tokens[t]]
      /\ new.made /\ ~new.used /\ ~new.superseded
  BY DEF E!CommitResend
<1> HIDE DEF new
<1>6. tokens' \in [EmailToken -> EmailRow]
  BY <1>1, <1>3, <1>4, <1>5, EmailTypes
<1>7. \A t \in EmailToken : t \in E!Held(c) <=> tokenRow[t] = c
  BY DEF E!Held
<1> QED
  BY <1>1, <1>4, <1>5, <1>6, <1>7

LEMMA CommitResendOK ==
  ASSUME E!SlotAssumption, E!TimeAssumption, EmailInv, NEW c \in Call, E!CommitResend(c)
  PROVE  EmailInv'
<1>1. ePc[c] = "create" /\ E!TypeOK /\ EmailCallOK(c) /\ E!Finish(c)
      /\ UNCHANGED <<account, eClock>>
  BY DEF E!CommitResend, EmailInv
<1>2. /\ target[c] \in EmailToken /\ ~tokens[target[c]].made
      /\ \A t \in EmailToken : tokenRow[t] = c => tokens[t].made /\ ~Ended(t)
  BY <1>1 DEF EmailCallOK, Resending, E!Held
<1>3. E!TypeOK'
  BY <1>1, FinishEffect, ResendEffect DEF E!TypeOK, EmailRow
<1>4. OthersKept(c)
  BY <1>1, FinishEffect
<1>5. TokensKept(c)
  BY <1>1, <1>2, ResendEffect DEF TokensKept
<1>6. \A d \in Call : EmailCallOK(d)'
  <2>1. EmailCallOK(c)'
    BY <1>1, FinishEffect DEF EmailCallOK, Presenting, Resending
  <2> QED
    BY <1>1, <1>3, <1>4, <1>5, <2>1, FinishEffect, BystanderKept
<1>7. \A t \in EmailToken : tokens'[t].used <=> tokens[t].used
  BY <1>2, ResendEffect, EmailTypes DEF EmailInv, TokensOK, Ended
<1>8. TokensOK'
  <2> SUFFICES ASSUME NEW t \in EmailToken
               PROVE  /\ Ended(t)' => tokens'[t].made
                      /\ ~(tokens'[t].used /\ tokens'[t].superseded)
    BY DEF TokensOK
  <2>1. CASE t = target[c]
    BY <2>1, ResendEffect
  <2>2. CASE t # target[c] /\ tokenRow[t] = c
    BY <1>2, <2>2, ResendEffect DEF Ended
  <2>3. CASE t # target[c] /\ tokenRow[t] # c
    BY <2>3, ResendEffect DEF EmailInv, TokensOK, Ended
  <2> QED
    BY <2>1, <2>2, <2>3
<1>9. AccountOK'
  BY <1>1, <1>7 DEF EmailInv, AccountOK, E!Pending
<1> QED
  BY <1>3, <1>6, <1>8, <1>9 DEF EmailInv

LEMMA EmailQuiet ==
  ASSUME E!SlotAssumption, E!TimeAssumption, EmailInv, E!Tick \/ UNCHANGED E!vars
  PROVE  EmailInv'
<1>1. /\ UNCHANGED <<tokens, account, E!rowVars, ePc, E!localVars>> /\ E!TypeOK
      /\ eClock' \in 0..EmailClock
  BY DEF EmailInv, E!Tick, E!vars, E!TypeOK, E!TimeAssumption
<1>2. E!TypeOK'
  BY <1>1 DEF E!TypeOK, E!rowVars, E!localVars
<1>3. /\ tokens' = tokens /\ account' = account /\ ePc' = ePc /\ eNow' = eNow
         /\ target' = target
      /\ eTodo' = eTodo /\ older' = older /\ tokenRow' = tokenRow /\ accountRow' = accountRow
  BY <1>1 DEF E!rowVars, E!localVars
<1>4. \A c \in Call : EmailCallOK(c)'
  BY <1>3 DEF EmailInv, EmailCallOK, E!Held, Ended, E!Pending
<1>5. TokensOK' /\ AccountOK'
  BY <1>3 DEF EmailInv, TokensOK, AccountOK, Ended, E!Pending
<1> QED
  BY <1>2, <1>4, <1>5 DEF EmailInv

LEMMA EmailStep ==
  ASSUME E!SlotAssumption, E!TimeAssumption, EmailInv, [E!Next]_(E!vars)
  PROVE  EmailInv'
<1>1. ASSUME NEW c \in Call, E!Step(c) PROVE EmailInv'
  BY <1>1, ReadTokenOK, ConsumeOK, ActivateOK, CommitVerifyOK, ReadUserOK, StartSupersedeOK,
     LockTokenOK, SupersededOK, CommitResendOK, EmailRollback DEF E!Step, E!EndDeadlock
<1>2. ASSUME NEW c \in Call, E!Fail(c) \/ E!Resend(c) \/ \E t \in EmailToken : E!Verify(c, t)
      PROVE  EmailInv'
  BY <1>2, EmailRollback, ResendOK, VerifyOK DEF E!Fail
<1> QED
  BY <1>1, <1>2, EmailQuiet DEF E!Next

LEMMA EmailInvariance ==
  ASSUME E!SlotAssumption, E!TimeAssumption PROVE E!Spec => []EmailInv
  BY EmailInit, EmailStep, PTL DEF E!Spec

LEMMA EmailActivatedOnce == EmailInv => E!ActivatedOnce
<1> SUFFICES ASSUME EmailInv PROVE E!ActivatedOnce
  OBVIOUS
<1> DEFINE Used == {t \in EmailToken : tokens[t].used}
<1>1. CASE E!Pending
  <2>1. account.version = 0 /\ account.welcomes = 0 /\ Used = {}
    BY <1>1 DEF EmailInv, AccountOK
  <2>2. Cardinality(Used) = 0
    BY <2>1, FS_EmptySet
  <2> QED
    BY <1>1, <2>1, <2>2 DEF E!ActivatedOnce, E!Cardinality, Cardinality
<1>2. CASE ~E!Pending
  <2>1. /\ account.version = 1 /\ account.welcomes = 1
        /\ \E t \in EmailToken : \A u \in EmailToken : tokens[u].used <=> u = t
    BY <1>2 DEF EmailInv, AccountOK
  <2>2. PICK t \in EmailToken : Used = {t}
    BY <2>1
  <2>3. Cardinality(Used) = 1
    BY <2>2, FS_Singleton
  <2> QED
    BY <1>2, <2>1, <2>3 DEF E!ActivatedOnce, E!Cardinality, Cardinality
<1> QED
  BY <1>1, <1>2

\* A resend that commits ends every token it found live.
LEMMA EmailOlderEnd ==
  ASSUME E!SlotAssumption, E!TimeAssumption, EmailInv, [E!Next]_(E!vars), NEW c \in Call,
         ePc[c] = "create", ~tokens[target[c]].made, tokens'[target[c]].made
  PROVE  \A t \in older[c] : tokens'[t].used \/ tokens'[t].superseded
<1>1. /\ target[c] \in EmailToken /\ eTodo[c] = {} /\ older[c] \subseteq EmailToken
      /\ \A d \in Call \ {c} : target[d] # target[c]
      /\ \A t \in older[c] : tokens[t].made /\ (tokenRow[t] = c \/ Ended(t))
  BY EmailTypes DEF EmailInv, EmailCallOK, Resending
<1>2. tokens' # tokens
  OBVIOUS
<1>3. PICK d \in Call : E!CommitVerify(d) \/ E!CommitResend(d)
  <2>1. ASSUME NEW d \in Call, E!Step(d) PROVE E!CommitVerify(d) \/ E!CommitResend(d)
    BY <1>2, <2>1
       DEF E!Step, E!ReadToken, E!Consume, E!Activate, E!ReadUser, E!StartSupersede,
           E!LockToken,
       E!Superseded, E!EndDeadlock, E!Rollback
  <2>2. ASSUME NEW d \in Call, E!Fail(d) \/ E!Resend(d) \/ \E t \in EmailToken : E!Verify(d, t)
        PROVE  FALSE
    BY <1>2, <2>2 DEF E!Fail, E!Rollback, E!Resend, E!Verify
  <2>3. ~(E!Tick \/ UNCHANGED E!vars)
    BY <1>2 DEF E!Tick, E!vars
  <2> QED
    BY <2>1, <2>2, <2>3 DEF E!Next
<1>4. CASE E!CommitResend(d)
  <2>1. d = c
    BY <1>1, <1>4, ResendEffect DEF EmailInv, EmailCallOK, E!Held, E!CommitResend
  <2>2. \A t \in older[c] : t # target[c]
    BY <1>1
  <2> QED
    BY <1>1, <1>4, <2>1, <2>2, ResendEffect DEF Ended
<1>5. CASE E!CommitVerify(d)
  <2>1. /\ tokens' = [tokens EXCEPT ![target[d]].used = TRUE] /\ target[d] \in EmailToken
        /\ tokens[target[d]].made
    BY <1>5 DEF E!CommitVerify, EmailInv, EmailCallOK, Presenting
  <2>2. tokens'[target[c]] = tokens[target[c]]
    BY <1>1, <2>1, EmailTypes DEF EmailInv
  <2> QED
    BY <2>2
<1> QED
  BY <1>3, <1>4, <1>5

-----------------------------------------------------------------------------
(* SessionUpgrade: every number of calls, keys, contents and sessions      *)

FullRecord == [content : Content, session : Session, expiresAt : 0..UpgradeClock + RecordTtl]
LimitedRow == [status : {"ACTIVE", "UPGRADED", "REVOKED"}, version : 0..MaxVersion + 1,
               live : BOOLEAN]

\* A full session was made, and for this request.
MadeFor(s, ask) == s \in Session /\ full[s] # "none" /\ made[s] = ask

\* The limited session is written by who owns its entry, and barren once it ended.
LimitedOK ==
  /\ limited.status = "ACTIVE" => limited.version <= MaxVersion
  /\ limitedRow = Rotator => limited.status = "ACTIVE" /\ limited.version < MaxVersion
  /\ U!LimitedIsBarren

\* It was exchanged for the one full session there is.
ExchangeOK ==
  IF limited.status = "UPGRADED"
  THEN \E s \in Session : \A t \in Session : full[t] # "none" <=> t = s
  ELSE \A t \in Session : full[t] = "none"

ReplaysOK ==
  \A k \in Key : uRecord[k] # None =>
    MadeFor(uRecord[k].session, [key |-> k, content |-> uRecord[k].content])

\* A call's snapshot is of this version or an older one; from the update on it is of
\* this one, and active.  What it answers was made for it and had not ended before.
UpgradeCallOK(c) ==
  /\ uPc[c] # "idle" => uCall[c] \in U!Ask
  /\ uPc[c] \in {"insertKey", "revoke", "commit"} =>
       /\ snap[c].version <= limited.version
       /\ snap[c].version = limited.version => snap[c].status = limited.status
  /\ uPc[c] \in {"revoke", "commit"} => snap[c].status = "ACTIVE"
  /\ uPc[c] = "commit" => limitedRow = c /\ limited.status = "ACTIVE"
  /\ uPc[c] \in {"check", "issue"} => MadeFor(uTarget[c], uCall[c])
  /\ uPc[c] = "issue" => uTarget[c] \notin gone[c]
  /\ uAnswer[c] # None => MadeFor(uAnswer[c], uCall[c])
  /\ \A s \in gone[c] : full[s] = "ended"

UpgradeInv ==
  /\ U!TypeOK /\ LimitedOK /\ ExchangeOK /\ ReplaysOK
  /\ \A c \in Call : UpgradeCallOK(c)

LEMMA UpgradeTypes ==
  ASSUME U!TypeOK
  PROVE  /\ limited \in LimitedRow /\ full \in [Session -> {"none", "active", "ended"}]
         /\ uRecord \in [Key -> {None} \cup FullRecord]
         /\ uKeyRow \in [Key -> Call \cup {Free}] /\ limitedRow \in Call \cup {Rotator, Free}
         /\ uPc \in [Call -> {"idle", "begin", "insertKey", "revoke", "commit", "check",
                              "issue"}]
         /\ uCall \in [Call -> {None} \cup U!Ask] /\ uNow \in [Call -> 0..UpgradeClock]
         /\ snap \in [Call -> U!Snap] /\ uTarget \in [Call -> Session \cup {None}]
         /\ uAnswer \in [Call -> Session \cup {None}] /\ made \in [Session -> {None} \cup U!Ask]
         /\ gone \in [Call -> SUBSET Session]
  BY DEF U!TypeOK, LimitedRow, FullRecord

LEMMA UpgradeInit == ASSUME U!SlotAssumption, U!TimeAssumption, U!Init PROVE UpgradeInv
<1>1. limited \in LimitedRow
  BY DEF U!Init, LimitedRow, U!TimeAssumption
<1>2. U!Unread \in U!Snap
  BY DEF U!Unread, U!Snap, U!TimeAssumption
<1>3. U!TypeOK
  <2>1. verified \in BOOLEAN /\ passed \in BOOLEAN
    BY DEF U!Init
  <2>2. 0 \in 0..UpgradeClock
    BY DEF U!TimeAssumption
  <2>3. /\ snap \in [Call -> U!Snap] /\ uNow \in [Call -> 0..UpgradeClock]
           /\ uClock \in 0..UpgradeClock
        /\ full \in [Session -> {"none", "active", "ended"}]
        /\ uPc \in [Call -> {"idle", "begin", "insertKey", "revoke", "commit", "check",
                             "issue"}]
    BY <1>2, <2>2 DEF U!Init
  <2>4. /\ uCall \in [Call -> {None} \cup U!Ask] /\ uTarget \in [Call -> Session \cup {None}]
        /\ uAnswer \in [Call -> Session \cup {None}] /\ made \in [Session -> {None} \cup U!Ask]
        /\ gone \in [Call -> SUBSET Session] /\ uRecord \in [Key -> {None} \cup FullRecord]
        /\ uKeyRow \in [Key -> Call \cup {Free}] /\ limitedRow \in Call \cup {Rotator, Free}
    BY DEF U!Init
  <2> QED
    BY <1>1, <2>1, <2>3, <2>4 DEF U!TypeOK, LimitedRow, FullRecord
<1>4. LimitedOK
  <2>1. limited.status = "ACTIVE" /\ limited.version = 0 /\ limitedRow = Free
    BY DEF U!Init
  <2> QED
    BY <2>1 DEF LimitedOK, U!LimitedIsBarren, U!TimeAssumption, U!SlotAssumption
<1>5. ExchangeOK /\ ReplaysOK
  BY DEF U!Init, ExchangeOK, ReplaysOK
<1>6. \A c \in Call : UpgradeCallOK(c)
  BY DEF U!Init, UpgradeCallOK
<1> QED
  BY <1>3, <1>4, <1>5, <1>6 DEF UpgradeInv

-------------------------------------------------------------------------------
(* What a step leaves alone                                                *)

\* Calls that a step does not move, and what they own.
CallsKept(D) ==
  \A d \in D :
    /\ uPc'[d] = uPc[d] /\ uCall'[d] = uCall[d] /\ snap'[d] = snap[d]
       /\ uTarget'[d] = uTarget[d]
    /\ uAnswer'[d] = uAnswer[d] /\ gone'[d] = gone[d]
    /\ limitedRow = d => limitedRow' = d /\ limited' = limited

\* A write of the limited session makes a newer version of it; made sessions stay made,
\* and ended ones ended.
RowsGrow ==
  /\ limited' = limited \/ limited'.version = limited.version + 1
  /\ \A s \in Session : full[s] # "none" =>
       /\ full'[s] # "none" /\ made'[s] = made[s]
       /\ full[s] = "ended" => full'[s] = "ended"

LEMMA CallsStayOK ==
  ASSUME UpgradeInv, NEW D \in SUBSET Call, CallsKept(D), RowsGrow, NEW d \in D
  PROVE  UpgradeCallOK(d)'
<1>1. /\ UpgradeCallOK(d) /\ U!TypeOK /\ d \in Call
      /\ uPc'[d] = uPc[d] /\ uCall'[d] = uCall[d] /\ snap'[d] = snap[d]
         /\ uTarget'[d] = uTarget[d]
      /\ uAnswer'[d] = uAnswer[d] /\ gone'[d] = gone[d]
      /\ limitedRow = d => limitedRow' = d /\ limited' = limited
  BY DEF UpgradeInv, CallsKept
<1>2. \A s, ask : MadeFor(s, ask) => MadeFor(s, ask)'
  BY DEF MadeFor, RowsGrow
<1>3. \A s \in gone[d] : full'[s] = "ended"
  BY <1>1, UpgradeTypes DEF UpgradeCallOK, RowsGrow
<1>4. uPc[d] \in {"insertKey", "revoke", "commit"} =>
        /\ snap[d].version <= limited'.version
        /\ snap[d].version = limited'.version => snap[d].status = limited'.status
  <2>1. limited.version \in Nat /\ snap[d].version \in Nat
    BY <1>1, UpgradeTypes DEF LimitedRow, U!Snap
  <2> QED
    BY <1>1, <2>1 DEF UpgradeCallOK, RowsGrow
<1>5. uPc[d] = "commit" => limitedRow' = d /\ limited'.status = "ACTIVE"
  BY <1>1 DEF UpgradeCallOK
<1> QED
  BY <1>1, <1>2, <1>3, <1>4, <1>5 DEF UpgradeCallOK

\* A step that writes neither session nor record keeps what is said of them.
LEMMA RowsStayOK ==
  ASSUME U!SlotAssumption, UpgradeInv, UNCHANGED <<limited, full, uRecord, made>>,
         limitedRow' = Rotator => limitedRow = Rotator
  PROVE  LimitedOK' /\ ExchangeOK' /\ ReplaysOK' /\ RowsGrow
  BY DEF UpgradeInv, LimitedOK, U!LimitedIsBarren, ExchangeOK, ReplaysOK, MadeFor, RowsGrow

LEMMA RespondEffect ==
  ASSUME U!SlotAssumption, U!TimeAssumption, U!TypeOK, NEW c \in Call,
         NEW s \in Session \cup {None}, U!Respond(c, s)
  PROVE  /\ uPc' \in [Call -> {"idle", "begin", "insertKey", "revoke", "commit", "check",
                               "issue"}]
         /\ uCall' \in [Call -> {None} \cup U!Ask] /\ uNow' \in [Call -> 0..UpgradeClock]
         /\ snap' \in [Call -> U!Snap] /\ uTarget' \in [Call -> Session \cup {None}]
         /\ uAnswer' \in [Call -> Session \cup {None}] /\ gone' \in [Call -> SUBSET Session]
         /\ uKeyRow' \in [Key -> Call \cup {Free}] /\ limitedRow' \in Call \cup {Rotator, Free}
         /\ uPc'[c] = "idle" /\ uAnswer'[c] = s /\ gone'[c] = {}
         /\ s # None => uCall'[c] = uCall[c]
         /\ limitedRow' = Rotator => limitedRow = Rotator
         /\ \A d \in Call \ {c} :
              /\ uPc'[d] = uPc[d] /\ uCall'[d] = uCall[d] /\ snap'[d] = snap[d]
              /\ uTarget'[d] = uTarget[d] /\ uAnswer'[d] = uAnswer[d] /\ gone'[d] = gone[d]
              /\ limitedRow = d => limitedRow' = d
<1>1. U!Unread \in U!Snap /\ 0 \in 0..UpgradeClock
  BY DEF U!Unread, U!Snap, U!TimeAssumption
<1>2. /\ uPc' \in [Call -> {"idle", "begin", "insertKey", "revoke", "commit", "check", "issue"}]
      /\ uCall' \in [Call -> {None} \cup U!Ask] /\ uNow' \in [Call -> 0..UpgradeClock]
      /\ uPc'[c] = "idle" /\ (s # None => uCall'[c] = uCall[c])
      /\ \A d \in Call \ {c} : uPc'[d] = uPc[d] /\ uCall'[d] = uCall[d]
  BY <1>1, UpgradeTypes DEF U!Respond, U!Goto
<1>3. /\ snap' \in [Call -> U!Snap] /\ uTarget' \in [Call -> Session \cup {None}]
      /\ \A d \in Call \ {c} : snap'[d] = snap[d] /\ uTarget'[d] = uTarget[d]
  BY <1>1, UpgradeTypes DEF U!Respond
<1>4. /\ uAnswer' \in [Call -> Session \cup {None}] /\ gone' \in [Call -> SUBSET Session]
      /\ uAnswer'[c] = s /\ gone'[c] = {}
      /\ \A d \in Call \ {c} : uAnswer'[d] = uAnswer[d] /\ gone'[d] = gone[d]
  BY UpgradeTypes DEF U!Respond
<1>5. /\ uKeyRow' \in [Key -> Call \cup {Free}] /\ limitedRow' \in Call \cup {Rotator, Free}
      /\ limitedRow' = Rotator => limitedRow = Rotator
      /\ \A d \in Call \ {c} : limitedRow = d => limitedRow' = d
  BY UpgradeTypes DEF U!Respond, U!SlotAssumption
<1> QED
  BY <1>2, <1>3, <1>4, <1>5

LEMMA RefuseOK ==
  ASSUME U!SlotAssumption, U!TimeAssumption, UpgradeInv, NEW c \in Call, U!Refuse(c)
  PROVE  UpgradeInv'
<1>1. /\ U!TypeOK /\ U!Respond(c, None)
      /\ UNCHANGED <<limited, full, uRecord, verified, passed, uClock, made>>
  BY DEF U!Refuse, UpgradeInv
<1>2. U!TypeOK'
  BY <1>1, RespondEffect DEF U!TypeOK
<1>3. LimitedOK' /\ ExchangeOK' /\ ReplaysOK' /\ RowsGrow
  BY <1>1, RespondEffect, RowsStayOK
<1>4. CallsKept(Call \ {c})
  BY <1>1, RespondEffect DEF CallsKept
<1>5. UpgradeCallOK(c)'
  BY <1>1, RespondEffect DEF UpgradeCallOK
<1> QED
  BY <1>2, <1>3, <1>4, <1>5, CallsStayOK DEF UpgradeInv

\* A step on which only the label of c changes.
LEMMA UpgradeGoto ==
  ASSUME U!SlotAssumption, UpgradeInv, NEW c \in Call,
         NEW x \in {"idle", "begin", "insertKey", "revoke", "commit", "check", "issue"},
         uPc' = [uPc EXCEPT ![c] = x],
         uKeyRow' \in [Key -> Call \cup {Free}], limitedRow' \in Call \cup {Rotator, Free},
         limitedRow' = Rotator => limitedRow = Rotator,
         \A d \in Call \ {c} : limitedRow = d => limitedRow' = d,
         UNCHANGED <<limited, full, uRecord, verified, passed, uClock, U!localVars, made>>,
         UpgradeCallOK(c)'
  PROVE  UpgradeInv'
<1>1. U!TypeOK
  BY DEF UpgradeInv
<1>2. /\ uPc' \in [Call -> {"idle", "begin", "insertKey", "revoke", "commit", "check", "issue"}]
      /\ \A d \in Call \ {c} : uPc'[d] = uPc[d]
  BY <1>1, UpgradeTypes
<1>3. U!TypeOK'
  BY <1>1, <1>2 DEF U!TypeOK, U!localVars
<1>4. LimitedOK' /\ ExchangeOK' /\ ReplaysOK' /\ RowsGrow
  BY RowsStayOK
<1>5. CallsKept(Call \ {c})
  BY <1>2 DEF CallsKept, U!localVars
<1> QED
  BY <1>3, <1>4, <1>5, CallsStayOK DEF UpgradeInv

-------------------------------------------------------------------------------
(* The steps of an upgrade                                                 *)

LEMMA UpgradeOK ==
  ASSUME U!SlotAssumption, U!TimeAssumption, UpgradeInv, NEW c \in Call, NEW k \in Key,
         NEW content \in Content, U!Upgrade(c, k, content)
  PROVE  UpgradeInv'
<1> DEFINE ended == {s \in Session : full[s] = "ended"}
<1>1. /\ uPc[c] = "idle" /\ U!TypeOK /\ U!Goto(c, "begin")
      /\ uCall' = [uCall EXCEPT ![c] = [key |-> k, content |-> content]]
      /\ uNow' = [uNow EXCEPT ![c] = uClock] /\ uAnswer' = [uAnswer EXCEPT ![c] = None]
      /\ gone' = [gone EXCEPT ![c] = ended]
      /\ UNCHANGED <<limited, full, uRecord, verified, passed, U!rowVars, uClock, snap,
                     uTarget, made>>
  BY DEF U!Upgrade, UpgradeInv
<1>2. [key |-> k, content |-> content] \in U!Ask
  BY DEF U!Ask
<1>3. ended \in SUBSET Session /\ \A s \in ended : full[s] = "ended"
  OBVIOUS
<1> HIDE DEF ended
<1>4. /\ uPc' \in [Call -> {"idle", "begin", "insertKey", "revoke", "commit", "check", "issue"}]
      /\ uCall' \in [Call -> {None} \cup U!Ask] /\ uNow' \in [Call -> 0..UpgradeClock]
      /\ uPc'[c] = "begin" /\ uCall'[c] \in U!Ask
      /\ \A d \in Call \ {c} : uPc'[d] = uPc[d] /\ uCall'[d] = uCall[d]
  BY <1>1, <1>2 DEF U!TypeOK, U!Goto
<1>5. /\ uAnswer' \in [Call -> Session \cup {None}] /\ gone' \in [Call -> SUBSET Session]
      /\ uAnswer'[c] = None /\ gone'[c] = ended
      /\ \A d \in Call \ {c} : uAnswer'[d] = uAnswer[d] /\ gone'[d] = gone[d]
  BY <1>1, <1>3, UpgradeTypes
<1>6. U!TypeOK'
  BY <1>1, <1>4, <1>5 DEF U!TypeOK, U!rowVars
<1>7. LimitedOK' /\ ExchangeOK' /\ ReplaysOK' /\ RowsGrow
  BY <1>1, RowsStayOK DEF U!rowVars
<1>8. CallsKept(Call \ {c})
  BY <1>1, <1>4, <1>5 DEF CallsKept, U!rowVars
<1>9. UpgradeCallOK(c)'
  BY <1>1, <1>3, <1>4, <1>5 DEF UpgradeCallOK
<1> QED
  BY <1>6, <1>7, <1>8, <1>9, CallsStayOK DEF UpgradeInv

LEMMA BeginUpgradeOK ==
  ASSUME U!SlotAssumption, U!TimeAssumption, UpgradeInv, NEW c \in Call, U!Begin(c)
  PROVE  UpgradeInv'
<1>0. uPc[c] = "begin" /\ U!TypeOK /\ UpgradeCallOK(c) /\ uCall[c] \in U!Ask
      /\ uCall[c].key \in Key
  BY DEF U!Begin, UpgradeInv, UpgradeCallOK, U!Ask
<1>1. CASE U!Refuse(c)
  BY <1>1, RefuseOK
<1>2. CASE /\ U!Found(c) # None /\ U!Replayable(c)
           /\ uTarget' = [uTarget EXCEPT ![c] = U!Found(c).session] /\ U!Goto(c, "check")
           /\ UNCHANGED <<limited, full, uRecord, verified, passed, U!rowVars, uClock, uCall,
                          uNow, snap, uAnswer, gone, made>>
  <2>1. MadeFor(U!Found(c).session, uCall[c])
    <3>1. MadeFor(U!Found(c).session, [key |-> uCall[c].key, content |-> U!Found(c).content])
      BY <1>0, <1>2 DEF UpgradeInv, ReplaysOK, U!Found
    <3>2. uCall[c] = [key |-> uCall[c].key, content |-> U!Found(c).content]
      BY <1>0, <1>2 DEF U!Replayable, U!Ask
    <3> QED
      BY <3>1, <3>2
  <2>2. /\ uPc' \in [Call -> {"idle", "begin", "insertKey", "revoke", "commit", "check",
                              "issue"}]
        /\ uTarget' \in [Call -> Session \cup {None}]
        /\ uPc'[c] = "check" /\ uTarget'[c] = U!Found(c).session
        /\ \A d \in Call \ {c} : uPc'[d] = uPc[d] /\ uTarget'[d] = uTarget[d]
    BY <1>0, <1>2, <2>1 DEF U!TypeOK, U!Goto, MadeFor
  <2>3. U!TypeOK'
    BY <1>0, <1>2, <2>2 DEF U!TypeOK, U!rowVars
  <2>4. LimitedOK' /\ ExchangeOK' /\ ReplaysOK' /\ RowsGrow
    BY <1>2, RowsStayOK DEF U!rowVars
  <2>5. CallsKept(Call \ {c})
    BY <1>2, <2>2 DEF CallsKept, U!rowVars
  <2>6. UpgradeCallOK(c)'
    BY <1>0, <1>2, <2>1, <2>2 DEF UpgradeCallOK, MadeFor
  <2> QED
    BY <2>3, <2>4, <2>5, <2>6, CallsStayOK DEF UpgradeInv
<1>3. CASE /\ snap' = [snap EXCEPT ![c] = [status |-> limited.status,
                version |-> limited.version, verified |-> verified, passed |-> passed]]
           /\ U!Goto(c, "insertKey")
           /\ UNCHANGED <<limited, full, uRecord, verified, passed, U!rowVars, uClock, uCall,
                          uNow, uTarget, uAnswer, gone, made>>
  <2> DEFINE new == [status |-> limited.status, version |-> limited.version,
                     verified |-> verified, passed |-> passed]
  <2>1. new \in U!Snap /\ new.status = limited.status /\ new.version = limited.version
    BY <1>0 DEF U!TypeOK, U!Snap
  <2> HIDE DEF new
  <2>2. snap' = [snap EXCEPT ![c] = new]
    BY <1>3 DEF new
  <2>3. /\ uPc' \in [Call -> {"idle", "begin", "insertKey", "revoke", "commit", "check",
                              "issue"}]
        /\ snap' \in [Call -> U!Snap] /\ uPc'[c] = "insertKey" /\ snap'[c] = new
        /\ \A d \in Call \ {c} : uPc'[d] = uPc[d] /\ snap'[d] = snap[d]
    BY <1>0, <1>3, <2>1, <2>2 DEF U!TypeOK, U!Goto
  <2>4. U!TypeOK'
    BY <1>0, <1>3, <2>3 DEF U!TypeOK, U!rowVars
  <2>5. LimitedOK' /\ ExchangeOK' /\ ReplaysOK' /\ RowsGrow
    BY <1>3, RowsStayOK DEF U!rowVars
  <2>6. CallsKept(Call \ {c})
    BY <1>3, <2>3 DEF CallsKept, U!rowVars
  <2>7. snap'[c].version <= limited.version
    BY <1>0, <2>1, <2>3, UpgradeTypes DEF LimitedRow
  <2>8. UpgradeCallOK(c)'
    BY <1>0, <1>3, <2>1, <2>3, <2>7 DEF UpgradeCallOK, MadeFor
  <2> QED
    BY <2>4, <2>5, <2>6, <2>8, CallsStayOK DEF UpgradeInv
<1> QED
  BY <1>1, <1>2, <1>3 DEF U!Begin

LEMMA InsertKeyOK ==
  ASSUME U!SlotAssumption, U!TimeAssumption, UpgradeInv, NEW c \in Call, U!InsertKey(c)
  PROVE  UpgradeInv'
<1>1. CASE U!Refuse(c)
  BY <1>1, RefuseOK
<1>2. CASE ~U!Refuse(c)
  <2>1. /\ uPc[c] = "insertKey" /\ U!TypeOK /\ UpgradeCallOK(c) /\ U!Eligible(c)
        /\ uKeyRow' = [uKeyRow EXCEPT ![uCall[c].key] = c] /\ U!Goto(c, "revoke")
        /\ UNCHANGED <<limited, full, uRecord, verified, passed, limitedRow, uClock,
                       U!localVars, made>>
    BY <1>2 DEF U!InsertKey, UpgradeInv
  <2>2. uPc'[c] = "revoke" /\ snap[c].status = "ACTIVE"
    BY <2>1 DEF U!TypeOK, U!Goto, U!Eligible
  <2>3. UpgradeCallOK(c)'
    BY <2>1, <2>2 DEF UpgradeCallOK, MadeFor, U!localVars
  <2>4. uKeyRow' \in [Key -> Call \cup {Free}]
    BY <2>1, UpgradeTypes
  <2> QED
    BY <2>1, <2>3, <2>4, UpgradeTypes, UpgradeGoto DEF U!Goto
<1> QED
  BY <1>1, <1>2

\* The update finds the version of the snapshot, so the session is still active.
LEMMA RevokeOK ==
  ASSUME U!SlotAssumption, U!TimeAssumption, UpgradeInv, NEW c \in Call, U!Revoke(c)
  PROVE  UpgradeInv'
<1>1. CASE U!Refuse(c)
  BY <1>1, RefuseOK
<1>2. CASE ~U!Refuse(c)
  <2>1. /\ uPc[c] = "revoke" /\ U!TypeOK /\ UpgradeCallOK(c) /\ limitedRow = Free
        /\ limited.version = snap[c].version /\ limitedRow' = c /\ U!Goto(c, "commit")
        /\ UNCHANGED <<limited, full, uRecord, verified, passed, uKeyRow, uClock, U!localVars,
                       made>>
    BY <1>2 DEF U!Revoke, UpgradeInv, U!Unwritten
  <2>2. uPc'[c] = "commit" /\ limited.status = "ACTIVE"
    BY <2>1 DEF U!TypeOK, U!Goto, UpgradeCallOK
  <2>3. UpgradeCallOK(c)'
    BY <2>1, <2>2 DEF UpgradeCallOK, MadeFor, U!localVars
  <2>4. /\ limitedRow' \in Call \cup {Rotator, Free} /\ limitedRow' # Rotator
        /\ \A d \in Call \ {c} : limitedRow # d
    BY <2>1 DEF U!SlotAssumption
  <2> QED
    BY <2>1, <2>3, <2>4, UpgradeTypes, UpgradeGoto DEF U!Goto
<1> QED
  BY <1>1, <1>2

LEMMA CheckOK ==
  ASSUME U!SlotAssumption, U!TimeAssumption, UpgradeInv, NEW c \in Call, U!Check(c)
  PROVE  UpgradeInv'
<1>1. CASE U!Refuse(c)
  BY <1>1, RefuseOK
<1>2. CASE ~U!Refuse(c)
  <2>1. /\ uPc[c] = "check" /\ U!TypeOK /\ UpgradeCallOK(c) /\ full[uTarget[c]] = "active"
        /\ U!Goto(c, "issue")
        /\ UNCHANGED <<limited, full, uRecord, verified, passed, U!rowVars, uClock,
                       U!localVars, made>>
    BY <1>2 DEF U!Check, UpgradeInv
  <2>2. uPc'[c] = "issue" /\ uTarget[c] \notin gone[c]
    BY <2>1 DEF U!TypeOK, U!Goto, UpgradeCallOK
  <2>3. UpgradeCallOK(c)'
    BY <2>1, <2>2 DEF UpgradeCallOK, MadeFor, U!localVars
  <2> QED
    BY <2>1, <2>3, UpgradeTypes, UpgradeGoto DEF U!Goto, U!rowVars
<1> QED
  BY <1>1, <1>2

LEMMA IssueOK ==
  ASSUME U!SlotAssumption, U!TimeAssumption, UpgradeInv, NEW c \in Call, U!Issue(c)
  PROVE  UpgradeInv'
<1>1. /\ uPc[c] = "issue" /\ U!TypeOK /\ UpgradeCallOK(c) /\ U!Respond(c, uTarget[c])
      /\ UNCHANGED <<limited, full, uRecord, verified, passed, uClock, made>>
  BY DEF U!Issue, UpgradeInv
<1>2. uTarget[c] \in Session /\ uTarget[c] # None /\ MadeFor(uTarget[c], uCall[c])
  BY <1>1 DEF UpgradeCallOK, MadeFor, U!SlotAssumption
<1>3. U!TypeOK'
  BY <1>1, <1>2, RespondEffect DEF U!TypeOK
<1>4. LimitedOK' /\ ExchangeOK' /\ ReplaysOK' /\ RowsGrow
  BY <1>1, <1>2, RespondEffect, RowsStayOK
<1>5. CallsKept(Call \ {c})
  BY <1>1, <1>2, RespondEffect DEF CallsKept
<1>6. UpgradeCallOK(c)'
  BY <1>1, <1>2, RespondEffect DEF UpgradeCallOK, MadeFor
<1> QED
  BY <1>3, <1>4, <1>5, <1>6, CallsStayOK DEF UpgradeInv

\* The one exchange: there was no full session before it.
LEMMA CommitUpgradeOK ==
  ASSUME U!SlotAssumption, U!TimeAssumption, UpgradeInv, NEW c \in Call, U!Commit(c)
  PROVE  UpgradeInv'
<1>0. PICK s \in Session : full[s] = "none" /\ s = CHOOSE t \in Session : full[t] = "none"
  BY DEF U!Commit
<1> DEFINE k == uCall[c].key
           entry == [content |-> uCall[c].content, session |-> s,
                     expiresAt |-> U!RecordExpiry(c)]
<1>1. /\ uPc[c] = "commit" /\ U!TypeOK /\ UpgradeCallOK(c) /\ full[s] = "none"
      /\ limited' = [status |-> "UPGRADED", version |-> limited.version + 1, live |-> FALSE]
      /\ full' = [full EXCEPT ![s] = "active"] /\ made' = [made EXCEPT ![s] = uCall[c]]
      /\ uRecord' = [uRecord EXCEPT ![k] = entry]
      /\ uKeyRow' = [l \in Key |-> IF uKeyRow[l] = c THEN Free ELSE uKeyRow[l]]
      /\ limitedRow' = IF limitedRow = c THEN Free ELSE limitedRow
      /\ uTarget' = [uTarget EXCEPT ![c] = s] /\ U!Goto(c, "check")
      /\ UNCHANGED <<verified, passed, uClock, uCall, uNow, snap, uAnswer, gone>>
  BY <1>0 DEF U!Commit, UpgradeInv
<1>2. /\ uCall[c] \in U!Ask /\ k \in Key /\ uCall[c].content \in Content
      /\ uCall[c] = [key |-> k, content |-> uCall[c].content]
      /\ limitedRow = c /\ limited.status = "ACTIVE"
  BY <1>1 DEF UpgradeCallOK, U!Ask
<1>3. limited.version \in 0..MaxVersion
  BY <1>2, UpgradeTypes DEF UpgradeInv, LimitedOK, LimitedRow, U!TimeAssumption
<1>4. \A t \in Session : full[t] = "none"
  BY <1>2 DEF UpgradeInv, ExchangeOK
<1>5. entry \in FullRecord /\ entry.session = s /\ entry.content = uCall[c].content
  <2>1. U!RecordExpiry(c) \in 0..UpgradeClock + RecordTtl
    BY <1>1 DEF U!RecordExpiry, U!TypeOK, U!TimeAssumption
  <2> QED
    BY <1>1, <1>2, <2>1 DEF FullRecord
<1> HIDE DEF entry
<1>6. /\ full' \in [Session -> {"none", "active", "ended"}] /\ full'[s] = "active"
      /\ made' \in [Session -> {None} \cup U!Ask] /\ made'[s] = uCall[c]
      /\ \A t \in Session \ {s} : full'[t] = full[t] /\ made'[t] = made[t]
  BY <1>1, <1>2, UpgradeTypes
<1>7. /\ uRecord' \in [Key -> {None} \cup FullRecord] /\ uRecord'[k] = entry
      /\ \A l \in Key \ {k} : uRecord'[l] = uRecord[l]
  BY <1>1, <1>2, <1>5, UpgradeTypes
<1>8. /\ uPc' \in [Call -> {"idle", "begin", "insertKey", "revoke", "commit", "check", "issue"}]
      /\ uTarget' \in [Call -> Session \cup {None}] /\ uPc'[c] = "check" /\ uTarget'[c] = s
      /\ \A d \in Call \ {c} : uPc'[d] = uPc[d] /\ uTarget'[d] = uTarget[d]
  BY <1>1 DEF U!TypeOK, U!Goto
<1>9. /\ limited' \in LimitedRow /\ limited'.status = "UPGRADED" /\ ~limited'.live
      /\ limited'.version = limited.version + 1 /\ limitedRow' = Free
      /\ uKeyRow' \in [Key -> Call \cup {Free}]
  BY <1>1, <1>2, <1>3, UpgradeTypes DEF LimitedRow, U!TimeAssumption
<1>10. U!TypeOK'
  BY <1>1, <1>6, <1>7, <1>8, <1>9 DEF U!TypeOK, LimitedRow, FullRecord
<1>11. LimitedOK'
  BY <1>9 DEF LimitedOK, U!LimitedIsBarren, U!SlotAssumption
<1>12. ExchangeOK'
  <2>1. \A t \in Session : full'[t] # "none" <=> t = s
    BY <1>4, <1>6
  <2> QED
    BY <1>1, <1>9, <2>1 DEF ExchangeOK
<1>13. MadeFor(s, uCall[c])'
  BY <1>1, <1>6 DEF MadeFor
<1>14. ReplaysOK'
  <2> SUFFICES ASSUME NEW l \in Key, uRecord'[l] # None
               PROVE  MadeFor(uRecord[l].session, [key |-> l, content |-> uRecord[l].content])'
    BY DEF ReplaysOK
  <2>1. CASE l = k
    BY <1>1, <1>2, <1>5, <1>7, <1>13, <2>1 DEF MadeFor
  <2>2. CASE l # k
    BY <1>4, <1>7, <2>2 DEF UpgradeInv, ReplaysOK, MadeFor
  <2> QED
    BY <2>1, <2>2
<1>15. RowsGrow
  BY <1>4, <1>9 DEF RowsGrow
<1>16. CallsKept(Call \ {c})
  BY <1>1, <1>2, <1>8 DEF CallsKept
<1>17. UpgradeCallOK(c)'
  <2>1. uAnswer[c] = None /\ gone[c] = {}
    BY <1>1, <1>4, UpgradeTypes DEF UpgradeCallOK, MadeFor
  <2> QED
    BY <1>1, <1>2, <1>8, <1>13, <2>1 DEF UpgradeCallOK, MadeFor
<1> QED
  BY <1>10, <1>11, <1>12, <1>14, <1>15, <1>16, <1>17, CallsStayOK DEF UpgradeInv

-------------------------------------------------------------------------------
(* The steps beside it                                                     *)

\* A step of no call.
LEMMA BesideOK ==
  ASSUME UpgradeInv, U!TypeOK', CallsKept(Call), RowsGrow, LimitedOK', ExchangeOK', ReplaysOK'
  PROVE  UpgradeInv'
  BY CallsStayOK DEF UpgradeInv

LEMMA OthersOK ==
  ASSUME U!SlotAssumption, U!TimeAssumption, UpgradeInv,
         U!RotateLimited \/ U!Decide \/ (\E k \in Key : U!Purge(k)) \/ U!Tick
         \/ UNCHANGED U!vars
  PROVE  UpgradeInv'
<1>1. /\ U!TypeOK /\ UNCHANGED <<limited, full, uPc, U!localVars, made, uKeyRow>>
      /\ limitedRow' = limitedRow \/ U!RotateLimited
  BY DEF UpgradeInv, U!RotateLimited, U!Decide, U!Purge, U!Tick, U!vars, U!rowVars
<1>2. verified' \in BOOLEAN /\ passed' \in BOOLEAN
  BY <1>1 DEF U!TypeOK, U!RotateLimited, U!Decide, U!Purge, U!Tick, U!vars
<1>3. /\ uRecord' \in [Key -> {None} \cup FullRecord]
      /\ \A k \in Key : uRecord'[k] # None => uRecord'[k] = uRecord[k]
  <2>1. uRecord' = uRecord \/ \E k \in Key : uRecord' = [uRecord EXCEPT ![k] = None]
    BY DEF U!RotateLimited, U!Decide, U!Purge, U!Tick, U!vars
  <2> QED
    BY <1>1, <2>1, UpgradeTypes
<1>4. uClock' \in 0..UpgradeClock
  BY <1>1 DEF U!TypeOK, U!RotateLimited, U!Decide, U!Purge, U!Tick, U!vars, U!TimeAssumption
<1>5. limitedRow' \in Call \cup {Rotator, Free}
  BY <1>1, UpgradeTypes DEF U!RotateLimited
<1>6. U!TypeOK'
  BY <1>1, <1>2, <1>3, <1>4, <1>5 DEF U!TypeOK, U!localVars, FullRecord
<1>7. CallsKept(Call)
  BY <1>1 DEF CallsKept, U!localVars, U!RotateLimited, U!SlotAssumption
<1>8. LimitedOK'
  BY <1>1 DEF UpgradeInv, LimitedOK, U!LimitedIsBarren, U!RotateLimited
<1>9. ExchangeOK' /\ ReplaysOK' /\ RowsGrow
  BY <1>1, <1>3 DEF UpgradeInv, ExchangeOK, ReplaysOK, MadeFor, RowsGrow
<1> QED
  BY <1>6, <1>7, <1>8, <1>9, BesideOK

LEMMA LimitedWrittenOK ==
  ASSUME U!SlotAssumption, U!TimeAssumption, UpgradeInv, U!CommitRotation \/ U!Logout
  PROVE  UpgradeInv'
<1>1. /\ U!TypeOK /\ limited.status = "ACTIVE" /\ limited.version < MaxVersion
      /\ limitedRow \in {Rotator, Free} /\ limitedRow' = Free
      /\ UNCHANGED <<full, uRecord, verified, passed, uKeyRow, uClock, uPc, U!localVars, made>>
  BY DEF UpgradeInv, LimitedOK, U!CommitRotation, U!Logout, U!rowVars
<1>2. /\ limited.version \in 0..MaxVersion + 1 /\ limited \in LimitedRow
      /\ limited.version + 1 \in 0..MaxVersion + 1 /\ limited.version + 1 <= MaxVersion
  BY <1>1, UpgradeTypes DEF LimitedRow, U!TimeAssumption
<1>3. /\ limited' \in LimitedRow /\ limited'.version = limited.version + 1
      /\ \/ limited'.status = "ACTIVE"
         \/ limited'.status = "REVOKED" /\ ~limited'.live
  <2>1. CASE U!CommitRotation
    <3>1. limited' = [limited EXCEPT !.version = limited.version + 1, !.live = TRUE]
      BY <2>1 DEF U!CommitRotation
    <3> QED
      BY <1>1, <1>2, <3>1 DEF LimitedRow
  <2>2. CASE U!Logout
    BY <1>2, <2>2 DEF U!Logout, LimitedRow
  <2> QED
    BY <2>1, <2>2
<1>4. U!TypeOK'
  BY <1>1, <1>3 DEF U!TypeOK, LimitedRow, U!localVars
<1>5. CallsKept(Call)
  BY <1>1 DEF CallsKept, U!localVars, U!SlotAssumption
<1>6. LimitedOK' /\ RowsGrow
  BY <1>1, <1>2, <1>3 DEF LimitedOK, U!LimitedIsBarren, RowsGrow, U!SlotAssumption
<1>7. ExchangeOK' /\ ReplaysOK'
  BY <1>1, <1>3 DEF UpgradeInv, ExchangeOK, ReplaysOK, MadeFor
<1> QED
  BY <1>4, <1>5, <1>6, <1>7, BesideOK

LEMMA EndFullOK ==
  ASSUME U!SlotAssumption, U!TimeAssumption, UpgradeInv, NEW s \in Session, U!EndFull(s)
  PROVE  UpgradeInv'
<1>1. /\ U!TypeOK /\ full[s] = "active" /\ full' = [full EXCEPT ![s] = "ended"]
      /\ UNCHANGED <<limited, uRecord, verified, passed, U!rowVars, uClock, uPc, U!localVars,
                     made>>
  BY DEF UpgradeInv, U!EndFull
<1>2. /\ full' \in [Session -> {"none", "active", "ended"}] /\ full'[s] = "ended"
      /\ \A t \in Session \ {s} : full'[t] = full[t]
  BY <1>1, UpgradeTypes
<1>3. U!TypeOK'
  BY <1>1, <1>2 DEF U!TypeOK, U!rowVars, U!localVars
<1>4. CallsKept(Call)
  BY <1>1 DEF CallsKept, U!rowVars, U!localVars
<1>5. RowsGrow /\ \A t \in Session : full'[t] = "none" <=> full[t] = "none"
  BY <1>1, <1>2 DEF RowsGrow
<1>6. LimitedOK'
  BY <1>1 DEF UpgradeInv, LimitedOK, U!LimitedIsBarren, U!rowVars
<1>7. ExchangeOK' /\ ReplaysOK'
  BY <1>1, <1>5 DEF UpgradeInv, ExchangeOK, ReplaysOK, MadeFor
<1> QED
  BY <1>3, <1>4, <1>5, <1>6, <1>7, BesideOK

LEMMA UpgradeStep ==
  ASSUME U!SlotAssumption, U!TimeAssumption, UpgradeInv, [U!Next]_(U!vars)
  PROVE  UpgradeInv'
<1>1. ASSUME NEW c \in Call, U!Step(c) PROVE UpgradeInv'
  BY <1>1, BeginUpgradeOK, InsertKeyOK, RevokeOK, CommitUpgradeOK, CheckOK, IssueOK DEF U!Step
<1>2. ASSUME NEW c \in Call, U!Fail(c) PROVE UpgradeInv'
  BY <1>2, RefuseOK DEF U!Fail
<1>3. ASSUME NEW c \in Call, NEW k \in Key, NEW content \in Content, U!Upgrade(c, k, content)
      PROVE  UpgradeInv'
  BY <1>3, UpgradeOK
<1> QED
  BY <1>1, <1>2, <1>3, OthersOK, LimitedWrittenOK, EndFullOK DEF U!Next

LEMMA UpgradeInvariance ==
  ASSUME U!SlotAssumption, U!TimeAssumption PROVE U!Spec => []UpgradeInv
  BY UpgradeInit, UpgradeStep, PTL DEF U!Spec

LEMMA UpgradeOneExchange == UpgradeInv => U!OneExchange
<1> SUFFICES ASSUME UpgradeInv PROVE U!OneExchange
  OBVIOUS
<1> DEFINE Made == {s \in Session : full[s] # "none"}
<1>1. CASE limited.status = "UPGRADED"
  <2>1. PICK s \in Session : Made = {s}
    BY <1>1 DEF UpgradeInv, ExchangeOK
  <2>2. Cardinality(Made) = 1
    BY <2>1, FS_Singleton
  <2> QED
    BY <1>1, <2>2 DEF U!OneExchange, U!Cardinality, Cardinality
<1>2. CASE limited.status # "UPGRADED"
  <2>1. Made = {}
    BY <1>2 DEF UpgradeInv, ExchangeOK
  <2>2. Cardinality(Made) = 0
    BY <2>1, FS_EmptySet
  <2> QED
    BY <1>2, <2>2 DEF U!OneExchange, U!Cardinality, Cardinality
<1> QED
  BY <1>1, <1>2

LEMMA UpgradeAnswers ==
  UpgradeInv => U!AnswersOwnRequest /\ U!LimitedIsBarren
  BY DEF UpgradeInv, UpgradeCallOK, U!AnswersOwnRequest, LimitedOK, MadeFor

\* Only the last step of an upgrade answers, with the session that was then checked.
LEMMA UpgradeNoDeadAnswer ==
  ASSUME U!SlotAssumption, U!TimeAssumption, UpgradeInv, [U!Next]_(U!vars), NEW c \in Call,
         uAnswer'[c] # uAnswer[c], uAnswer'[c] # None
  PROVE  uAnswer'[c] \notin gone[c]
<1>1. PICK d \in Call : uAnswer' = [uAnswer EXCEPT ![d] = None] \/ U!Issue(d)
  <2>1. ASSUME NEW d \in Call, U!Step(d)
        PROVE  uAnswer' = [uAnswer EXCEPT ![d] = None] \/ U!Issue(d) \/ uAnswer' = uAnswer
    BY <2>1 DEF U!Step, U!Begin, U!InsertKey, U!Revoke, U!Commit, U!Check, U!Refuse, U!Respond,
       U!localVars
  <2>2. ASSUME NEW d \in Call, U!Fail(d) \/ \E k \in Key, x \in Content : U!Upgrade(d, k, x)
        PROVE  uAnswer' = [uAnswer EXCEPT ![d] = None]
    BY <2>2 DEF U!Fail, U!Refuse, U!Respond, U!Upgrade
  <2>3. U!RotateLimited \/ U!CommitRotation \/ U!Logout \/ (\E s \in Session : U!EndFull(s))
        \/ U!Decide
        \/ (\E k \in Key : U!Purge(k)) \/ U!Tick \/ UNCHANGED U!vars => uAnswer' = uAnswer
    BY DEF U!RotateLimited, U!CommitRotation, U!Logout, U!EndFull, U!Decide, U!Purge, U!Tick,
           U!vars, U!localVars
  <2> QED
    BY <2>1, <2>2, <2>3 DEF U!Next
<1>2. U!TypeOK
  BY DEF UpgradeInv
<1>3. U!Issue(d)
  BY <1>1, <1>2, UpgradeTypes
<1>4. uPc[d] = "issue" /\ uAnswer' = [uAnswer EXCEPT ![d] = uTarget[d]]
  BY <1>3 DEF U!Issue, U!Respond
<1>5. d = c /\ uAnswer'[c] = uTarget[c]
  BY <1>2, <1>4, UpgradeTypes
<1> QED
  BY <1>4, <1>5 DEF UpgradeInv, UpgradeCallOK

-----------------------------------------------------------------------------
(* StepUpVerification: every number of calls, challenges and assertions    *)

USE SlotAssumption, LimitAssumption DEF SlotAssumption, LimitAssumption, Challenge, Time, Expiry

LEMMA NothingTyped == Nothing \in Local
  BY DEF Nothing, Local, Operation

LEMMA TypeInit == Init => TypeOK
<1> SUFFICES ASSUME Init PROVE TypeOK
  OBVIOUS
<1>1. local \in [Call -> Local]
  BY NothingTyped DEF Init
<1>2. sealed \in [Challenge -> BOOLEAN]
  BY DEF Init
<1> QED
  BY <1>1, <1>2 DEF Init, TypeOK

\* The fields of a call's locals may be set one by one.
LEMMA LocalTyped ==
  ASSUME NEW f \in [Call -> Local], NEW c \in Call
  PROVE  /\ \A t \in Time : [f EXCEPT ![c].now = t] \in [Call -> Local]
         /\ \A h \in Challenge : [f EXCEPT ![c].challenge = h] \in [Call -> Local]
         /\ \A p \in AssertionToken \cup {NoToken} : [f EXCEPT ![c].token = p]
            \in [Call -> Local]
         /\ \A p \in AssertionToken \cup {NoToken}, u \in Expiry :
              [f EXCEPT ![c].token = p, ![c].until = u] \in [Call -> Local]
         /\ \A p \in AssertionToken \cup {NoToken}, t \in Time :
              [f EXCEPT ![c].now = t, ![c].token = p] \in [Call -> Local]
<1>1. \A r \in Local, t \in Time : [r EXCEPT !.now = t] \in Local
  BY DEF Local
<1>2. \A r \in Local, h \in Challenge : [r EXCEPT !.challenge = h] \in Local
  BY DEF Local
<1>3. \A r \in Local, p \in AssertionToken \cup {NoToken} : [r EXCEPT !.token = p] \in Local
  BY DEF Local
<1>4. \A r \in Local, u \in Expiry : [r EXCEPT !.until = u] \in Local
  BY DEF Local
<1> HIDE DEF Challenge, Time, Expiry
<1>5. f[c] \in Local
  OBVIOUS
<1> QED
  BY <1>1, <1>2, <1>3, <1>4, <1>5

\* What a call begins with.
LEMMA BeginTyped ==
  ASSUME NEW f \in [Call -> Local], NEW c \in Call, NEW op \in Operation, NEW t \in Time
  PROVE  /\ [f EXCEPT ![c].op = op, ![c].now = t] \in [Call -> Local]
         /\ \A h \in Challenge :
              [f EXCEPT ![c].op = op, ![c].now = t, ![c].challenge = h] \in [Call -> Local]
         /\ \A p \in AssertionToken :
              [f EXCEPT ![c].op = op, ![c].now = t, ![c].token = p] \in [Call -> Local]
<1>1. [f EXCEPT ![c].op = op] \in [Call -> Local]
  BY DEF Local
<1> DEFINE g == [f EXCEPT ![c].op = op]
<1>2. /\ [g EXCEPT ![c].now = t] \in [Call -> Local]
      /\ [g EXCEPT ![c].now = t] = [f EXCEPT ![c].op = op, ![c].now = t]
  BY <1>1, LocalTyped
<1> QED
  BY <1>2, LocalTyped

\* A call that ends leaves well-typed rows and locals.
LEMMA FinishTyped ==
  ASSUME TypeOK, NEW c \in Call, Finish(c)
  PROVE  /\ pc' \in [Call -> {"idle", "scan", "expire", "find", "insert", "read", "claim",
                              "commit", "deliver", "lookup", "consume"}]
         /\ local' \in [Call -> Local]
         /\ todo' \in [Call -> SUBSET Challenge]
         /\ row' \in [Challenge -> Call \cup {Free}]
  BY NothingTyped DEF Finish, Goto, TypeOK

-----------------------------------------------------------------------------
(* The inductive invariant                                                 *)

\* Proofs exist exactly for challenges that were verified, after their attempt
\* had passed.
RowOK(h) ==
  /\ status[h] \in {"none", "PENDING"} => assertion[h] = NoToken
  /\ status[h] = "VERIFIED" => assertion[h] # NoToken /\ assertionExpiresAt[h] # NoTime
  /\ status[h] \in {"VERIFIED", "CONSUMED"} => attempt[h] = "PASSED"

\* The call is about a challenge that exists.
Aimed(c) == \/ pc[c] \in {"read", "claim", "commit", "deliver"}
            \/ pc[c] \in {"scan", "expire"} /\ local[c].op = "issue"

\* The call presents an assertion.
Presents(c) == \/ pc[c] \in {"lookup", "consume"}
               \/ pc[c] \in {"scan", "expire"} /\ local[c].op = "consume"

Minted(c) == pc[c] \in {"claim", "commit"}

\* Nobody but the call knows the assertion it minted.
Fresh(c) ==
  /\ local[c].token \in AssertionToken /\ local[c].token \notin delivered
  /\ \A h \in Challenge : assertion[h] # local[c].token
  /\ \A d \in Call \ {c} : Minted(d) => local[d].token # local[c].token

CallOK(c) ==
  /\ Aimed(c) => local[c].op = "issue" /\ local[c].challenge \in Challenge
  /\ Presents(c) => local[c].token \in delivered
  /\ pc[c] = "insert" => /\ local[c].challenge \in Challenge
                         /\ status[local[c].challenge] = "none"
  /\ Minted(c) => attempt[local[c].challenge] = "PASSED" /\ Fresh(c)
  /\ pc[c] = "commit" => /\ row[local[c].challenge] = c
                         /\ status[local[c].challenge] = "PENDING"
  /\ pc[c] = "deliver" => /\ local[c].token \in AssertionToken
                          /\ assertion[local[c].challenge] = local[c].token
  /\ pc[c] = "consume" => /\ local[c].challenge \in Challenge
                          /\ assertion[local[c].challenge] = local[c].token

\* Two creations insert different rows.
InsertsOK ==
  \A c, d \in Call :
    pc[c] = "insert" /\ pc[d] = "insert" /\ c # d => local[c].challenge # local[d].challenge

IInv == /\ TypeOK /\ SealedWhileUsable /\ InsertsOK
        /\ \A h \in Challenge : RowOK(h)
        /\ \A c \in Call : CallOK(c)

LEMMA TypeStep == IInv /\ [Next]_vars => TypeOK'
<1> SUFFICES ASSUME IInv, TypeOK, [Next]_vars PROVE TypeOK'
  BY DEF IInv
<1> USE DEF columns, history, Goto
<1>0. local \in [Call -> Local] /\ clock \in Time
  BY DEF TypeOK
<1>1. ASSUME NEW c \in Call, Begin(c) PROVE TypeOK'
  <2>1. {"create", "look", "issue", "consume"} \subseteq Operation
        /\ delivered \subseteq AssertionToken
    BY DEF Operation, TypeOK
  <2>2. local' \in [Call -> Local]
    <3> HIDE DEF Challenge, Time
    <3>1. CASE \E op \in {"create", "look"} :
                 local' = [local EXCEPT ![c].op = op, ![c].now = clock]
      <4>1. PICK op \in Operation : local' = [local EXCEPT ![c].op = op, ![c].now = clock]
        BY <2>1, <3>1
      <4>2. [local EXCEPT ![c].op = op, ![c].now = clock] \in [Call -> Local]
        BY <1>0, BeginTyped
      <4> QED
        BY <4>1, <4>2
    <3>2. CASE \E h \in Challenge :
                 local' = [local EXCEPT ![c].op = "issue", ![c].now = clock, ![c].challenge = h]
      <4>1. PICK h \in Challenge :
              local' = [local EXCEPT ![c].op = "issue", ![c].now = clock, ![c].challenge = h]
        BY <3>2
      <4>2. [local EXCEPT ![c].op = "issue", ![c].now = clock, ![c].challenge = h]
              \in [Call -> Local]
        BY <1>0, <2>1, BeginTyped
      <4> QED
        BY <4>1, <4>2
    <3>3. CASE \E t \in delivered :
                 local' = [local EXCEPT ![c].op = "consume", ![c].now = clock, ![c].token = t]
      <4>1. PICK t \in AssertionToken :
              local' = [local EXCEPT ![c].op = "consume", ![c].now = clock, ![c].token = t]
        BY <2>1, <3>3
      <4>2. [local EXCEPT ![c].op = "consume", ![c].now = clock, ![c].token = t]
              \in [Call -> Local]
        BY <1>0, <2>1, BeginTyped
      <4> QED
        BY <4>1, <4>2
    <3> QED
      BY <1>1, <3>1, <3>2, <3>3 DEF Begin
  <2> QED
    BY <1>1, <2>2 DEF Begin, TypeOK
<1>2. ASSUME NEW c \in Call, ExpireScan(c) PROVE TypeOK'
  BY <1>2 DEF ExpireScan, TypeOK
<1>3. ASSUME NEW c \in Call, ExpireCommit(c) PROVE TypeOK'
  <2>1. /\ status' \in [Challenge -> {"none", "CONSUMED", "EXPIRED"} \cup Usable]
        /\ sealed' \in [Challenge -> BOOLEAN]
    BY <1>3 DEF ExpireCommit, TypeOK
  <2>2. local[c].op \in Operation
    BY <1>0 DEF Local
  <2>3. CASE Finish(c)
    BY <1>3, <2>1, <2>3, FinishTyped DEF ExpireCommit, TypeOK
  <2>4. CASE ~Finish(c)
    <3>1. /\ pc' = [pc EXCEPT ![c] = AfterExpiry[local[c].op]]
          /\ local[c].op # "look"
          /\ todo' = [todo EXCEPT ![c] = {}] /\ UNCHANGED <<row, local>>
      BY <1>3, <2>4 DEF ExpireCommit
    <3>2. AfterExpiry[local[c].op] \in {"find", "read", "lookup"}
      BY <2>2, <3>1 DEF AfterExpiry, Operation
    <3> QED
      BY <1>3, <2>1, <3>1, <3>2 DEF ExpireCommit, TypeOK
  <2> QED
    BY <2>3, <2>4
<1>4. ASSUME NEW c \in Call, CreateFind(c) PROVE TypeOK'
  <2>1. CASE Finish(c)
    BY <1>4, <2>1, FinishTyped DEF CreateFind, TypeOK
  <2>2. CASE ~Finish(c)
    <3>1. PICK h \in Unused : local' = [local EXCEPT ![c].challenge = h]
      BY <1>4, <2>2 DEF CreateFind
    <3>2. local' \in [Call -> Local]
      BY <1>0, <3>1, LocalTyped DEF Unused
    <3> QED
      BY <1>4, <2>2, <3>2 DEF CreateFind, TypeOK
  <2> QED
    BY <2>1, <2>2
<1>5. ASSUME NEW c \in Call, CreateCommit(c) PROVE TypeOK'
  <2>1. local[c].now + ChallengeTtl \in Expiry
    BY <1>0 DEF Local
  <2>2. /\ status' \in [Challenge -> {"none", "CONSUMED", "EXPIRED"} \cup Usable]
        /\ expiresAt' \in [Challenge -> Expiry]
    BY <1>5, <2>1 DEF CreateCommit, TypeOK, Usable
  <2> QED
    BY <1>5, <2>2, FinishTyped DEF CreateCommit, TypeOK
<1>6. ASSUME NEW h \in Challenge, AttemptEnds(h) PROVE TypeOK'
  BY <1>6 DEF AttemptEnds, TypeOK
<1>7. ASSUME NEW c \in Call, IssueRead(c) PROVE TypeOK'
  <2>1. CASE Finish(c)
    BY <1>7, <2>1, FinishTyped DEF IssueRead, TypeOK
  <2>2. CASE ~Finish(c)
    <3> DEFINE h == local[c].challenge
    <3>1. local[c].challenge \in Challenge
      BY <1>7 DEF IInv, CallOK, Aimed, IssueRead
    <3>2. /\ assertion[h] \in AssertionToken \cup {NoToken}
          /\ Until(h, local[c].now) \in Expiry
      BY <1>0, <3>1 DEF TypeOK, Local, Until
    <3>3. ASSUME local' = [local EXCEPT ![c].token = assertion[h]]
          PROVE  local' \in [Call -> Local]
      <4> DEFINE p == assertion[h]
      <4>1. p \in AssertionToken \cup {NoToken} /\ local' = [local EXCEPT ![c].token = p]
        BY <3>2, <3>3
      <4> HIDE DEF p, h, Challenge, Time, Expiry
      <4>2. [local EXCEPT ![c].token = p] \in [Call -> Local]
        BY <1>0, <4>1, LocalTyped
      <4> QED
        BY <4>1, <4>2
    <3>4. ASSUME AssertionToken \ InUse # {},
                 local' = [local EXCEPT ![c].token = CHOOSE t \in AssertionToken \ InUse : TRUE,
                                        ![c].until = Until(h, local[c].now)]
          PROVE  local' \in [Call -> Local]
      <4> DEFINE p == CHOOSE t \in AssertionToken \ InUse : TRUE
                 u == Until(h, local[c].now)
      <4>1. p \in AssertionToken \cup {NoToken} /\ u \in Expiry
        BY <3>2, <3>4
      <4>2. local' = [local EXCEPT ![c].token = p, ![c].until = u]
        BY <3>4
      <4> HIDE DEF p, u, Challenge, Time, Expiry
      <4>3. [local EXCEPT ![c].token = p, ![c].until = u] \in [Call -> Local]
        BY <1>0, <4>1, LocalTyped
      <4> QED
        BY <4>2, <4>3
    <3>5. local' \in [Call -> Local]
      BY <1>7, <2>2, <3>3, <3>4 DEF IssueRead
    <3> QED
      BY <1>7, <2>2, <3>5 DEF IssueRead, TypeOK
  <2> QED
    BY <2>1, <2>2
<1>8. ASSUME NEW c \in Call, IssueClaim(c) PROVE TypeOK'
  <2>1. local' \in [Call -> Local]
    <3>1. CASE local' = [local EXCEPT ![c].now = clock, ![c].token = NoToken]
      BY <1>0, <3>1, LocalTyped
    <3> QED
      BY <1>0, <1>8, <3>1 DEF IssueClaim
  <2>2. row' \in [Challenge -> Call \cup {Free}]
    BY <1>8 DEF IssueClaim, TypeOK
  <2>3. pc' = [pc EXCEPT ![c] = "commit"] \/ pc' = [pc EXCEPT ![c] = "scan"]
    BY <1>8 DEF IssueClaim
  <2> QED
    BY <1>8, <2>1, <2>2, <2>3 DEF IssueClaim, TypeOK
<1>9. ASSUME NEW c \in Call, IssueCommit(c) PROVE TypeOK'
  <2>1. local[c].token \in AssertionToken \cup {NoToken} /\ local[c].until \in Expiry
    BY <1>0 DEF Local
  <2>2. /\ status' \in [Challenge -> {"none", "CONSUMED", "EXPIRED"} \cup Usable]
        /\ sealed' \in [Challenge -> BOOLEAN]
        /\ assertionExpiresAt' \in [Challenge -> Expiry \cup {NoTime}]
    BY <1>9, <2>1 DEF IssueCommit, TypeOK, Usable
  <2> QED
    BY <1>9, <2>1, <2>2 DEF IssueCommit, TypeOK
<1>10. ASSUME NEW c \in Call, Deliver(c) PROVE TypeOK'
  <2>1. local[c].token \in AssertionToken
    BY <1>10 DEF IInv, CallOK, Deliver
  <2> QED
    BY <1>10, <2>1, FinishTyped DEF Deliver, TypeOK
<1>11. ASSUME NEW c \in Call, ConsumeRead(c) PROVE TypeOK'
  <2>1. CASE Finish(c)
    BY <1>11, <2>1, FinishTyped DEF ConsumeRead, TypeOK
  <2>2. CASE ~Finish(c)
    <3>1. PICK h \in Presented(c) : local' = [local EXCEPT ![c].challenge = h]
      BY <1>11, <2>2 DEF ConsumeRead
    <3>2. local' \in [Call -> Local]
      BY <1>0, <3>1, LocalTyped DEF Presented
    <3> QED
      BY <1>11, <2>2, <3>2 DEF ConsumeRead, TypeOK
  <2> QED
    BY <2>1, <2>2
<1>12. ASSUME NEW c \in Call, ConsumeUpdate(c) PROVE TypeOK'
  <2>1. /\ status' \in [Challenge -> {"none", "CONSUMED", "EXPIRED"} \cup Usable]
        /\ sealed' \in [Challenge -> BOOLEAN]
    BY <1>12 DEF ConsumeUpdate, Unsealed, TypeOK, Usable
  <2>2. accepted' \in [Challenge -> Nat]
    <3>1. local[c].challenge \in Challenge
      BY <1>12 DEF ConsumeUpdate, IInv, CallOK
    <3>2. \/ accepted' = accepted
          \/ accepted' = [accepted EXCEPT ![local[c].challenge] = @ + 1]
      BY <1>12 DEF ConsumeUpdate
    <3>3. accepted \in [Challenge -> Nat]
      BY DEF TypeOK
    <3> HIDE DEF Challenge
    <3> QED
      BY <3>1, <3>2, <3>3
  <2> QED
    BY <1>12, <2>1, <2>2, FinishTyped DEF ConsumeUpdate, TypeOK
<1>13. ASSUME NEW c \in Call, Abandon(c) PROVE TypeOK'
  BY <1>13, FinishTyped DEF Abandon, TypeOK
<1>14. CASE Tick
  BY <1>14 DEF Tick, TypeOK
<1>15. CASE UNCHANGED vars
  BY <1>15 DEF vars, TypeOK
<1> QED
  BY <1>1, <1>2, <1>3, <1>4, <1>5, <1>6, <1>7, <1>8, <1>9, <1>10, <1>11, <1>12, <1>13,
     <1>14, <1>15 DEF Next, CallStep

LEMMA Base == Init => IInv
<1> SUFFICES ASSUME Init PROVE IInv
  OBVIOUS
<1>1. /\ \A c \in Call : pc[c] = "idle"
      /\ \A h \in Challenge : status[h] = "none" /\ assertion[h] = NoToken /\ sealed[h] = FALSE
  BY DEF Init
<1> QED
  BY <1>1, TypeInit
     DEF IInv, InsertsOK, SealedWhileUsable, RowOK, CallOK, Aimed, Presents, Minted

\* What can happen to a challenge: nothing but the end of its attempt, or one
\* step of its life, by a call that may take it.
Kept(h)     == UNCHANGED <<status[h], assertion[h], sealed[h], assertionExpiresAt[h]>>
Expired(h)  == /\ status[h] \in Usable /\ row[h] = Free
               /\ status'[h] = "EXPIRED" /\ ~sealed'[h]
               /\ UNCHANGED <<assertion[h], assertionExpiresAt[h]>>
Created(h)  == /\ status[h] = "none" /\ status'[h] = "PENDING"
               /\ \E c \in Call : pc[c] = "insert" /\ local[c].challenge = h /\ pc'[c] = "idle"
               /\ UNCHANGED <<assertion[h], sealed[h], assertionExpiresAt[h]>>
Verified(h) == /\ status[h] = "PENDING" /\ status'[h] = "VERIFIED" /\ sealed'[h]
               /\ attempt[h] = "PASSED" /\ assertionExpiresAt'[h] # NoTime
               /\ \E c \in Call : /\ pc[c] = "commit" /\ row[h] = c /\ pc'[c] = "deliver"
                                  /\ local[c].challenge = h /\ assertion'[h] = local[c].token
Consumed(h) == /\ status[h] = "VERIFIED" /\ row[h] = Free
               /\ status'[h] = "CONSUMED" /\ ~sealed'[h]
               /\ UNCHANGED <<assertion[h], assertionExpiresAt[h]>>

Moved(h) == Kept(h) \/ Expired(h) \/ Created(h) \/ Verified(h) \/ Consumed(h)

LEMMA RowEffect ==
  ASSUME IInv, [Next]_vars
  PROVE  \A h \in Challenge : /\ Moved(h)
                              /\ attempt'[h] = attempt[h] \/ attempt[h] # "PASSED"
<1> SUFFICES ASSUME NEW h \in Challenge
             PROVE  Moved(h) /\ (attempt'[h] = attempt[h] \/ attempt[h] # "PASSED")
  OBVIOUS
<1> USE DEF columns, history, Goto
<1>1. ASSUME UNCHANGED columns, UNCHANGED attempt PROVE Moved(h) /\ attempt'[h] = attempt[h]
  BY <1>1 DEF Moved, Kept
<1>2. ASSUME NEW c \in Call,
             Begin(c) \/ ExpireScan(c) \/ CreateFind(c) \/ IssueRead(c) \/ IssueClaim(c)
             \/ Deliver(c) \/ ConsumeRead(c) \/ Abandon(c)
      PROVE  UNCHANGED columns /\ UNCHANGED attempt
  BY <1>2 DEF Begin, ExpireScan, CreateFind, IssueRead, IssueClaim, Deliver, ConsumeRead,
     Abandon
<1>3. ASSUME NEW c \in Call, ExpireCommit(c) PROVE Moved(h) /\ attempt'[h] = attempt[h]
  <2>1. CASE h \in todo[c] /\ Due(h, local[c].now)
    BY <1>3, <2>1 DEF ExpireCommit, Due, Moved, Expired
  <2>2. CASE ~(h \in todo[c] /\ Due(h, local[c].now))
    BY <1>3, <2>2 DEF ExpireCommit, Moved, Kept, IInv, TypeOK
  <2> QED
    BY <2>1, <2>2
<1>4. ASSUME NEW c \in Call, CreateCommit(c) PROVE Moved(h) /\ attempt'[h] = attempt[h]
  <2>1. /\ pc[c] = "insert" /\ pc'[c] = "idle"
        /\ local[c].challenge = h => status[h] = "none"
    BY <1>4 DEF CreateCommit, Finish, IInv, TypeOK, CallOK
  <2>2. CASE local[c].challenge = h
    BY <1>4, <2>1, <2>2 DEF CreateCommit, IInv, TypeOK, Moved, Created
  <2>3. CASE local[c].challenge # h
    BY <1>4, <2>3 DEF CreateCommit, IInv, TypeOK, Moved, Kept
  <2> QED
    BY <1>4, <2>2, <2>3 DEF CreateCommit
<1>5. ASSUME NEW c \in Call, IssueCommit(c) PROVE Moved(h) /\ attempt'[h] = attempt[h]
  <2>1. CASE local[c].challenge = h
    <3>1. /\ status[h] = "PENDING" /\ row[h] = c /\ attempt[h] = "PASSED"
          /\ pc[c] = "commit" /\ pc'[c] = "deliver"
      BY <1>5, <2>1 DEF IssueCommit, IInv, TypeOK, CallOK, Minted
    <3>2. local[c].until # NoTime
      BY DEF IInv, TypeOK, Local
    <3>3. /\ status'[h] = "VERIFIED" /\ sealed'[h] /\ assertion'[h] = local[c].token
          /\ assertionExpiresAt'[h] # NoTime
      BY <1>5, <2>1, <3>2 DEF IssueCommit, IInv, TypeOK
    <3> QED
      BY <1>5, <2>1, <3>1, <3>3 DEF IssueCommit, Moved, Verified
  <2>2. CASE local[c].challenge # h
    BY <1>5, <2>2 DEF IssueCommit, IInv, TypeOK, Moved, Kept
  <2> QED
    BY <2>1, <2>2
<1>6. ASSUME NEW c \in Call, ConsumeUpdate(c) PROVE Moved(h) /\ attempt'[h] = attempt[h]
  <2>1. CASE local[c].challenge = h /\ Consumable(c)
    BY <1>6, <2>1 DEF ConsumeUpdate, Consumable, Unsealed, IInv, TypeOK, Moved, Consumed
  <2>2. CASE ~(local[c].challenge = h /\ Consumable(c))
    BY <1>6, <2>2 DEF ConsumeUpdate, Unsealed, IInv, TypeOK, Moved, Kept
  <2> QED
    BY <2>1, <2>2
<1>7. ASSUME NEW g \in Challenge, AttemptEnds(g)
      PROVE  Moved(h) /\ (attempt'[h] = attempt[h] \/ attempt[h] # "PASSED")
  BY <1>7 DEF AttemptEnds, IInv, TypeOK, Moved, Kept
<1>8. CASE Tick \/ UNCHANGED vars
  BY <1>1, <1>8 DEF Tick, vars
<1> QED
  BY <1>1, <1>2, <1>3, <1>4, <1>5, <1>6, <1>7, <1>8 DEF Next, CallStep

\* The challenges' own part of the invariant.
LEMMA RowStep ==
  ASSUME IInv, [Next]_vars
  PROVE  SealedWhileUsable' /\ \A h \in Challenge : RowOK(h)'
<1> SUFFICES ASSUME NEW h \in Challenge
             PROVE  (sealed'[h] <=> status'[h] = "VERIFIED") /\ RowOK(h)'
  BY DEF SealedWhileUsable
<1>1. /\ sealed[h] <=> status[h] = "VERIFIED"
      /\ RowOK(h)
  BY DEF IInv, SealedWhileUsable
<1>2. /\ Moved(h)
      /\ attempt'[h] = attempt[h] \/ attempt[h] # "PASSED"
  BY RowEffect
<1>3. CASE Kept(h)
  BY <1>1, <1>2, <1>3 DEF Kept, RowOK
<1>4. CASE Expired(h)
  BY <1>1, <1>4 DEF Expired, RowOK
<1>5. CASE Created(h)
  BY <1>1, <1>5 DEF Created, RowOK
<1>6. CASE Verified(h)
  <2>1. PICK c \in Call : pc[c] = "commit" /\ assertion'[h] = local[c].token
    BY <1>6 DEF Verified
  <2>2. assertion'[h] # NoToken
    BY <2>1 DEF IInv, CallOK, Minted, Fresh
  <2> QED
    BY <1>2, <1>6, <2>2 DEF Verified, RowOK
<1>7. CASE Consumed(h)
  BY <1>1, <1>2, <1>7 DEF Consumed, RowOK
<1> QED
  BY <1>2, <1>3, <1>4, <1>5, <1>6, <1>7 DEF Moved

\* A call whose slot is free.
LEMMA IdleOK == ASSUME NEW c \in Call, pc'[c] = "idle" PROVE CallOK(c)'
  BY DEF CallOK, Aimed, Presents, Minted

\* A step of one call leaves the other calls and their locks alone.
LEMMA Apart ==
  ASSUME IInv, NEW c \in Call, Begin(c) \/ CallStep(c) \/ Abandon(c)
  PROVE  \A d \in Call \ {c} : /\ pc'[d] = pc[d] /\ local'[d] = local[d]
                               /\ \A h \in Challenge : row[h] = d => row'[h] = d
<1> SUFFICES ASSUME NEW d \in Call \ {c}
             PROVE  /\ pc'[d] = pc[d] /\ local'[d] = local[d]
                    /\ \A h \in Challenge : row[h] = d => row'[h] = d
  OBVIOUS
<1> USE DEF Goto
<1>1. ASSUME Finish(c)
      PROVE  /\ pc'[d] = pc[d] /\ local'[d] = local[d]
             /\ \A h \in Challenge : row[h] = d => row'[h] = d
  BY <1>1 DEF Finish, IInv, TypeOK
<1>2. CASE Begin(c) \/ ExpireScan(c)
  BY <1>2 DEF Begin, ExpireScan, IInv, TypeOK
<1>3. CASE ExpireCommit(c) \/ CreateFind(c) \/ ConsumeRead(c) \/ IssueRead(c)
  <2> USE DEF IInv, TypeOK
  <2>1. CASE ExpireCommit(c)
    BY <1>1, <2>1 DEF ExpireCommit
  <2>2. CASE CreateFind(c)
    BY <1>1, <2>2 DEF CreateFind
  <2>3. CASE ConsumeRead(c)
    BY <1>1, <2>3 DEF ConsumeRead
  <2>4. CASE IssueRead(c)
    BY <1>1, <2>4 DEF IssueRead
  <2> QED
    BY <1>3, <2>1, <2>2, <2>3, <2>4
<1>4. CASE CreateCommit(c) \/ Deliver(c) \/ ConsumeUpdate(c) \/ Abandon(c)
  BY <1>1, <1>4 DEF CreateCommit, Deliver, ConsumeUpdate, Abandon
<1>5. CASE IssueClaim(c)
  BY <1>5 DEF IssueClaim, IInv, TypeOK
<1>6. CASE IssueCommit(c)
  <2>1. row[local[c].challenge] = c
    BY <1>6 DEF IssueCommit, IInv, CallOK
  <2> QED
    BY <1>6, <2>1 DEF IssueCommit, IInv, TypeOK
<1> QED
  BY <1>2, <1>3, <1>4, <1>5, <1>6 DEF CallStep

\* What becomes of assertions: an answer shows one that is stored, and only
\* IssueRead brings one into play, which nobody knows.
LEMMA TokenEffect ==
  ASSUME IInv, [Next]_vars
  PROVE  /\ \/ delivered' = delivered
            \/ \E c \in Call : pc[c] = "deliver" /\ delivered' = delivered \cup {local[c].token}
         /\ \A c \in Call : Minted(c)' => \/ Minted(c) /\ local'[c].token = local[c].token
                                          \/ local'[c].token \in AssertionToken \ InUse
<1> USE DEF Goto, history
<1>1. ASSUME NEW c \in Call, Begin(c) \/ CallStep(c) \/ Abandon(c)
      PROVE  /\ \/ delivered' = delivered
                \/ pc[c] = "deliver" /\ delivered' = delivered \cup {local[c].token}
             /\ Minted(c)' => \/ Minted(c) /\ local'[c].token = local[c].token
                              \/ local'[c].token \in AssertionToken \ InUse
  <2> USE DEF IInv, TypeOK, Minted
  <2>1. ASSUME Finish(c) PROVE ~Minted(c)'
    BY <2>1 DEF Finish
  <2>2. CASE Begin(c) \/ ExpireScan(c)
    BY <2>2 DEF Begin, ExpireScan
  <2>3. CASE ExpireCommit(c)
    <3>1. local[c].op \in Operation
      BY DEF Local
    <3>2. ~Minted(c)'
      BY <2>1, <2>3, <3>1 DEF ExpireCommit, AfterExpiry, Operation
    <3> QED
      BY <2>3, <3>2 DEF ExpireCommit
  <2>4. CASE CreateFind(c)
    BY <2>1, <2>4 DEF CreateFind
  <2>5. CASE ConsumeRead(c)
    BY <2>1, <2>5 DEF ConsumeRead
  <2>6. CASE IssueRead(c)
    <3>1. CASE pc' = [pc EXCEPT ![c] = "claim"]
      <4>1. /\ AssertionToken \ InUse # {}
            /\ local' = [local EXCEPT ![c].token = CHOOSE t \in AssertionToken \ InUse : TRUE,
                                      ![c].until = Until(local[c].challenge, local[c].now)]
        BY <2>6, <3>1 DEF IssueRead, Finish
      <4> DEFINE p == CHOOSE t \in AssertionToken \ InUse : TRUE
      <4>2. p \in AssertionToken \ InUse
        BY <4>1
      <4>3. local[c] \in Local
        OBVIOUS
      <4>4. local'[c].token = p
        BY <4>1, <4>3 DEF Local
      <4> QED
        BY <2>6, <4>2, <4>4 DEF IssueRead
    <3>2. CASE pc' # [pc EXCEPT ![c] = "claim"]
      BY <2>1, <2>6, <3>2 DEF IssueRead
    <3> QED
      BY <3>1, <3>2
  <2>7. CASE IssueClaim(c) \/ IssueCommit(c)
    BY <2>7 DEF IssueClaim, IssueCommit
  <2>8. CASE CreateCommit(c) \/ ConsumeUpdate(c) \/ Abandon(c) \/ Deliver(c)
    BY <2>1, <2>8 DEF CreateCommit, ConsumeUpdate, Abandon, Deliver
  <2> QED
    BY <1>1, <2>2, <2>3, <2>4, <2>5, <2>6, <2>7, <2>8 DEF CallStep
<1>2. ASSUME (\E h \in Challenge : AttemptEnds(h)) \/ Tick \/ UNCHANGED vars
      PROVE  delivered' = delivered /\ \A c \in Call : Minted(c)' = Minted(c) /\ local' = local
  BY <1>2 DEF AttemptEnds, Tick, vars, Minted
<1>3. ASSUME NEW c \in Call, Begin(c) \/ CallStep(c) \/ Abandon(c),
             NEW d \in Call \ {c}
      PROVE  Minted(d)' = Minted(d) /\ local'[d] = local[d]
  BY <1>3, Apart DEF Minted
<1> QED
  BY <1>1, <1>2, <1>3 DEF Next

\* A call that does not move keeps what it relies on.
LEMMA BystanderOK ==
  ASSUME IInv, [Next]_vars, NEW d \in Call, pc'[d] = pc[d], local'[d] = local[d],
         \A h \in Challenge : row[h] = d => row'[h] = d
  PROVE  CallOK(d)'
<1> HIDE DEF Challenge
<1>1. CallOK(d)
  BY DEF IInv
<1>2. \A h \in Challenge : Moved(h) /\ (attempt'[h] = attempt[h] \/ attempt[h] # "PASSED")
  BY RowEffect
<1>3. delivered \subseteq delivered'
  BY TokenEffect
<1>4. \A h \in Challenge : assertion[h] # NoToken => assertion'[h] = assertion[h]
  BY <1>2 DEF Moved, Kept, Expired, Created, Verified, Consumed, IInv, RowOK
<1>5. pc[d] = "insert" => status'[local[d].challenge] = "none"
  <2> SUFFICES ASSUME pc[d] = "insert" PROVE status'[local[d].challenge] = "none"
    OBVIOUS
  <2>1. /\ local[d].challenge \in Challenge /\ status[local[d].challenge] = "none"
    BY <1>1 DEF CallOK
  <2>2. ~Created(local[d].challenge)
    BY DEF Created, IInv, InsertsOK
  <2> QED
    BY <1>2, <2>1, <2>2 DEF Moved, Kept, Expired, Verified, Consumed, Usable
<1>6. Minted(d) => attempt'[local[d].challenge] = "PASSED" /\ Fresh(d)'
  <2> SUFFICES ASSUME Minted(d) PROVE attempt'[local[d].challenge] = "PASSED" /\ Fresh(d)'
    OBVIOUS
  <2>1. /\ local[d].challenge \in Challenge
        /\ attempt[local[d].challenge] = "PASSED" /\ Fresh(d)
    BY <1>1 DEF CallOK, Aimed, Minted
  <2>2. local[d].token \notin delivered'
    BY <2>1, TokenEffect DEF IInv, CallOK, Aimed, Fresh
  <2>3. \A h \in Challenge : assertion'[h] # local[d].token
    <3> SUFFICES ASSUME NEW h \in Challenge PROVE assertion'[h] # local[d].token
      OBVIOUS
    <3>1. CASE Verified(h)
      <4>1. PICK c \in Call : pc[c] = "commit" /\ pc'[c] = "deliver"
                 /\ assertion'[h] = local[c].token
        BY <3>1 DEF Verified
      <4> QED
        BY <2>1, <4>1 DEF Fresh, Minted
    <3>2. CASE ~Verified(h)
      BY <1>2, <2>1, <3>2 DEF Moved, Kept, Expired, Created, Consumed, Fresh
    <3> QED
      BY <3>1, <3>2
  <2>4. \A e \in Call \ {d} : Minted(e)' => local'[e].token # local[d].token
    BY <2>1, TokenEffect DEF Fresh, InUse
  <2> QED
    BY <1>2, <2>1, <2>2, <2>3, <2>4 DEF Fresh
<1>7. pc[d] = "commit" => /\ row'[local[d].challenge] = d
                          /\ status'[local[d].challenge] = "PENDING"
  <2> SUFFICES ASSUME pc[d] = "commit"
               PROVE  row'[local[d].challenge] = d /\ status'[local[d].challenge] = "PENDING"
    OBVIOUS
  <2> DEFINE h == local[d].challenge
  <2>1. h \in Challenge /\ row[h] = d /\ status[h] = "PENDING"
    BY <1>1 DEF CallOK, Aimed
  <2>2. ~Verified(h)
    BY <2>1 DEF Verified
  <2> QED
    BY <1>2, <2>1, <2>2 DEF Moved, Kept, Expired, Created, Consumed
<1>8. pc[d] = "deliver" => local[d].challenge \in Challenge
  BY <1>1 DEF CallOK, Aimed
<1>9. pc[d] = "consume" => local[d].token \in AssertionToken
  BY <1>1 DEF CallOK, Presents, IInv, TypeOK
<1> QED
  BY <1>1, <1>3, <1>4, <1>5, <1>6, <1>7, <1>8, <1>9 DEF CallOK, Aimed, Presents, Minted

\* The call that moves has what its next step relies on.
LEMMA MoverOK ==
  ASSUME IInv, [Next]_vars, NEW c \in Call, Begin(c) \/ CallStep(c) \/ Abandon(c)
  PROVE  CallOK(c)'
<1> USE DEF Goto, columns, history
<1>1. ASSUME Finish(c) PROVE CallOK(c)'
  BY <1>1, IdleOK DEF Finish, IInv, TypeOK
<1>2. local[c] \in Local /\ c \in DOMAIN pc /\ c \in DOMAIN local
  BY DEF IInv, TypeOK
<1>3. CallOK(c)
  BY DEF IInv
<1>4. CASE Begin(c)
  <2>1. pc'[c] = "scan" /\ delivered' = delivered
    BY <1>2, <1>4 DEF Begin
  <2>2. /\ local'[c].op = "issue" => local'[c].challenge \in Challenge
        /\ local'[c].op = "consume" => local'[c].token \in delivered
    <3>1. ASSUME NEW op \in {"create", "look"},
                 local' = [local EXCEPT ![c].op = op, ![c].now = clock]
          PROVE  local'[c].op = op
      BY <1>2, <3>1 DEF Local
    <3>2. ASSUME NEW h \in Challenge,
                 local' = [local EXCEPT ![c].op = "issue", ![c].now = clock, ![c].challenge = h]
          PROVE  local'[c].op = "issue" /\ local'[c].challenge = h
      BY <1>2, <3>2 DEF Local
    <3>3. ASSUME NEW t \in delivered,
                 local' = [local EXCEPT ![c].op = "consume", ![c].now = clock, ![c].token = t]
          PROVE  local'[c].op = "consume" /\ local'[c].token = t
      BY <1>2, <3>3 DEF Local
    <3> QED
      BY <1>4, <3>1, <3>2, <3>3 DEF Begin
  <2> QED
    BY <2>1, <2>2 DEF CallOK, Aimed, Presents, Minted
<1>5. CASE ExpireScan(c)
  BY <1>2, <1>3, <1>5 DEF ExpireScan, CallOK, Aimed, Presents, Minted
<1>6. CASE ExpireCommit(c)
  <2>1. CASE ~Finish(c)
    <3>1. /\ pc'[c] = AfterExpiry[local[c].op] /\ local[c].op # "look"
          /\ local' = local /\ delivered' = delivered
      BY <1>2, <1>6, <2>1 DEF ExpireCommit
    <3>2. local[c].op \in Operation /\ pc[c] = "expire"
      BY <1>2, <1>6 DEF Local, ExpireCommit
    <3>3. \/ local[c].op = "create" /\ pc'[c] = "find"
          \/ local[c].op = "issue" /\ pc'[c] = "read"
          \/ local[c].op = "consume" /\ pc'[c] = "lookup"
      BY <3>1, <3>2 DEF Operation, AfterExpiry
    <3> QED
      BY <1>3, <3>1, <3>2, <3>3 DEF CallOK, Aimed, Presents, Minted
  <2> QED
    BY <1>1, <2>1
<1>7. CASE CreateFind(c)
  <2>1. CASE ~Finish(c)
    <3>1. PICK h \in Unused : local' = [local EXCEPT ![c].challenge = h]
      BY <1>7, <2>1 DEF CreateFind
    <3>2. /\ pc'[c] = "insert" /\ status' = status
          /\ local'[c].challenge = h /\ h \in Challenge /\ status[h] = "none"
      BY <1>2, <1>7, <2>1, <3>1 DEF CreateFind, Unused, Local
    <3> QED
      BY <3>2 DEF CallOK, Aimed, Presents, Minted
  <2> QED
    BY <1>1, <2>1
<1>8. CASE CreateCommit(c) \/ Deliver(c) \/ ConsumeUpdate(c) \/ Abandon(c)
  BY <1>1, <1>8 DEF CreateCommit, Deliver, ConsumeUpdate, Abandon
<1>9. CASE IssueRead(c)
  <2> DEFINE h == local[c].challenge
  <2>1. h \in Challenge /\ local[c].op = "issue" /\ RowOK(h)
    BY <1>3, <1>9 DEF IssueRead, CallOK, Aimed, IInv
  <2>2. assertion[h] \in AssertionToken \cup {NoToken}
    BY <2>1 DEF IInv, TypeOK
  <2>3. CASE /\ status[h] \in Usable /\ Replayable(h, local[c].now)
             /\ local' = [local EXCEPT ![c].token = assertion[h]]
             /\ Goto(c, "deliver")
    <3>1. assertion[h] \in AssertionToken
      BY <2>1, <2>2, <2>3 DEF Replayable, RowOK
    <3>2. /\ pc'[c] = "deliver" /\ assertion' = assertion
          /\ local'[c].token = assertion[h] /\ local'[c].challenge = h /\ local'[c].op = "issue"
      BY <1>2, <1>9, <2>1, <2>3 DEF IssueRead, Local
    <3> QED
      BY <2>1, <3>1, <3>2 DEF CallOK, Aimed, Presents, Minted
  <2>4. CASE /\ AttemptPassed(h) /\ AssertionToken \ InUse # {}
             /\ local' = [local EXCEPT ![c].token = CHOOSE t \in AssertionToken \ InUse : TRUE,
                                       ![c].until = Until(h, local[c].now)]
             /\ Goto(c, "claim")
    <3> DEFINE p == CHOOSE t \in AssertionToken \ InUse : TRUE
    <3>1. p \in AssertionToken \ InUse
      BY <2>4
    <3> HIDE DEF p
    <3>2. /\ pc'[c] = "claim" /\ attempt' = attempt
          /\ assertion' = assertion /\ delivered' = delivered
          /\ local'[c].challenge = h /\ local'[c].op = "issue" /\ local'[c].token = p
      BY <1>2, <1>9, <2>1, <2>4 DEF IssueRead, Local, p
    <3>3. \A d \in Call \ {c} : Minted(d)' = Minted(d) /\ local'[d] = local[d]
      BY <1>9, Apart DEF CallStep, Minted
    <3>4. Fresh(c)'
      BY <3>1, <3>2, <3>3 DEF Fresh, InUse
    <3> QED
      BY <2>1, <2>4, <3>2, <3>4 DEF CallOK, Aimed, Presents, Minted, AttemptPassed
  <2> QED
    BY <1>1, <1>9, <2>3, <2>4 DEF IssueRead
<1>10. CASE IssueClaim(c)
  <2>1. local[c].challenge \in Challenge /\ local[c].op = "issue"
    BY <1>3, <1>10 DEF IssueClaim, CallOK, Aimed
  <2>2. CASE local' = [local EXCEPT ![c].now = clock, ![c].token = NoToken] /\ Goto(c, "scan")
    <3>1. pc'[c] = "scan" /\ local'[c].op = "issue" /\ local'[c].challenge \in Challenge
      BY <1>2, <2>1, <2>2 DEF Local
    <3> QED
      BY <3>1 DEF CallOK, Aimed, Presents, Minted
  <2>3. CASE /\ Claimable(c) /\ row' = [row EXCEPT ![local[c].challenge] = c]
             /\ Goto(c, "commit") /\ UNCHANGED local
    <3>1. /\ pc'[c] = "commit" /\ row'[local[c].challenge] = c
          /\ status[local[c].challenge] = "PENDING"
      BY <1>2, <2>1, <2>3 DEF Claimable, IInv, TypeOK
    <3>2. UNCHANGED <<attempt, assertion, delivered, status, local>>
      BY <1>10, <2>3 DEF IssueClaim
    <3>3. attempt[local[c].challenge] = "PASSED" /\ Fresh(c)
      BY <1>3, <1>10 DEF IssueClaim, CallOK, Minted
    <3>4. \A d \in Call \ {c} : Minted(d)' = Minted(d)
      BY <1>10, Apart DEF CallStep, Minted
    <3>5. Fresh(c)'
      BY <3>2, <3>3, <3>4 DEF Fresh
    <3> QED
      BY <2>1, <3>1, <3>2, <3>3, <3>5 DEF CallOK, Aimed, Presents, Minted
  <2> QED
    BY <1>10, <2>2, <2>3 DEF IssueClaim
<1>11. CASE IssueCommit(c)
  <2>1. /\ local[c].challenge \in Challenge /\ local[c].op = "issue"
           /\ local[c].token \in AssertionToken
    BY <1>3, <1>11 DEF IssueCommit, CallOK, Aimed, Minted, Fresh
  <2>2. pc'[c] = "deliver" /\ local' = local /\ assertion'[local[c].challenge] = local[c].token
    BY <1>2, <1>11, <2>1 DEF IssueCommit, IInv, TypeOK
  <2> QED
    BY <2>1, <2>2 DEF CallOK, Aimed, Presents, Minted
<1>12. CASE ConsumeRead(c)
  <2>1. CASE ~Finish(c)
    <3>1. PICK h \in Presented(c) : local' = [local EXCEPT ![c].challenge = h]
      BY <1>12, <2>1 DEF ConsumeRead
    <3>2. /\ pc'[c] = "consume" /\ assertion' = assertion /\ delivered' = delivered
          /\ local'[c].challenge = h /\ local'[c].token = local[c].token
          /\ h \in Challenge /\ assertion[h] = local[c].token
      BY <1>2, <1>12, <2>1, <3>1 DEF ConsumeRead, Presented, Local
    <3>3. local[c].token \in delivered
      BY <1>3, <1>12 DEF ConsumeRead, CallOK, Presents
    <3> QED
      BY <3>2, <3>3 DEF CallOK, Aimed, Presents, Minted
  <2> QED
    BY <1>1, <2>1
<1> QED
  BY <1>4, <1>5, <1>6, <1>7, <1>8, <1>9, <1>10, <1>11, <1>12 DEF CallStep

\* Creations under way keep to different rows.
LEMMA InsertsStep == ASSUME IInv, [Next]_vars PROVE InsertsOK'
<1>1. ASSUME NEW c \in Call, Begin(c) \/ CallStep(c) \/ Abandon(c), pc'[c] = "insert"
      PROVE  local'[c].challenge \in Unused
  <2> USE DEF IInv, TypeOK, Goto
  <2>1. ~Finish(c)
    BY <1>1 DEF Finish
  <2>2. ~ExpireCommit(c)
    <3>1. ASSUME ExpireCommit(c) PROVE FALSE
      <4>1. pc'[c] = AfterExpiry[local[c].op] /\ local[c].op \in Operation \ {"look"}
        BY <2>1, <3>1 DEF ExpireCommit, Local
      <4> QED
        BY <1>1, <4>1 DEF AfterExpiry, Operation
    <3> QED
      BY <3>1
  <2>3. CreateFind(c)
    BY <1>1, <2>1, <2>2 DEF Begin, CallStep, ExpireScan, CreateCommit, IssueRead, IssueClaim,
       IssueCommit, Deliver, ConsumeRead, ConsumeUpdate, Abandon
  <2>4. PICK h \in Unused : local' = [local EXCEPT ![c].challenge = h]
    BY <2>1, <2>3 DEF CreateFind
  <2> QED
    BY <2>4 DEF Local
<1>2. ASSUME (\E h \in Challenge : AttemptEnds(h)) \/ Tick \/ UNCHANGED vars
      PROVE  pc' = pc /\ local' = local
  BY <1>2 DEF AttemptEnds, Tick, vars
<1>3. ASSUME NEW c \in Call, Begin(c) \/ CallStep(c) \/ Abandon(c) PROVE InsertsOK'
  <2>1. \A d \in Call \ {c} : pc'[d] = pc[d] /\ local'[d] = local[d]
    BY <1>3, Apart
  <2>2. pc'[c] = "insert" => \A d \in Call \ {c} :
           pc[d] = "insert" => local[d].challenge # local'[c].challenge
    BY <1>1, <1>3 DEF Unused, Reserved
  <2> QED
    BY <2>1, <2>2 DEF IInv, InsertsOK
<1> QED
  BY <1>2, <1>3 DEF Next, IInv, InsertsOK

LEMMA Step == IInv /\ [Next]_vars => IInv'
<1> SUFFICES ASSUME IInv, [Next]_vars PROVE IInv'
  OBVIOUS
<1>1. ASSUME NEW d \in Call PROVE CallOK(d)'
  <2>1. CASE \E c \in Call : Begin(c) \/ CallStep(c) \/ Abandon(c)
    <3>1. PICK c \in Call : Begin(c) \/ CallStep(c) \/ Abandon(c)
      BY <2>1
    <3> HIDE DEF Challenge
    <3> QED
      BY <3>1, Apart, BystanderOK, MoverOK
  <2>2. CASE (\E h \in Challenge : AttemptEnds(h)) \/ Tick \/ UNCHANGED vars
    <3>1. pc' = pc /\ local' = local /\ row' = row
      BY <2>2 DEF AttemptEnds, Tick, vars
    <3> QED
      BY <3>1, BystanderOK
  <2> QED
    BY <2>1, <2>2 DEF Next
<1> QED
  BY <1>1, TypeStep, RowStep, InsertsStep DEF IInv

LEMMA Invariance == Spec => []IInv
  BY Base, Step, PTL DEF Spec
-----------------------------------------------------------------------------
(* Theorems                                                                *)

\* Every variable keeps its type.
THEOREM TypeCorrect == Spec => []TypeOK
<1>1. IInv => TypeOK
  BY DEF IInv
<1> QED
  BY Invariance, <1>1, PTL

\* No consumer is told that a challenge is verified unless its attempt passed.
THEOREM PassBeforeConsumption == Spec => []ConsumedByPass
<1>1. IInv => ConsumedByPass
  BY DEF IInv, RowOK, ConsumedByPass
<1> QED
  BY Invariance, <1>1, PTL

\* The sealed assertion is there while the challenge is verified and no longer.
THEOREM SealedExactlyWhileUsable == Spec => []SealedWhileUsable
<1>1. IInv => SealedWhileUsable
  BY DEF IInv
<1> QED
  BY Invariance, <1>1, PTL

LEMMA StageValues ==
  StageOf["PENDING"] = "open" /\ StageOf["VERIFIED"] = "ready" /\ StageOf["CONSUMED"] = "used"
  BY DEF StageOf

LEMMA StageExcept ==
  ASSUME TypeOK, NEW h \in Challenge, NEW s, status' = [status EXCEPT ![h] = s]
  PROVE  Stage' = [Stage EXCEPT ![h] = StageOf[s]]
<1>1. \A g \in Challenge : status'[g] = IF g = h THEN s ELSE status[g]
  BY DEF TypeOK
<1> HIDE DEF Challenge
<1>2. Stage' = [g \in Challenge |-> IF g = h THEN StageOf[s] ELSE StageOf[status[g]]]
  BY <1>1 DEF Stage, StageOf
<1>3. [Stage EXCEPT ![h] = StageOf[s]]
        = [g \in Challenge |-> IF g = h THEN StageOf[s] ELSE StageOf[status[g]]]
  BY DEF Stage
<1> QED
  BY <1>2, <1>3

\* Rows and answers implement single-use tickets: every step of every call is a
\* step of one ticket, the death of some, or none.
THEOREM Refinement == Spec => ImplementsTickets
<1>1. Init => Tickets!TicketInit
  BY DEF Init, Tickets!TicketInit, Stage, StageOf
<1>2. IInv /\ [Next]_vars => [Tickets!TicketNext]_(Tickets!tickets)
  <2> SUFFICES ASSUME IInv, [Next]_vars PROVE [Tickets!TicketNext]_(Tickets!tickets)
    OBVIOUS
  <2> USE DEF columns, history
  <2>1. ASSUME UNCHANGED <<status, assertion, delivered, accepted>>
        PROVE  UNCHANGED Tickets!tickets
    BY <2>1 DEF Stage, Tickets!tickets
  <2>2. ASSUME NEW c \in Call, ExpireCommit(c)
        PROVE  Tickets!Die({h \in todo[c] : Due(h, local[c].now)})
    <3> DEFINE dead == {h \in todo[c] : Due(h, local[c].now)}
    <3>1. /\ dead \subseteq Challenge /\ \A h \in dead : status[h] \in Usable
          /\ \A h \in Challenge : status'[h] = IF h \in dead THEN "EXPIRED" ELSE status[h]
          /\ UNCHANGED <<assertion, delivered, accepted>>
      BY <2>2 DEF ExpireCommit, Due, IInv, TypeOK
    <3> HIDE DEF dead, Challenge
    <3>2. \A h \in dead : Stage[h] \in {"open", "ready"}
      BY <3>1 DEF Stage, StageOf, Usable
    <3>3. Stage' = [h \in Challenge |-> IF h \in dead THEN "dead" ELSE Stage[h]]
      BY <3>1 DEF Stage, StageOf
    <3>4. Tickets!Die(dead)
      BY <3>1, <3>2, <3>3 DEF Tickets!Die
    <3> QED
      BY <3>4 DEF dead
  <2>3. ASSUME NEW c \in Call, CreateCommit(c)
        PROVE  \E h \in Challenge : Tickets!Enter(h)
    <3> DEFINE h == local[c].challenge
    <3>1. /\ h \in Challenge /\ status[h] = "none"
          /\ UNCHANGED <<assertion, delivered, accepted>>
      BY <2>3 DEF CreateCommit, IInv, CallOK
    <3>2. status' = [status EXCEPT ![h] = "PENDING"]
      BY <2>3 DEF CreateCommit
    <3> HIDE DEF h, Challenge
    <3>3. Stage[h] = "none" /\ Stage' = [Stage EXCEPT ![h] = "open"]
      <4>1. Stage[h] = "none"
        BY <3>1, <3>2 DEF Stage, StageOf
      <4>2. Stage' = [Stage EXCEPT ![h] = StageOf["PENDING"]]
        BY <3>1, <3>2, StageExcept DEF IInv
      <4> QED
        BY <4>1, <4>2, StageValues
    <3> QED
      BY <3>1, <3>3 DEF Tickets!Enter
  <2>4. ASSUME NEW c \in Call, IssueCommit(c)
        PROVE  \E h \in Challenge : \E p \in AssertionToken : Tickets!Ready(h, p)
    <3> DEFINE h == local[c].challenge  p == local[c].token
    <3>1. /\ h \in Challenge /\ status[h] = "PENDING"
          /\ p \in AssertionToken /\ p \notin delivered /\ \A g \in Challenge : assertion[g] # p
      BY <2>4 DEF IssueCommit, IInv, CallOK, Aimed, Minted, Fresh
    <3>2. /\ status' = [status EXCEPT ![h] = "VERIFIED"]
          /\ assertion' = [assertion EXCEPT ![h] = p] /\ UNCHANGED <<delivered, accepted>>
      BY <2>4 DEF IssueCommit
    <3> HIDE DEF h, p, Challenge
    <3>3. Stage[h] = "open" /\ Stage' = [Stage EXCEPT ![h] = "ready"]
      <4>1. Stage[h] = "open"
        BY <3>1, <3>2 DEF Stage, StageOf
      <4>2. Stage' = [Stage EXCEPT ![h] = StageOf["VERIFIED"]]
        BY <3>1, <3>2, StageExcept DEF IInv
      <4> QED
        BY <4>1, <4>2, StageValues
    <3> QED
      BY <3>1, <3>2, <3>3 DEF Tickets!Ready
  <2>5. ASSUME NEW c \in Call, Deliver(c)
        PROVE  \E h \in Challenge : Tickets!Show(h)
    <3> DEFINE h == local[c].challenge
    <3>1. h \in Challenge /\ assertion[h] = local[c].token /\ assertion[h] # NoToken
      BY <2>5 DEF Deliver, IInv, CallOK, Aimed
    <3>2. status[h] \in {"VERIFIED", "CONSUMED", "EXPIRED"}
      BY <3>1 DEF IInv, RowOK, TypeOK, Usable
    <3>3. delivered' = delivered \cup {assertion[h]}
          /\ UNCHANGED <<status, assertion, accepted>>
      BY <2>5, <3>1 DEF Deliver
    <3> HIDE DEF h, Challenge
    <3>4. Stage[h] \in {"ready", "used", "dead"} /\ Stage' = Stage
      BY <3>1, <3>2, <3>3 DEF Stage, StageOf
    <3> QED
      BY <3>1, <3>3, <3>4 DEF Tickets!Show
  <2>6. ASSUME NEW c \in Call, ConsumeUpdate(c)
        PROVE  UNCHANGED Tickets!tickets \/ \E h \in Challenge : Tickets!Use(h)
    <3> DEFINE h == local[c].challenge
    <3>1. h \in Challenge /\ assertion[h] \in delivered
      BY <2>6 DEF ConsumeUpdate, IInv, CallOK, Presents
    <3>2. CASE Consumable(c)
      <4>1. /\ status[h] = "VERIFIED"
            /\ status' = [status EXCEPT ![h] = "CONSUMED"]
            /\ accepted' = [accepted EXCEPT ![h] = @ + 1] /\ UNCHANGED <<assertion, delivered>>
        BY <2>6, <3>2 DEF ConsumeUpdate, Consumable
      <4> HIDE DEF h, Challenge
      <4>2. Stage[h] = "ready" /\ Stage' = [Stage EXCEPT ![h] = "used"]
        <5>1. Stage[h] = "ready"
          BY <3>1, <4>1 DEF Stage, StageOf
        <5>2. Stage' = [Stage EXCEPT ![h] = StageOf["CONSUMED"]]
          BY <3>1, <4>1, StageExcept DEF IInv
        <5> QED
          BY <5>1, <5>2, StageValues
      <4> QED
        BY <3>1, <4>1, <4>2 DEF Tickets!Use
    <3>3. CASE ~Consumable(c)
      BY <2>1, <2>6, <3>3 DEF ConsumeUpdate
    <3> QED
      BY <3>2, <3>3
  <2>7. ASSUME NEW c \in Call,
               Begin(c) \/ ExpireScan(c) \/ CreateFind(c) \/ IssueRead(c) \/ IssueClaim(c)
               \/ ConsumeRead(c) \/ Abandon(c)
        PROVE  UNCHANGED Tickets!tickets
    BY <2>1, <2>7 DEF Begin, ExpireScan, CreateFind, IssueRead, IssueClaim, ConsumeRead, Abandon
  <2>8. CASE (\E h \in Challenge : AttemptEnds(h)) \/ Tick \/ UNCHANGED vars
    BY <2>1, <2>8 DEF AttemptEnds, Tick, vars
  <2>9. ASSUME NEW c \in Call, ExpireCommit(c)
        PROVE  {h \in todo[c] : Due(h, local[c].now)} \in SUBSET Challenge
    BY DEF IInv, TypeOK
  <2> HIDE DEF Challenge
  <2> QED
    BY <2>2, <2>3, <2>4, <2>5, <2>6, <2>7, <2>8, <2>9 DEF Next, CallStep, Tickets!TicketNext
<1> QED
  BY Invariance, <1>1, <1>2, PTL DEF Spec, ImplementsTickets, Tickets!TicketSpec

HIDE DEF SlotAssumption, LimitAssumption, Challenge, Time, Expiry

-----------------------------------------------------------------------------
(* The composition: a behaviour of the flows is one of every component     *)

LEMMA Untouched ==
  /\ UNCHANGED registrationVars => UNCHANGED R!vars
  /\ UNCHANGED emailVars => UNCHANGED E!vars
  /\ UNCHANGED stepUpVars => UNCHANGED vars
  /\ UNCHANGED rotationVars => UNCHANGED T!vars
  /\ UNCHANGED upgradeVars => UNCHANGED U!vars
  /\ UNCHANGED passkeyVars => UNCHANGED P!vars /\ UNCHANGED C!vars
<1>1. UNCHANGED registrationVars => UNCHANGED R!vars
  BY DEF registrationVars, R!vars, R!rowVars, R!lookupVars
<1>2. UNCHANGED emailVars => UNCHANGED E!vars
  BY DEF emailVars, E!vars, E!rowVars, E!localVars
<1>3. UNCHANGED stepUpVars => UNCHANGED vars
  BY DEF stepUpVars
<1>4. UNCHANGED rotationVars => UNCHANGED T!vars
  BY DEF rotationVars, T!vars, T!tokenVars, T!rowVars, T!callVars
<1>5. UNCHANGED upgradeVars => UNCHANGED U!vars
  BY DEF upgradeVars, U!vars, U!rowVars, U!localVars
<1>6. UNCHANGED passkeyVars => UNCHANGED P!vars /\ UNCHANGED C!vars
  BY DEF passkeyVars, P!vars, P!rows, C!vars, C!rows
<1> QED
  BY <1>1, <1>2, <1>3, <1>4, <1>5, <1>6

\* The steps of a flow are steps of its component.
LEMMA FlowSteps ==
  ASSUME FlowNext
  PROVE  \/ InRegistration /\ R!Next
         \/ InEmail /\ E!Next
         \/ InStepUp /\ Next
         \/ InRotation /\ T!Next
         \/ InUpgrade /\ U!Next
         \/ InPasskeys /\ P!Next
         \/ InCodes /\ C!Next
<1>1. Asked(R!Body) \subseteq Key \X R!Body /\ Asked(Content) \subseteq Key \X Content
  BY DEF Asked
<1>2. ASSUME NEW c \in Call, NEW ask \in Asked(R!Body), R!Register(c, ask[1], ask[2])
      PROVE  R!Next
  BY <1>1, <1>2 DEF R!Next
<1>3. ASSUME NEW c \in Call, NEW ask \in Asked(Content), U!Upgrade(c, ask[1], ask[2])
      PROVE  U!Next
  BY <1>1, <1>3 DEF U!Next
<1>4. ASSUME NEW c \in Call PROVE c \in T!Actor
  BY DEF T!Actor
<1> QED
  BY <1>2, <1>3, <1>4 DEF FlowNext, R!Next, E!Next, Next, T!Next, U!Next, P!Next, C!Next

LEMMA EachFlow ==
  ASSUME [FlowNext]_flowVars
  PROVE  /\ [R!Next]_(R!vars) /\ [E!Next]_(E!vars) /\ [Next]_vars /\ [T!Next]_(T!vars)
         /\ [U!Next]_(U!vars)
         /\ scenario' = scenario
         /\ scenario = "codes" => [C!Next]_(C!vars)
         /\ scenario # "codes" => [P!Next]_(P!vars)
<1>1. ASSUME InRegistration, R!Next
      PROVE  /\ R!Next /\ scenario' = scenario /\ UNCHANGED E!vars /\ UNCHANGED vars
             /\ UNCHANGED T!vars /\ UNCHANGED U!vars /\ UNCHANGED P!vars /\ UNCHANGED C!vars
  BY <1>1, Untouched DEF InRegistration
<1>2. ASSUME InEmail, E!Next
      PROVE  /\ E!Next /\ scenario' = scenario /\ UNCHANGED R!vars /\ UNCHANGED vars
             /\ UNCHANGED T!vars /\ UNCHANGED U!vars /\ UNCHANGED P!vars /\ UNCHANGED C!vars
  BY <1>2, Untouched DEF InEmail
<1>3. ASSUME InStepUp, Next
      PROVE  /\ Next /\ scenario' = scenario /\ UNCHANGED R!vars /\ UNCHANGED E!vars
             /\ UNCHANGED T!vars /\ UNCHANGED U!vars /\ UNCHANGED P!vars /\ UNCHANGED C!vars
  BY <1>3, Untouched DEF InStepUp
<1>4. ASSUME InRotation, T!Next
      PROVE  /\ T!Next /\ scenario' = scenario /\ UNCHANGED R!vars /\ UNCHANGED E!vars
             /\ UNCHANGED vars /\ UNCHANGED U!vars /\ UNCHANGED P!vars /\ UNCHANGED C!vars
  BY <1>4, Untouched DEF InRotation
<1>5. ASSUME InUpgrade, U!Next
      PROVE  /\ U!Next /\ scenario' = scenario /\ UNCHANGED R!vars /\ UNCHANGED E!vars
             /\ UNCHANGED vars /\ UNCHANGED T!vars /\ UNCHANGED P!vars /\ UNCHANGED C!vars
  BY <1>5, Untouched DEF InUpgrade
<1>6. ASSUME InPasskeys, P!Next
      PROVE  /\ P!Next /\ scenario # "codes" /\ scenario' = scenario /\ UNCHANGED R!vars
             /\ UNCHANGED E!vars /\ UNCHANGED vars /\ UNCHANGED T!vars /\ UNCHANGED U!vars
  BY <1>6, Untouched DEF InPasskeys
<1>7. ASSUME InCodes, C!Next
      PROVE  /\ C!Next /\ scenario = "codes" /\ scenario' = scenario /\ UNCHANGED R!vars
             /\ UNCHANGED E!vars /\ UNCHANGED vars /\ UNCHANGED T!vars /\ UNCHANGED U!vars
  BY <1>7, Untouched DEF InCodes
<1>8. ASSUME UNCHANGED flowVars
      PROVE  /\ scenario' = scenario /\ UNCHANGED R!vars /\ UNCHANGED E!vars /\ UNCHANGED vars
             /\ UNCHANGED T!vars /\ UNCHANGED U!vars /\ UNCHANGED P!vars /\ UNCHANGED C!vars
  BY <1>8, Untouched DEF flowVars
<1> QED
  BY <1>1, <1>2, <1>3, <1>4, <1>5, <1>6, <1>7, <1>8, FlowSteps

\* A behaviour of the flows is one of every component.
THEOREM Composition ==
  FlowSpec => /\ R!Spec /\ E!Spec /\ Spec /\ T!Spec /\ U!Spec
              /\ \/ [](scenario = "codes") /\ C!Spec
                 \/ [](scenario # "codes") /\ P!Spec
<1>1. FlowInit => /\ R!Init /\ E!Init /\ Init /\ T!Init /\ U!Init
                  /\ scenario = "codes" => C!Init
                  /\ scenario # "codes" => P!Init
  BY DEF FlowInit
<1>2. [FlowNext]_flowVars =>
        /\ [R!Next]_(R!vars) /\ [E!Next]_(E!vars) /\ [Next]_vars /\ [T!Next]_(T!vars)
        /\ [U!Next]_(U!vars)
        /\ scenario = "codes" => [C!Next]_(C!vars) /\ (scenario = "codes")'
        /\ scenario # "codes" => [P!Next]_(P!vars) /\ (scenario # "codes")'
  BY EachFlow
<1>3. scenario = "codes" <=> ~(scenario # "codes")
  OBVIOUS
<1> QED
  BY <1>1, <1>2, <1>3, PTL
  DEF FlowSpec, R!Spec, E!Spec, Spec, T!Spec, U!Spec, C!Spec, P!Spec

-----------------------------------------------------------------------------
(* What the flows promise together                                         *)

\* Type correctness of every flow, with its row locks and the places its calls are at.
THEOREM FlowTypes == FlowSpec => []TypesHold
<1>1. R!Spec => []R!TypeOK
  BY R!TypeCorrect, FlowAssumption
<1>2. E!Spec => []E!TypeOK
  <2>1. EmailInv => E!TypeOK
    BY DEF EmailInv
  <2> QED
    BY <2>1, EmailInvariance, FlowAssumption, PTL
<1>3. U!Spec => []U!TypeOK
  <2>1. UpgradeInv => U!TypeOK
    BY DEF UpgradeInv
  <2> QED
    BY <2>1, UpgradeInvariance, FlowAssumption, PTL
<1>4. T!Spec => []T!TypeOK
  BY T!TypeCorrect, FlowAssumption
<1>5. P!Spec => []P!TypeOK
  BY P!TypeCorrect, FlowAssumption
<1>6. C!BoundAssumption
  BY FlowAssumption DEF P!BoundAssumption, C!BoundAssumption
<1>7. C!Spec => []C!TypeOK
  BY C!TypeCorrect, <1>6
<1>8. /\ R!TypeOK /\ E!TypeOK /\ TypeOK /\ T!TypeOK /\ U!TypeOK
      /\ \/ scenario # "codes" /\ P!TypeOK
         \/ scenario = "codes" /\ C!TypeOK
      => TypesHold
  BY DEF TypesHold
<1> QED
  BY Composition, <1>1, <1>2, <1>3, <1>4, <1>5, <1>7, TypeCorrect, <1>8, PTL

\* In every flow what may be spent once is spent once, whatever runs at once.
THEOREM FlowsSpendOnce == FlowSpec => []SpentOnce
<1>1. R!Spec => []R!ChallengeSpentOnce /\ []R!AccountsDistinct
  BY R!SpentOnOne, R!Distinct, FlowAssumption
<1>2. E!Spec => [](E!ActivatedOnce /\ E!ConsumedOrSuperseded)
  <2>1. EmailInv => E!ActivatedOnce /\ E!ConsumedOrSuperseded
    BY EmailActivatedOnce DEF EmailInv, TokensOK, E!ConsumedOrSuperseded
  <2> QED
    BY <2>1, EmailInvariance, FlowAssumption, PTL
<1>3. U!Spec => [](U!OneExchange /\ U!LimitedIsBarren)
  <2>1. UpgradeInv => U!OneExchange /\ U!LimitedIsBarren
    BY UpgradeOneExchange DEF UpgradeInv, LimitedOK, U!LimitedIsBarren
  <2> QED
    BY <2>1, UpgradeInvariance, FlowAssumption, PTL
<1>4. P!Spec => []P!OneSessionPerFlow
  BY P!FlowMakesOne, FlowAssumption
<1>5. C!BoundAssumption
  BY FlowAssumption DEF P!BoundAssumption, C!BoundAssumption
<1>6. C!Spec => []C!CodeOpensOnce
  BY C!CodesOpenOnce, <1>5
<1>7. /\ R!ChallengeSpentOnce /\ R!AccountsDistinct /\ ConsumedByPass /\ SealedWhileUsable
      /\ E!ActivatedOnce /\ E!ConsumedOrSuperseded /\ U!OneExchange /\ U!LimitedIsBarren
      /\ \/ scenario # "codes" /\ P!OneSessionPerFlow
         \/ scenario = "codes" /\ C!CodeOpensOnce
      => SpentOnce
  BY DEF SpentOnce
<1> QED
  BY Composition, <1>1, <1>2, <1>3, <1>4, <1>6, PassBeforeConsumption,
     SealedExactlyWhileUsable, <1>7, PTL

\* Answers, first or replayed, are those of the request they answer.
THEOREM FlowsAnswerTruly == FlowSpec => AnswersHold
<1>1. R!Spec => []R!AnswersOwnAccount
  BY R!AnswersOwn, FlowAssumption
<1>2. U!Spec => []U!AnswersOwnRequest
  BY UpgradeAnswers, UpgradeInvariance, FlowAssumption, PTL
<1>3. U!Spec => U!NoDeadAnswer
  <2>1. UpgradeInv /\ [U!Next]_(U!vars) =>
          [\A c \in Call : uAnswer'[c] # uAnswer[c] /\ uAnswer'[c] # None
             => uAnswer'[c] \notin gone[c]]_(U!vars)
    BY UpgradeNoDeadAnswer, FlowAssumption
  <2> QED
    BY <2>1, UpgradeInvariance, FlowAssumption, PTL DEF U!Spec, U!NoDeadAnswer
<1> QED
  BY Composition, <1>1, <1>2, <1>3, PTL DEF AnswersHold

\* The two instances of the passkeys say the same of passkeys.
THEOREM FlowsKeepPasskeys == FlowSpec => PasskeysHold
<1>1. P!Spec => P!PasskeysHold
  BY P!PasskeysKept, FlowAssumption
<1>2. C!BoundAssumption
  BY FlowAssumption DEF P!BoundAssumption, C!BoundAssumption
<1>3. C!Spec => C!PasskeysHold
  BY C!PasskeysKept, <1>2
<1>4. C!PasskeysHold => P!PasskeysHold
  BY DEF C!PasskeysHold, P!PasskeysHold, C!NoSessionAfterRevoke, P!NoSessionAfterRevoke,
         C!OnlyRacesLowerCounter, P!OnlyRacesLowerCounter, C!Presented, P!Presented,
         C!Stored, P!Stored, C!Revoked, P!Revoked, C!vars, P!vars, C!rows, P!rows
<1> QED
  BY Composition, <1>1, <1>3, <1>4, PTL DEF PasskeysHold

\* Registration implements the ledger beside the other flows.
THEOREM FlowsKeepLedger == FlowSpec => ImplementsLedger
<1>1. R!Spec => R!ImplementsLedger
  BY R!LedgerRefinement, FlowAssumption
<1> QED
  BY Composition, <1>1, PTL DEF ImplementsLedger

\* Step-up challenges stay single-use tickets beside the other flows.
THEOREM FlowsKeepTickets == FlowSpec => ImplementsTickets
  BY Composition, Refinement, PTL

\* Without recovery codes to make, nobody rotates them.
NoRotation ==
  /\ code \in [OldCode -> {"live", "used", "revoked"}]
  /\ \A c \in Call : pPc[c] # "rotate"

LEMMA NobodyRotates == P!Spec => []NoRotation
<1>1. P!Init => NoRotation
  BY DEF P!Init, NoRotation
<1>2. ASSUME P!TypeOK, NoRotation, [P!Next]_(P!vars) PROVE NoRotation'
  <2>1. P!Unmade = {} /\ P!Cardinality(P!Unmade) = 0
    <3>1. P!Unmade = {}
      BY <1>2 DEF NoRotation, P!Unmade
    <3> QED
      BY <3>1, FS_EmptySet DEF P!Cardinality, Cardinality
  <2>2. ASSUME NEW c \in Call PROVE ~P!RotateRecoveryCodes(c) /\ ~P!CommitRotation(c)
    <3>1. {d \in Call : pPc[d] = "rotate"} = {}
      BY <1>2 DEF NoRotation
    <3>2. P!Cardinality({d \in Call : pPc[d] = "rotate"}) = 0
      BY <3>1, FS_EmptySet DEF P!Cardinality, Cardinality
    <3>3. ~P!RotateRecoveryCodes(c)
      BY <2>1, <3>2 DEF P!RotateRecoveryCodes
    <3> QED
      BY <3>3, <1>2 DEF P!CommitRotation, NoRotation
  <2>3. pPc \in [Call -> {"idle", "take", "read", "verify", "store", "takeChallenge", "create",
                          "rotate"}]
    BY <1>2 DEF P!TypeOK
  <2>4. ASSUME NEW c \in Call, P!CallStep(c) PROVE NoRotation'
    <3>1. code' = code
      BY <2>2, <2>4 DEF P!CallStep, P!VerifyAuthentication, P!TakeFlow, P!ReadCredential,
           P!Verify, P!StoreSession, P!VerifyRegistration, P!TakeChallenge,
           P!CreateCredential, P!Fail, P!Refuse
    <3>2. \E label \in {"idle", "take", "read", "verify", "store", "takeChallenge", "create"} :
            P!Goto(c, label)
      BY <2>2, <2>4 DEF P!CallStep, P!VerifyAuthentication, P!TakeFlow, P!ReadCredential,
           P!Verify, P!StoreSession, P!VerifyRegistration, P!TakeChallenge,
           P!CreateCredential, P!Fail, P!Refuse, P!Finish
    <3> QED
      BY <1>2, <2>3, <3>1, <3>2 DEF P!Goto, NoRotation
  <2>5. ASSUME NEW r \in OldCode, P!ConsumeRecoveryCode(r) PROVE NoRotation'
    BY <1>2, <2>5 DEF P!ConsumeRecoveryCode, NoRotation
  <2>6. ASSUME NEW f \in Flow,
               \/ P!AuthenticationOptions(f) \/ P!ExpireFlow(f)
               \/ \E k \in Credential : P!Sign(f, k)
        PROVE  NoRotation'
    BY <1>2, <2>6 DEF P!AuthenticationOptions, P!ExpireFlow, P!Sign, NoRotation
  <2>7. ASSUME NEW k \in Credential, P!RegistrationOptions(k) \/ P!RevokeCredential(k)
        PROVE  NoRotation'
    BY <1>2, <2>7 DEF P!RegistrationOptions, P!RevokeCredential, NoRotation
  <2>8. CASE UNCHANGED P!vars
    BY <1>2, <2>8 DEF P!vars, NoRotation
  <2> QED
    BY <1>2, <2>4, <2>5, <2>6, <2>7, <2>8 DEF P!Next
<1>3. P!Spec => []P!TypeOK
  BY P!TypeCorrect, FlowAssumption
<1> QED
  BY <1>1, <1>2, <1>3, PTL DEF P!Spec

\* A resend ends the tokens it found and a rotation the codes it found.
THEOREM FlowsEndOlder == FlowSpec => OlderEnd
<1>1. E!Spec => E!OlderTokensEnd
  <2>1. EmailInv /\ [E!Next]_(E!vars) =>
          [\A c \in Call :
             ePc[c] = "create" /\ ~tokens[target[c]].made /\ tokens'[target[c]].made
               => \A t \in older[c] : tokens'[t].used \/ tokens'[t].superseded]_(E!vars)
    BY EmailOlderEnd, FlowAssumption
  <2> QED
    BY <2>1, EmailInvariance, FlowAssumption, PTL DEF E!Spec, E!OlderTokensEnd
<1>2. C!BoundAssumption
  BY FlowAssumption DEF P!BoundAssumption, C!BoundAssumption
<1>3. C!Spec => C!OlderCodesEnd
  BY C!RotationEndsOlder, <1>2
<1>4. NoRotation =>
        [\A c \in Call : pPc[c] = "rotate" /\ C!Unmade' # C!Unmade /\ pPc'[c] = "idle"
           => olderCodes[c] \cap C!Live' = {}]_(C!vars)
  BY DEF NoRotation
<1>5. P!Spec => C!OlderCodesEnd
  BY <1>4, NobodyRotates, PTL DEF C!OlderCodesEnd
<1> QED
  BY Composition, <1>1, <1>3, <1>5, PTL DEF OlderEnd
=============================================================================
