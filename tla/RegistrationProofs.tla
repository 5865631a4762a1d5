-------------------------- MODULE RegistrationProofs --------------------------
(***************************************************************************)
(* Theorems about Registration, for any number of calls, lookups, keys and *)
(* challenges: accounts are distinct, a challenge is spent on one of them, *)
(* answers name the account of their request, and the ledger is            *)
(* implemented.                                                            *)
(***************************************************************************)
EXTENDS Registration, TLAPS

\* The steps at which a transaction owns the row of its challenge, that of its address.
HasChallenge == {"readOwners", "insertUser", "insertIdentity", "commit"}
HasEmail     == {"insertIdentity", "commit"}

Row == [status : {"none", "PENDING", "CONSUMED"}, nid : Nid \cup {None},
        email : Email \cup {None}, expiresAt : Instant, attempts : Nat]
Asking == [key : Key, content : Body]

\* What a call checked still holds while it owns the rows it checked.
RequestOK(p) ==
  /\ pc[p] # "idle" => call[p] \in Asking /\ call[p].content.challenge \in Issued
  /\ pc[p] \notin {"idle", "readChallenge"} => Asked(p).email = call[p].content.email
  /\ pc[p] \in HasChallenge =>
       challengeRow[call[p].content.challenge] = p /\ Asked(p).status = "PENDING"
  /\ pc[p] \in HasEmail =>
       /\ emailRow[call[p].content.email] = p
       /\ \A a \in accounts : a.email # call[p].content.email
  /\ pc[p] = "commit" =>
       nidRow[Asked(p).nid] = p /\ \A a \in accounts : a.nid # Asked(p).nid

RequestsOK == \A p \in Request : RequestOK(p)

\* An issued challenge has an identity and an address; a lookup that read has both.
ChallengesOK ==
  /\ \A c \in Issued : challenge[c].nid \in Nid /\ challenge[c].email \in Email
  /\ \A l \in Lookup : looking[l] # "idle" =>
       subject[l] \in [nid : Nid, email : Email, expiresAt : Instant]

\* A completed record names the account of its content.
RecordsOK ==
  \A k \in Key : record[k] # None =>
    /\ record[k].account \in accounts
    /\ record[k].account.challenge = record[k].content.challenge
    /\ record[k].account.email = record[k].content.email

IInv ==
  /\ TypeOK /\ RequestsOK /\ ChallengesOK /\ RecordsOK
  /\ AccountsDistinct /\ ChallengeSpentOnce /\ AnswersOwnAccount

LEMMA Types ==
  ASSUME TypeOK
  PROVE  /\ challenge \in [Challenge -> Row] /\ accounts \subseteq Account
         /\ record \in [Key -> {None} \cup [content : Body, account : Account]]
         /\ challengeRow \in [Challenge -> Request \cup {Free}]
         /\ emailRow \in [Email -> Request \cup {Free}]
         /\ nidRow \in [Nid -> Request \cup {Free}]
         /\ keyRow \in [Key -> Request \cup {Free}]
         /\ pc \in [Request -> {"idle", "readChallenge", "hash"} \cup InTx]
         /\ call \in [Request -> {None} \cup Asking]
         /\ answer \in [Request -> Account \cup {None}] /\ now \in [Request -> Time]
  BY DEF TypeOK, Row, Asking

LEMMA InvInit == ASSUME RowAssumption, RegistrationBounds, Init PROVE IInv
<1>1. Issued = {}
  BY DEF Init, Issued, Unopened, Unissued
<1>2. TypeOK
  <2>1. Unissued \in Row
    BY DEF Unissued, Row, Instant, RegistrationBounds
  <2>2. challenge \in [Challenge -> Row]
    BY <2>1 DEF Init
  <2>3. clock \in Time /\ now \in [Request -> Time]
    BY DEF Init, Time, RegistrationBounds
  <2> QED
    BY <2>2, <2>3 DEF Init, TypeOK, Row
<1>3. RequestsOK /\ RecordsOK
  BY DEF Init, RequestsOK, RequestOK, HasChallenge, HasEmail, RecordsOK
<1>4. ChallengesOK
  BY <1>1 DEF Init, ChallengesOK
<1>5. AccountsDistinct /\ ChallengeSpentOnce /\ AnswersOwnAccount
  BY DEF Init, Unissued, AccountsDistinct, ChallengeSpentOnce, AnswersOwnAccount
<1> QED
  BY <1>2, <1>3, <1>4, <1>5 DEF IInv

-------------------------------------------------------------------------------
(* What a step leaves alone                                                *)

\* A step of p takes no row that another call owns.
RowsKept(p) ==
  /\ \A q \in Request \ {p} :
       /\ \A c \in Challenge : challengeRow[c] = q => challengeRow'[c] = q
       /\ \A e \in Email : emailRow[e] = q => emailRow'[e] = q
       /\ \A n \in Nid : nidRow[n] = q => nidRow'[n] = q
       /\ pc'[q] = pc[q] /\ call'[q] = call[q] /\ answer'[q] = answer[q]

LEMMA Freed ==
  ASSUME TypeOK, NEW p \in Request, FreeRows(p)
  PROVE  /\ keyRow' \in [Key -> Request \cup {Free}]
         /\ challengeRow' \in [Challenge -> Request \cup {Free}]
         /\ emailRow' \in [Email -> Request \cup {Free}]
         /\ nidRow' \in [Nid -> Request \cup {Free}]
         /\ \A q \in Request \ {p} :
              /\ \A c \in Challenge : challengeRow[c] = q => challengeRow'[c] = q
              /\ \A e \in Email : emailRow[e] = q => emailRow'[e] = q
              /\ \A n \in Nid : nidRow[n] = q => nidRow'[n] = q
  BY Types DEF FreeRows

LEMMA Responded ==
  ASSUME TypeOK, NEW p \in Request, NEW a \in Account \cup {None}, Respond(p, a),
         RegistrationBounds
  PROVE  /\ pc' \in [Request -> {"idle", "readChallenge", "hash"} \cup InTx]
         /\ answer' \in [Request -> Account \cup {None}] /\ now' \in [Request -> Time]
         /\ pc'[p] = "idle" /\ answer'[p] = a
         /\ \A q \in Request \ {p} : pc'[q] = pc[q] /\ answer'[q] = answer[q]
<1>1. 0 \in Time
  BY DEF Time, RegistrationBounds
<1> QED
  BY <1>1, Types DEF Respond, Goto

LEMMA Gone ==
  ASSUME TypeOK, NEW p \in Request,
         NEW x \in {"idle", "readChallenge", "hash"} \cup InTx, Goto(p, x)
  PROVE  /\ pc' \in [Request -> {"idle", "readChallenge", "hash"} \cup InTx]
         /\ pc'[p] = x /\ \A q \in Request \ {p} : pc'[q] = pc[q]
  BY Types DEF Goto

\* A call that goes on or is answered, when no account and no challenge is written.
LEMMA Quiet ==
  ASSUME IInv, TypeOK', NEW p \in Request, RowsKept(p), RequestOK(p)',
         UNCHANGED <<challenge, accounts, record, lookupVars>>,
         answer'[p] # None =>
           /\ answer'[p] \in accounts
           /\ answer'[p].challenge = call'[p].content.challenge
           /\ answer'[p].email = call'[p].content.email
  PROVE  IInv'
<1>1. ASSUME NEW q \in Request \ {p} PROVE RequestOK(q)'
  <2>1. /\ RequestOK(q) /\ pc'[q] = pc[q] /\ call'[q] = call[q] /\ Asked(q)' = Asked(q)
        /\ Issued' = Issued
    BY DEF IInv, RequestsOK, RowsKept, Asked, Issued, Unopened
  <2>2. pc[q] # "idle" => /\ call[q].content.challenge \in Issued
                          /\ call[q].content.challenge \in Challenge
                          /\ call[q].content.email \in Email
                          /\ Asked(q).nid \in Nid
    BY <2>1 DEF IInv, RequestOK, ChallengesOK, Asking, Body, Asked, Issued
  <2>3. pc[q] \in HasChallenge => challengeRow'[call[q].content.challenge] = q
    BY <2>1, <2>2 DEF RequestOK, RowsKept, HasChallenge
  <2>4. pc[q] \in HasEmail => emailRow'[call[q].content.email] = q
    BY <2>1, <2>2 DEF RequestOK, RowsKept, HasEmail
  <2>5. pc[q] = "commit" => nidRow'[Asked(q).nid] = q
    BY <2>1, <2>2 DEF RequestOK, RowsKept
  <2> QED
    BY <2>1, <2>3, <2>4, <2>5 DEF RequestOK
<1>2. RequestsOK'
  BY <1>1 DEF RequestsOK
<1>3. ChallengesOK' /\ RecordsOK'
  BY DEF IInv, ChallengesOK, RecordsOK, Issued, Unopened, lookupVars
<1>4. AccountsDistinct' /\ ChallengeSpentOnce'
  BY DEF IInv, AccountsDistinct, ChallengeSpentOnce
<1>5. AnswersOwnAccount'
  BY DEF IInv, AnswersOwnAccount, RowsKept
<1> QED
  BY <1>2, <1>3, <1>4, <1>5 DEF IInv


-------------------------------------------------------------------------------
(* The steps                                                               *)

\* A call that is refused is idle, and what it held is free.
LEMMA Refused ==
  ASSUME RowAssumption, RegistrationBounds, IInv, NEW p \in Request, Rollback(p)
  PROVE  IInv'
<1>1. TypeOK
  BY DEF IInv
<1>2. /\ Respond(p, None) /\ FreeRows(p)
      /\ UNCHANGED <<challenge, accounts, record, clock, call, lookupVars>>
  BY DEF Rollback
<1>3. TypeOK'
  BY <1>1, <1>2, Freed, Responded DEF TypeOK, lookupVars
<1>4. pc'[p] = "idle" /\ answer'[p] = None
  BY <1>1, <1>2, Responded
<1>5. RowsKept(p)
  BY <1>1, <1>2, Freed, Responded DEF RowsKept
<1>6. RequestOK(p)'
  BY <1>4 DEF RequestOK, HasChallenge, HasEmail
<1> QED
  BY <1>2, <1>3, <1>4, <1>5, <1>6, Quiet

LEMMA RegisterStepOK ==
  ASSUME RowAssumption, RegistrationBounds, IInv, NEW p \in Request,
         NEW k \in Key, NEW content \in Body, Register(p, k, content)
  PROVE  IInv'
<1>1. /\ TypeOK /\ pc[p] = "idle" /\ content.challenge \in Issued
      /\ call' = [call EXCEPT ![p] = [key |-> k, content |-> content]]
      /\ UNCHANGED <<challenge, accounts, record, rowVars, clock, lookupVars>>
  BY DEF Register, IInv
<1>2. /\ call' \in [Request -> {None} \cup Asking]
      /\ call'[p] = [key |-> k, content |-> content]
      /\ \A q \in Request \ {p} : call'[q] = call[q]
  <2>1. [key |-> k, content |-> content] \in Asking
    BY DEF Asking
  <2> QED
    BY <1>1, <2>1, Types
<1>3. RowsKept(p) <=> \A q \in Request \ {p} : pc'[q] = pc[q] /\ answer'[q] = answer[q]
  BY <1>1, <1>2 DEF RowsKept, rowVars
<1>4. CASE record[k] # None
  <2> DEFINE a == IF record[k].content = content THEN record[k].account ELSE None
  <2>1. Respond(p, a)
    BY <1>4 DEF Register, Replay
  <2>2. a \in Account \cup {None}
    BY <1>1, <1>4, Types DEF IInv, RecordsOK
  <2>3. /\ a # None => /\ a \in accounts
                       /\ a.challenge = content.challenge
                       /\ a.email = content.email
    BY <1>4 DEF IInv, RecordsOK
  <2> HIDE DEF a
  <2>4. /\ pc' \in [Request -> {"idle", "readChallenge", "hash"} \cup InTx]
        /\ answer' \in [Request -> Account \cup {None}] /\ now' \in [Request -> Time]
        /\ pc'[p] = "idle" /\ answer'[p] = a
        /\ \A q \in Request \ {p} : pc'[q] = pc[q] /\ answer'[q] = answer[q]
    BY <1>1, <2>1, <2>2, Responded
  <2>5. TypeOK'
    BY <1>1, <1>2, <2>4 DEF TypeOK, rowVars, lookupVars, Asking
  <2>6. RequestOK(p)'
    BY <2>4 DEF RequestOK, HasChallenge, HasEmail
  <2>7. RowsKept(p)
    BY <1>3, <2>4
  <2> QED
    BY <1>1, <1>2, <2>3, <2>4, <2>5, <2>6, <2>7, Quiet
<1>5. CASE record[k] = None
  <2>1. Goto(p, "readChallenge") /\ answer' = [answer EXCEPT ![p] = None] /\ now' = now
    BY <1>5 DEF Register
  <2>2. /\ pc' \in [Request -> {"idle", "readChallenge", "hash"} \cup InTx]
        /\ pc'[p] = "readChallenge" /\ \A q \in Request \ {p} : pc'[q] = pc[q]
    BY <1>1, <2>1, Gone
  <2>3. /\ answer' \in [Request -> Account \cup {None}]
        /\ answer'[p] = None /\ \A q \in Request \ {p} : answer'[q] = answer[q]
    BY <1>1, <2>1, Types
  <2>4. TypeOK'
    BY <1>1, <1>2, <2>1, <2>2, <2>3 DEF TypeOK, rowVars, lookupVars, Asking
  <2>5. RequestOK(p)'
    <3>1. call'[p] \in Asking
      BY <1>2 DEF Asking
    <3>2. call'[p].content.challenge \in Issued'
      BY <1>1, <1>2 DEF Issued, Unopened
    <3> QED
      BY <2>2, <3>1, <3>2 DEF RequestOK, HasChallenge, HasEmail
  <2>6. RowsKept(p)
    BY <1>3, <2>2, <2>3
  <2> QED
    BY <1>1, <2>3, <2>4, <2>5, <2>6, Quiet
<1> QED
  BY <1>4, <1>5

\* What a call at work was asked.
LEMMA AtWork ==
  ASSUME RowAssumption, IInv, NEW p \in Request, pc[p] # "idle"
  PROVE  /\ call[p] \in Asking /\ call[p].key \in Key
         /\ call[p].content.challenge \in Issued
         /\ call[p].content.challenge \in Challenge /\ call[p].content.email \in Email
         /\ Asked(p) = challenge[call[p].content.challenge]
         /\ Asked(p).nid \in Nid /\ Asked(p) \in Row
<1>1. call[p] \in Asking /\ call[p].content.challenge \in Issued
  BY DEF IInv, RequestsOK, RequestOK
<1> QED
  BY <1>1, Types DEF IInv, ChallengesOK, Asking, Body, Asked, Issued

\* A step on which a call only goes on.
LEMMA GoesOn ==
  ASSUME IInv, NEW p \in Request, pc[p] # "idle",
         NEW x \in {"idle", "readChallenge", "hash"} \cup InTx, Goto(p, x),
         keyRow' \in [Key -> Request \cup {Free}],
         challengeRow' \in [Challenge -> Request \cup {Free}],
         emailRow' \in [Email -> Request \cup {Free}],
         nidRow' \in [Nid -> Request \cup {Free}],
         \A q \in Request \ {p} :
           /\ \A c \in Challenge : challengeRow[c] = q => challengeRow'[c] = q
           /\ \A e \in Email : emailRow[e] = q => emailRow'[e] = q
           /\ \A n \in Nid : nidRow[n] = q => nidRow'[n] = q,
         now' \in [Request -> Time],
         UNCHANGED <<challenge, accounts, record, clock, call, answer, lookupVars>>,
         RequestOK(p)'
  PROVE  IInv'
<1>1. TypeOK
  BY DEF IInv
<1>2. /\ pc' \in [Request -> {"idle", "readChallenge", "hash"} \cup InTx]
      /\ pc'[p] = x /\ \A q \in Request \ {p} : pc'[q] = pc[q]
  BY <1>1, Gone
<1>3. TypeOK'
  BY <1>1, <1>2 DEF TypeOK, lookupVars
<1>4. RowsKept(p)
  BY <1>2 DEF RowsKept
<1>5. answer'[p] # None =>
        /\ answer'[p] \in accounts
        /\ answer'[p].challenge = call'[p].content.challenge
        /\ answer'[p].email = call'[p].content.email
  BY DEF IInv, AnswersOwnAccount
<1> QED
  BY <1>3, <1>4, <1>5, Quiet

LEMMA Answerless ==
  ASSUME RegistrationBounds, IInv, NEW p \in Request, Respond(p, None),
         UNCHANGED <<challenge, accounts, record, rowVars, clock, call, lookupVars>>
  PROVE  IInv'
<1>1. TypeOK
  BY DEF IInv
<1>2. /\ pc' \in [Request -> {"idle", "readChallenge", "hash"} \cup InTx]
      /\ answer' \in [Request -> Account \cup {None}] /\ now' \in [Request -> Time]
      /\ pc'[p] = "idle" /\ answer'[p] = None
      /\ \A q \in Request \ {p} : pc'[q] = pc[q] /\ answer'[q] = answer[q]
  BY <1>1, Responded
<1>3. TypeOK'
  BY <1>1, <1>2 DEF TypeOK, rowVars, lookupVars
<1>4. RowsKept(p) /\ RequestOK(p)'
  BY <1>2 DEF RowsKept, rowVars, RequestOK, HasChallenge, HasEmail
<1> QED
  BY <1>2, <1>3, <1>4, Quiet

LEMMA ReadChallengeOK ==
  ASSUME RowAssumption, RegistrationBounds, IInv, NEW p \in Request, ReadChallenge(p)
  PROVE  IInv'
<1>1. pc[p] = "readChallenge" /\ TypeOK
  BY DEF ReadChallenge, IInv
<1>2. CASE ChallengeFits(p)
  <2>1. /\ Goto(p, "hash")
        /\ UNCHANGED <<now, answer, challenge, accounts, record, rowVars, clock, call,
                       lookupVars>>
    BY <1>2 DEF ReadChallenge
  <2>2. pc'[p] = "hash"
    BY <1>1, <2>1, Gone
  <2>3. /\ call'[p] = call[p] /\ Asked(p)' = Asked(p) /\ Issued' = Issued
        /\ call[p] \in Asking /\ call[p].content.challenge \in Issued
    BY <1>1, <2>1, AtWork DEF Asked, Issued, Unopened
  <2>4. RequestOK(p)'
    BY <1>2, <2>2, <2>3 DEF RequestOK, ChallengeFits, HasChallenge, HasEmail
  <2> QED
    BY <1>1, <2>1, <2>4, Types, GoesOn DEF rowVars
<1>3. CASE ~ChallengeFits(p)
  BY <1>3, Answerless DEF ReadChallenge
<1> QED
  BY <1>2, <1>3

LEMMA HashPasswordOK ==
  ASSUME RowAssumption, RegistrationBounds, IInv, NEW p \in Request, HashPassword(p)
  PROVE  IInv'
<1>1. pc[p] = "hash" /\ TypeOK
  BY DEF HashPassword, IInv
<1>2. CASE Respond(p, None)
  BY <1>2, Answerless DEF HashPassword
<1>3. CASE /\ Goto(p, "insertKey") /\ now' = [now EXCEPT ![p] = clock]
           /\ UNCHANGED answer
  <2>1. UNCHANGED <<challenge, accounts, record, rowVars, clock, call, lookupVars>>
    BY DEF HashPassword
  <2>2. pc'[p] = "insertKey"
    BY <1>1, <1>3, Gone DEF InTx
  <2>3. now' \in [Request -> Time]
    BY <1>1, <1>3 DEF TypeOK
  <2>4. /\ call'[p] = call[p] /\ Asked(p)' = Asked(p) /\ Issued' = Issued
        /\ call[p] \in Asking /\ call[p].content.challenge \in Issued
        /\ Asked(p).email = call[p].content.email
    BY <1>1, <2>1, AtWork DEF Asked, Issued, Unopened, IInv, RequestsOK, RequestOK
  <2>5. RequestOK(p)'
    BY <2>2, <2>4 DEF RequestOK, HasChallenge, HasEmail
  <2> QED
    BY <1>1, <1>3, <2>1, <2>3, <2>5, Types, GoesOn DEF rowVars, InTx
<1> QED
  BY <1>2, <1>3 DEF HashPassword

LEMMA InsertKeyOK ==
  ASSUME RowAssumption, RegistrationBounds, IInv, NEW p \in Request, InsertKey(p)
  PROVE  IInv'
<1>1. CASE Rollback(p)
  BY <1>1, Refused
<1>2. CASE ~Rollback(p)
  <2>1. /\ pc[p] = "insertKey" /\ TypeOK
        /\ keyRow' = [keyRow EXCEPT ![call[p].key] = p] /\ Goto(p, "recordAttempt")
        /\ UNCHANGED <<challenge, accounts, record, challengeRow, emailRow, nidRow,
                       clock, call, now, answer, lookupVars>>
    BY <1>2 DEF InsertKey, IInv
  <2>2. pc'[p] = "recordAttempt"
    BY <2>1, Gone DEF InTx
  <2>3. /\ call'[p] = call[p] /\ Asked(p)' = Asked(p) /\ Issued' = Issued
        /\ call[p] \in Asking /\ call[p].content.challenge \in Issued
        /\ Asked(p).email = call[p].content.email
    BY <2>1, AtWork DEF Asked, Issued, Unopened, IInv, RequestsOK, RequestOK
  <2>4. RequestOK(p)'
    BY <2>2, <2>3 DEF RequestOK, HasChallenge, HasEmail
  <2>5. keyRow' \in [Key -> Request \cup {Free}]
    BY <2>1, Types
  <2> QED
    BY <2>1, <2>4, <2>5, Types, GoesOn DEF InTx
<1> QED
  BY <1>1, <1>2

LEMMA RecordAttemptOK ==
  ASSUME RowAssumption, RegistrationBounds, IInv, NEW p \in Request, RecordAttempt(p)
  PROVE  IInv'
<1>1. CASE Rollback(p)
  BY <1>1, Refused
<1>2. CASE ~Rollback(p)
  <2> DEFINE c == call[p].content.challenge
  <2>1. /\ pc[p] = "recordAttempt" /\ TypeOK /\ Attemptable(p) /\ challengeRow[c] = Free
        /\ challengeRow' = [challengeRow EXCEPT ![c] = p] /\ Goto(p, "readOwners")
        /\ UNCHANGED <<challenge, accounts, record, keyRow, emailRow, nidRow, clock,
                       call, now, answer, lookupVars>>
    BY <1>2 DEF RecordAttempt, IInv
  <2>2. pc'[p] = "readOwners"
    BY <2>1, Gone DEF InTx
  <2>3. /\ call'[p] = call[p] /\ Asked(p)' = Asked(p) /\ Issued' = Issued
        /\ call[p] \in Asking /\ c \in Issued /\ c \in Challenge
        /\ Asked(p).email = call[p].content.email
    BY <2>1, AtWork DEF Asked, Issued, Unopened, IInv, RequestsOK, RequestOK
  <2>4. /\ challengeRow' \in [Challenge -> Request \cup {Free}] /\ challengeRow'[c] = p
        /\ \A d \in Challenge \ {c} : challengeRow'[d] = challengeRow[d]
    BY <2>1, <2>3, Types
  <2>5. RequestOK(p)'
    BY <2>1, <2>2, <2>3, <2>4 DEF RequestOK, HasChallenge, HasEmail, Attemptable
  <2>6. \A q \in Request \ {p} :
          \A d \in Challenge : challengeRow[d] = q => challengeRow'[d] = q
    BY <2>1, <2>4 DEF RowAssumption
  <2>7. \A q \in Request \ {p} :
          /\ \A e \in Email : emailRow[e] = q => emailRow'[e] = q
          /\ \A n \in Nid : nidRow[n] = q => nidRow'[n] = q
    BY <2>1
  <2> QED
    BY <2>1, <2>4, <2>5, <2>6, <2>7, Types, GoesOn DEF InTx
<1> QED
  BY <1>1, <1>2

LEMMA ReadOwnersOK ==
  ASSUME RowAssumption, RegistrationBounds, IInv, NEW p \in Request, ReadOwners(p)
  PROVE  IInv'
<1>1. CASE Rollback(p)
  BY <1>1, Refused
<1>2. CASE ~Rollback(p)
  <2>1. /\ pc[p] = "readOwners" /\ TypeOK /\ Goto(p, "insertUser")
        /\ UNCHANGED <<challenge, accounts, record, rowVars, clock, call, now, answer,
                       lookupVars>>
    BY <1>2 DEF ReadOwners, IInv
  <2>2. pc'[p] = "insertUser"
    BY <2>1, Gone DEF InTx
  <2>3. /\ call'[p] = call[p] /\ Asked(p)' = Asked(p) /\ Issued' = Issued
        /\ RequestOK(p)
    BY <2>1 DEF Asked, Issued, Unopened, IInv, RequestsOK
  <2>4. RequestOK(p)'
    BY <2>1, <2>2, <2>3 DEF RequestOK, HasChallenge, HasEmail, rowVars
  <2> QED
    BY <2>1, <2>4, Types, GoesOn DEF InTx, rowVars
<1> QED
  BY <1>1, <1>2

LEMMA InsertUserOK ==
  ASSUME RowAssumption, RegistrationBounds, IInv, NEW p \in Request, InsertUser(p)
  PROVE  IInv'
<1>1. CASE Rollback(p)
  BY <1>1, Refused
<1>2. CASE ~Rollback(p)
  <2> DEFINE e == call[p].content.email
  <2>1. /\ pc[p] = "insertUser" /\ TypeOK /\ emailRow[e] = Free
        /\ \A a \in accounts : a.email # e
        /\ emailRow' = [emailRow EXCEPT ![e] = p] /\ Goto(p, "insertIdentity")
        /\ UNCHANGED <<challenge, accounts, record, keyRow, challengeRow, nidRow, clock,
                       call, now, answer, lookupVars>>
    BY <1>2 DEF InsertUser, IInv
  <2>2. pc'[p] = "insertIdentity"
    BY <2>1, Gone DEF InTx
  <2>3. /\ call'[p] = call[p] /\ Asked(p)' = Asked(p) /\ Issued' = Issued
        /\ RequestOK(p) /\ e \in Email
    BY <2>1, AtWork DEF Asked, Issued, Unopened, IInv, RequestsOK
  <2>4. /\ emailRow' \in [Email -> Request \cup {Free}] /\ emailRow'[e] = p
        /\ \A d \in Email \ {e} : emailRow'[d] = emailRow[d]
    BY <2>1, <2>3, Types
  <2>5. RequestOK(p)'
    BY <2>1, <2>2, <2>3, <2>4 DEF RequestOK, HasChallenge, HasEmail
  <2>6. \A q \in Request \ {p} : \A d \in Email : emailRow[d] = q => emailRow'[d] = q
    BY <2>1, <2>4 DEF RowAssumption
  <2>7. \A q \in Request \ {p} :
          /\ \A c \in Challenge : challengeRow[c] = q => challengeRow'[c] = q
          /\ \A n \in Nid : nidRow[n] = q => nidRow'[n] = q
    BY <2>1
  <2> QED
    BY <2>1, <2>4, <2>5, <2>6, <2>7, Types, GoesOn DEF InTx
<1> QED
  BY <1>1, <1>2

LEMMA InsertIdentityOK ==
  ASSUME RowAssumption, RegistrationBounds, IInv, NEW p \in Request, InsertIdentity(p)
  PROVE  IInv'
<1>1. CASE Rollback(p)
  BY <1>1, Refused
<1>2. CASE ~Rollback(p)
  <2> DEFINE n == Asked(p).nid
  <2>1. /\ pc[p] = "insertIdentity" /\ TypeOK /\ nidRow[n] = Free
        /\ \A a \in accounts : a.nid # n
        /\ nidRow' = [nidRow EXCEPT ![n] = p] /\ Goto(p, "commit")
        /\ UNCHANGED <<challenge, accounts, record, keyRow, challengeRow, emailRow,
                       clock, call, now, answer, lookupVars>>
    BY <1>2 DEF InsertIdentity, IInv
  <2>2. pc'[p] = "commit"
    BY <2>1, Gone DEF InTx
  <2>3. /\ call'[p] = call[p] /\ Asked(p)' = Asked(p) /\ Issued' = Issued
        /\ RequestOK(p) /\ n \in Nid
    BY <2>1, AtWork DEF Asked, Issued, Unopened, IInv, RequestsOK
  <2>4. /\ nidRow' \in [Nid -> Request \cup {Free}] /\ nidRow'[n] = p
        /\ \A d \in Nid \ {n} : nidRow'[d] = nidRow[d]
    BY <2>1, <2>3, Types
  <2>5. RequestOK(p)'
    BY <2>1, <2>2, <2>3, <2>4 DEF RequestOK, HasChallenge, HasEmail
  <2>6. \A q \in Request \ {p} : \A d \in Nid : nidRow[d] = q => nidRow'[d] = q
    BY <2>1, <2>4 DEF RowAssumption
  <2>7. \A q \in Request \ {p} :
          /\ \A c \in Challenge : challengeRow[c] = q => challengeRow'[c] = q
          /\ \A e \in Email : emailRow[e] = q => emailRow'[e] = q
    BY <2>1
  <2> QED
    BY <2>1, <2>4, <2>5, <2>6, <2>7, Types, GoesOn DEF InTx
<1> QED
  BY <1>1, <1>2

-------------------------------------------------------------------------------
(* The steps that write a challenge                                        *)

\* Commit consumes the one challenge its transaction owns.
LEMMA Consumed ==
  ASSUME RowAssumption, IInv, NEW p \in Request, pc[p] = "commit", Consume(p),
         NEW c, c = call[p].content.challenge
  PROVE  /\ challenge' \in [Challenge -> Row]
         /\ challenge[c].status = "PENDING" /\ challenge'[c].status = "CONSUMED"
         /\ challenge'[c].nid = challenge[c].nid
         /\ challenge'[c].email = challenge[c].email
         /\ \A d \in Challenge \ {c} : challenge'[d] = challenge[d]
         /\ Issued' = Issued
<1>1. /\ c \in Challenge /\ challenge[c] \in Row /\ Asked(p) = challenge[c]
      /\ challenge \in [Challenge -> Row]
  BY AtWork, Types DEF IInv
<1>2. challenge[c].status = "PENDING"
  BY <1>1 DEF IInv, RequestsOK, RequestOK, HasChallenge
<1> DEFINE n == challenge[c].attempts + 1
           r == [challenge[c] EXCEPT !.status = "CONSUMED", !.attempts = n]
<1>3. /\ r \in Row
      /\ r.status = "CONSUMED" /\ r.nid = challenge[c].nid /\ r.email = challenge[c].email
  <2>1. n \in Nat
    BY <1>1 DEF Row
  <2> HIDE DEF n
  <2> QED
    BY <1>1, <2>1 DEF Row
<1>4. /\ challenge' \in [Challenge -> Row] /\ challenge'[c] = r
      /\ \A d \in Challenge \ {c} : challenge'[d] = challenge[d]
  <2>1. challenge' = [challenge EXCEPT ![c].status = "CONSUMED", ![c].attempts = @ + 1]
    BY DEF Consume
  <2>2. challenge' = [challenge EXCEPT ![c] = r]
    BY <1>1, <2>1 DEF Row
  <2> QED
    BY <1>1, <1>3, <2>2
<1>5. /\ challenge'[c].status = "CONSUMED"
      /\ challenge'[c].nid = challenge[c].nid /\ challenge'[c].email = challenge[c].email
  BY <1>3, <1>4
<1>6. Issued' = Issued
  <2>1. \A d \in Challenge : challenge'[d].status = "none" <=> challenge[d].status = "none"
    BY <1>1, <1>2, <1>4, <1>5
  <2> QED
    BY <2>1 DEF Issued, Unopened
<1> QED
  BY <1>2, <1>4, <1>5, <1>6

LEMMA CommitOK ==
  ASSUME RowAssumption, RegistrationBounds, IInv, NEW p \in Request, Commit(p)
  PROVE  IInv'
<1> DEFINE c == call[p].content.challenge
           e == call[p].content.email
           n == Asked(p).nid
           a == [challenge |-> c, nid |-> n, email |-> e]
<1>1. /\ pc[p] = "commit" /\ TypeOK /\ Consume(p) /\ accounts' = accounts \cup {a}
      /\ record' = [record EXCEPT ![call[p].key] =
           [content |-> call[p].content, account |-> a]]
      /\ Respond(p, a) /\ FreeRows(p) /\ UNCHANGED <<clock, call, lookupVars>>
  BY DEF Commit, IInv, NewAccount
<1>2. /\ call[p] \in Asking /\ call[p].key \in Key /\ c \in Issued /\ c \in Challenge
      /\ e \in Email /\ n \in Nid /\ Asked(p) = challenge[c]
      /\ call[p].content \in Body
  BY <1>1, AtWork DEF Asking
<1>3. /\ challengeRow[c] = p /\ emailRow[e] = p /\ nidRow[n] = p
      /\ Asked(p).email = e
      /\ \A b \in accounts : b.email # e /\ b.nid # n
  BY <1>1 DEF IInv, RequestsOK, RequestOK, HasChallenge, HasEmail
<1>4. a \in Account
  BY <1>2 DEF Account
<1>5. /\ a.challenge = c /\ a.nid = n /\ a.email = e
  OBVIOUS
<1>6. /\ challenge' \in [Challenge -> Row]
      /\ challenge[c].status = "PENDING" /\ challenge'[c].status = "CONSUMED"
      /\ challenge'[c].nid = n /\ challenge'[c].email = e
      /\ \A d \in Challenge \ {c} : challenge'[d] = challenge[d]
      /\ Issued' = Issued
  BY <1>1, <1>2, <1>3, Consumed
<1> HIDE DEF a
<1>7. /\ pc' \in [Request -> {"idle", "readChallenge", "hash"} \cup InTx]
      /\ answer' \in [Request -> Account \cup {None}] /\ now' \in [Request -> Time]
      /\ pc'[p] = "idle" /\ answer'[p] = a
      /\ \A q \in Request \ {p} : pc'[q] = pc[q] /\ answer'[q] = answer[q]
  BY <1>1, <1>4, Responded
<1>8. /\ record' \in [Key -> {None} \cup [content : Body, account : Account]]
      /\ record'[call[p].key] = [content |-> call[p].content, account |-> a]
      /\ \A k \in Key \ {call[p].key} : record'[k] = record[k]
  BY <1>1, <1>2, <1>4, Types
<1>9. TypeOK'
  <2>1. accounts' \subseteq Account
    BY <1>1, <1>4, Types
  <2> QED
    BY <1>1, <1>6, <1>7, <1>8, <2>1, Freed DEF TypeOK, Row, lookupVars
<1>10. ASSUME NEW q \in Request PROVE RequestOK(q)'
  <2>1. CASE q = p
    BY <1>7, <2>1 DEF RequestOK, HasChallenge, HasEmail
  <2>2. CASE q # p
    <3>1. RequestOK(q) /\ pc'[q] = pc[q] /\ call'[q] = call[q]
      BY <1>1, <1>7, <2>2 DEF IInv, RequestsOK
    <3>2. CASE pc[q] = "idle"
      BY <3>1, <3>2 DEF RequestOK, HasChallenge, HasEmail
    <3>3. CASE pc[q] # "idle"
      <4> DEFINE d == call[q].content.challenge
                 f == call[q].content.email
      <4>1. /\ call[q] \in Asking /\ d \in Issued /\ d \in Challenge /\ f \in Email
            /\ Asked(q) = challenge[d] /\ Asked(q)' = challenge'[d] /\ Asked(q).nid \in Nid
        BY <3>1, <3>3, AtWork DEF Asked
      <4>2. /\ Asked(q)'.email = Asked(q).email /\ Asked(q)'.nid = Asked(q).nid
            /\ d # c => Asked(q)' = Asked(q)
        <5>1. challenge[c].email = e /\ challenge[c].nid = n
          BY <1>2, <1>3
        <5> QED
          BY <1>6, <4>1, <5>1
      <4>3. pc[q] \in HasChallenge => challengeRow'[d] = q /\ d # c
        BY <1>1, <1>3, <2>2, <3>1, <4>1, Freed DEF RequestOK
      <4>4. pc[q] \in HasEmail => emailRow'[f] = q /\ f # e
        BY <1>1, <1>3, <2>2, <3>1, <4>1, Freed DEF RequestOK
      <4>5. pc[q] = "commit" => nidRow'[Asked(q).nid] = q /\ Asked(q).nid # n
        BY <1>1, <1>3, <2>2, <3>1, <4>1, Freed DEF RequestOK
      <4>6. pc'[q] \in HasChallenge =>
              challengeRow'[call'[q].content.challenge] = q /\ Asked(q)'.status = "PENDING"
        BY <3>1, <4>2, <4>3 DEF RequestOK
      <4>7. pc'[q] \in HasEmail =>
              /\ emailRow'[call'[q].content.email] = q
              /\ \A b \in accounts' : b.email # call'[q].content.email
        BY <1>1, <1>5, <3>1, <4>4 DEF RequestOK
      <4>8. pc'[q] = "commit" =>
              nidRow'[Asked(q)'.nid] = q /\ \A b \in accounts' : b.nid # Asked(q)'.nid
        BY <1>1, <1>5, <3>1, <4>2, <4>5 DEF RequestOK
      <4>9. /\ pc'[q] # "idle" => call'[q] \in Asking
                                 /\ call'[q].content.challenge \in Issued'
            /\ pc'[q] \notin {"idle", "readChallenge"} =>
                 Asked(q)'.email = call'[q].content.email
        BY <1>6, <3>1, <4>1, <4>2 DEF RequestOK
      <4> QED
        BY <4>6, <4>7, <4>8, <4>9 DEF RequestOK, HasChallenge, HasEmail
    <3> QED
      BY <3>2, <3>3
  <2> QED
    BY <2>1, <2>2
<1>11. ChallengesOK'
  BY <1>1, <1>2, <1>6 DEF IInv, ChallengesOK, Issued, lookupVars
<1>12. RecordsOK'
  <2> SUFFICES ASSUME NEW k \in Key, record'[k] # None
               PROVE  /\ record'[k].account \in accounts'
                      /\ record'[k].account.challenge = record'[k].content.challenge
                      /\ record'[k].account.email = record'[k].content.email
    BY DEF RecordsOK
  <2>1. CASE k = call[p].key
    BY <1>1, <1>5, <1>8, <2>1
  <2>2. CASE k # call[p].key
    BY <1>1, <1>8, <2>2 DEF IInv, RecordsOK
  <2> QED
    BY <2>1, <2>2
<1>13. AccountsDistinct'
  BY <1>1, <1>3, <1>5 DEF IInv, AccountsDistinct
<1>14. ChallengeSpentOnce'
  <2>1. \A b \in accounts :
          /\ b.challenge \in Challenge /\ b.challenge # c
          /\ challenge[b.challenge].status = "CONSUMED"
          /\ challenge[b.challenge].nid = b.nid /\ challenge[b.challenge].email = b.email
          /\ \A d \in accounts : d.challenge = b.challenge => d = b
    BY <1>6, Types DEF IInv, ChallengeSpentOnce, Account
  <2>2. \A b \in accounts' :
          /\ challenge'[b.challenge].status = "CONSUMED"
          /\ challenge'[b.challenge].nid = b.nid /\ challenge'[b.challenge].email = b.email
    BY <1>1, <1>5, <1>6, <2>1
  <2>3. \A b, d \in accounts' : d.challenge = b.challenge => d = b
    BY <1>1, <1>5, <2>1
  <2>4. ASSUME NEW d \in Challenge, challenge'[d].status = "CONSUMED"
        PROVE  \E b \in accounts' : b.challenge = d
    <3>1. CASE d = c
      BY <1>1, <1>5, <3>1
    <3>2. CASE d # c
      <4>1. challenge[d].status = "CONSUMED"
        BY <1>6, <2>4, <3>2
      <4>2. \E b \in accounts : b.challenge = d
        BY <4>1 DEF IInv, ChallengeSpentOnce
      <4> QED
        BY <1>1, <4>2
    <3> QED
      BY <3>1, <3>2
  <2> QED
    BY <2>2, <2>3, <2>4 DEF ChallengeSpentOnce
<1>15. AnswersOwnAccount'
  <2> SUFFICES ASSUME NEW q \in Request, answer'[q] # None
               PROVE  /\ answer'[q] \in accounts'
                      /\ answer'[q].challenge = call'[q].content.challenge
                      /\ answer'[q].email = call'[q].content.email
    BY DEF AnswersOwnAccount
  <2>1. CASE q = p
    BY <1>1, <1>5, <1>7, <2>1
  <2>2. CASE q # p
    BY <1>1, <1>7, <2>2 DEF IInv, AnswersOwnAccount
  <2> QED
    BY <2>1, <2>2
<1> QED
  BY <1>9, <1>10, <1>11, <1>12, <1>13, <1>14, <1>15 DEF IInv, RequestsOK

LEMMA CreateChallengeOK ==
  ASSUME RowAssumption, RegistrationBounds, IInv, NEW l \in Lookup, NEW c \in Challenge,
         CreateChallenge(l, c)
  PROVE  IInv'
<1> DEFINE new == [status |-> "PENDING", nid |-> subject[l].nid, email |-> subject[l].email,
                   expiresAt |-> subject[l].expiresAt, attempts |-> 0]
<1>1. /\ looking[l] = "create" /\ c \in Unopened /\ TypeOK
      /\ challenge' = [challenge EXCEPT ![c] = new]
      /\ looking' = [looking EXCEPT ![l] = "idle"] /\ subject' = [subject EXCEPT ![l] = None]
      /\ UNCHANGED <<accounts, record, rowVars, clock, pc, call, now, answer>>
  BY DEF CreateChallenge, IInv
<1>2. subject[l] \in [nid : Nid, email : Email, expiresAt : Instant]
  BY <1>1 DEF IInv, ChallengesOK
<1>3. /\ new \in Row /\ new.status = "PENDING"
      /\ new.nid \in Nid /\ new.email \in Email
  BY <1>2 DEF Row
<1> HIDE DEF new
<1>4. /\ challenge' \in [Challenge -> Row] /\ challenge'[c] = new
      /\ \A d \in Challenge \ {c} : challenge'[d] = challenge[d]
  BY <1>1, <1>3, Types
<1>5. Issued' = Issued \cup {c} /\ c \notin Issued /\ challenge[c].status = "none"
  <2>1. \A d \in Challenge :
          challenge'[d].status = "none" <=> d # c /\ challenge[d].status = "none"
    BY <1>3, <1>4
  <2> QED
    BY <1>1, <2>1 DEF Issued, Unopened
<1>6. \A d \in Issued : challenge'[d] = challenge[d]
  BY <1>4, <1>5 DEF Issued
<1>7. /\ looking' \in [Lookup -> {"idle", "read", "create"}]
      /\ subject' \in [Lookup -> {None} \cup [nid : Nid, email : Email, expiresAt : Instant]]
      /\ looking'[l] = "idle"
      /\ \A m \in Lookup \ {l} : looking'[m] = looking[m] /\ subject'[m] = subject[m]
  BY <1>1 DEF TypeOK
<1>8. TypeOK'
  BY <1>1, <1>4, <1>7 DEF TypeOK, Row, rowVars
<1>9. ASSUME NEW q \in Request PROVE RequestOK(q)'
  <2>1. /\ RequestOK(q) /\ pc'[q] = pc[q] /\ call'[q] = call[q] /\ accounts' = accounts
        /\ challengeRow' = challengeRow /\ emailRow' = emailRow /\ nidRow' = nidRow
    BY <1>1 DEF IInv, RequestsOK, rowVars
  <2>2. CASE pc[q] = "idle"
    BY <2>1, <2>2 DEF RequestOK, HasChallenge, HasEmail
  <2>3. CASE pc[q] # "idle"
    <3>1. Asked(q)' = Asked(q) /\ call[q].content.challenge \in Issued'
      BY <1>5, <1>6, <2>1, <2>3 DEF RequestOK, Asked
    <3> QED
      BY <2>1, <3>1 DEF RequestOK
  <2> QED
    BY <2>2, <2>3
<1>10. ChallengesOK'
  BY <1>3, <1>4, <1>5, <1>6, <1>7 DEF IInv, ChallengesOK
<1>11. RecordsOK' /\ AccountsDistinct' /\ AnswersOwnAccount'
  BY <1>1 DEF IInv, RecordsOK, AccountsDistinct, AnswersOwnAccount
<1>12. ChallengeSpentOnce'
  <2>1. \A a \in accounts : a.challenge \in Challenge /\ a.challenge # c
    BY <1>5, Types DEF IInv, ChallengeSpentOnce, Account
  <2>2. \A a \in accounts : challenge'[a.challenge] = challenge[a.challenge]
    BY <1>4, <2>1
  <2>3. \A d \in Challenge : challenge'[d].status = "CONSUMED" =>
          challenge[d].status = "CONSUMED"
    BY <1>3, <1>4
  <2> QED
    BY <1>1, <2>2, <2>3 DEF IInv, ChallengeSpentOnce
<1> QED
  BY <1>8, <1>9, <1>10, <1>11, <1>12 DEF IInv, RequestsOK

-------------------------------------------------------------------------------
(* The steps that write neither                                            *)

\* Lookups and the clock disturb only themselves.
LEMMA Elsewhere ==
  ASSUME IInv, TypeOK',
         UNCHANGED <<challenge, accounts, record, rowVars, pc, call, answer>>,
         \A l \in Lookup : looking'[l] # "idle" =>
           subject'[l] \in [nid : Nid, email : Email, expiresAt : Instant]
  PROVE  IInv'
<1>1. RequestsOK'
  BY DEF IInv, RequestsOK, RequestOK, Asked, Issued, Unopened, rowVars
<1>2. ChallengesOK' /\ RecordsOK'
  BY DEF IInv, ChallengesOK, RecordsOK, Issued, Unopened
<1>3. AccountsDistinct' /\ ChallengeSpentOnce' /\ AnswersOwnAccount'
  BY DEF IInv, AccountsDistinct, ChallengeSpentOnce, AnswersOwnAccount
<1> QED
  BY <1>1, <1>2, <1>3 DEF IInv

LEMMA LookupOK ==
  ASSUME RegistrationBounds, IInv, NEW l \in Lookup,
         ReadIdentity(l) \/ \E n \in Nid, e \in Email : FindCitizen(l, n, e)
  PROVE  IInv'
<1>1. TypeOK /\ UNCHANGED <<challenge, accounts, record, rowVars, clock, pc, call, now, answer>>
  BY DEF IInv, ReadIdentity, FindCitizen
<1>2. /\ looking' \in [Lookup -> {"idle", "read", "create"}]
      /\ subject' \in [Lookup -> {None} \cup [nid : Nid, email : Email, expiresAt : Instant]]
      /\ \A m \in Lookup : looking'[m] # "idle" =>
           subject'[m] \in [nid : Nid, email : Email, expiresAt : Instant]
  <2>1. /\ looking \in [Lookup -> {"idle", "read", "create"}]
        /\ subject \in [Lookup -> {None} \cup [nid : Nid, email : Email, expiresAt : Instant]]
        /\ \A m \in Lookup : looking[m] # "idle" =>
             subject[m] \in [nid : Nid, email : Email, expiresAt : Instant]
    BY DEF IInv, TypeOK, ChallengesOK
  <2>2. CASE ReadIdentity(l)
    BY <2>1, <2>2 DEF ReadIdentity
  <2>3. CASE \E n \in Nid, e \in Email : FindCitizen(l, n, e)
    <3>1. PICK n \in Nid, e \in Email : FindCitizen(l, n, e)
      BY <2>3
    <3>2. Expiry \in Instant
      BY <1>1 DEF TypeOK, Time, Instant, Expiry, RegistrationBounds
    <3>3. [nid |-> n, email |-> e, expiresAt |-> Expiry]
            \in [nid : Nid, email : Email, expiresAt : Instant]
      BY <3>2
    <3> QED
      BY <2>1, <3>1, <3>3 DEF FindCitizen
  <2> QED
    BY <2>2, <2>3
<1>3. TypeOK'
  BY <1>1, <1>2 DEF TypeOK, rowVars
<1> QED
  BY <1>1, <1>2, <1>3, Elsewhere

LEMMA TickOK == ASSUME RegistrationBounds, IInv, Tick PROVE IInv'
<1>1. /\ TypeOK /\ clock < MaxClock /\ clock' = clock + 1
      /\ UNCHANGED <<challenge, accounts, record, rowVars, pc, call, now, answer, lookupVars>>
  BY DEF Tick, IInv
<1>2. clock' \in Time
  BY <1>1 DEF TypeOK, Time, RegistrationBounds
<1>3. TypeOK'
  BY <1>1, <1>2 DEF TypeOK, rowVars, lookupVars
<1>4. looking' = looking /\ subject' = subject
  BY <1>1 DEF lookupVars
<1> QED
  BY <1>1, <1>3, <1>4, Elsewhere DEF IInv, ChallengesOK

LEMMA InvStep == ASSUME RowAssumption, RegistrationBounds, IInv, [Next]_vars PROVE IInv'
<1>1. ASSUME NEW l \in Lookup, LookupStep(l) PROVE IInv'
  BY <1>1, LookupOK, CreateChallengeOK DEF LookupStep
<1>2. ASSUME NEW l \in Lookup, NEW n \in Nid, NEW e \in Email, FindCitizen(l, n, e) PROVE IInv'
  BY <1>2, LookupOK
<1>3. ASSUME NEW p \in Request, RegisterStep(p) PROVE IInv'
  BY <1>3, ReadChallengeOK, HashPasswordOK, InsertKeyOK, RecordAttemptOK, ReadOwnersOK,
     InsertUserOK, InsertIdentityOK, CommitOK DEF RegisterStep
<1>4. ASSUME NEW p \in Request, Fail(p) PROVE IInv'
  BY <1>4, Refused DEF Fail
<1>5. ASSUME NEW p \in Request, NEW k \in Key, NEW content \in Body, Register(p, k, content)
      PROVE  IInv'
  BY <1>5, RegisterStepOK
<1>6. ASSUME UNCHANGED vars PROVE IInv'
  <2>1. /\ UNCHANGED <<challenge, accounts, record, rowVars, pc, call, answer>>
        /\ UNCHANGED lookupVars /\ clock' = clock /\ now' = now
    BY <1>6 DEF vars
  <2>2. TypeOK'
    BY <2>1 DEF IInv, TypeOK, rowVars, lookupVars
  <2>3. looking' = looking /\ subject' = subject
    BY <2>1 DEF lookupVars
  <2> QED
    BY <2>1, <2>2, <2>3, Elsewhere DEF IInv, ChallengesOK
<1> QED
  BY <1>1, <1>2, <1>3, <1>4, <1>5, <1>6, TickOK DEF Next

LEMMA Invariance == ASSUME RowAssumption, RegistrationBounds PROVE Spec => []IInv
  BY InvInit, InvStep, PTL DEF Spec

-------------------------------------------------------------------------------
(* Theorems                                                                *)

\* Type correctness, for any number of calls, lookups, identities and keys.
THEOREM TypeCorrect == ASSUME RowAssumption, RegistrationBounds PROVE Spec => []TypeOK
<1>1. IInv => TypeOK
  BY DEF IInv
<1> QED
  BY Invariance, <1>1, PTL

\* Registrations at once make no two accounts of one identity or one address.
THEOREM Distinct == ASSUME RowAssumption, RegistrationBounds PROVE Spec => []AccountsDistinct
<1>1. IInv => AccountsDistinct
  BY DEF IInv
<1> QED
  BY Invariance, <1>1, PTL

\* A challenge is spent on one account, of what it was issued for.
THEOREM SpentOnOne ==
  ASSUME RowAssumption, RegistrationBounds
  PROVE  Spec => []ChallengeSpentOnce
<1>1. IInv => ChallengeSpentOnce
  BY DEF IInv
<1> QED
  BY Invariance, <1>1, PTL

\* An answer names an account made for its own request.
THEOREM AnswersOwn == ASSUME RowAssumption, RegistrationBounds PROVE Spec => []AnswersOwnAccount
<1>1. IInv => AnswersOwnAccount
  BY DEF IInv
<1> QED
  BY Invariance, <1>1, PTL

-------------------------------------------------------------------------------
(* The ledger                                                              *)

\* What the ledger sees of an issued challenge.
Entry(c) == [challenge |-> c, nid |-> challenge[c].nid, email |-> challenge[c].email]

Opened == {Entry(c) : c \in Issued}

\* Steps that neither issue nor spend a challenge show the ledger nothing.
LEMMA Unseen ==
  ASSUME UNCHANGED <<challenge, accounts>> PROVE UNCHANGED <<Opened, accounts>>
  BY DEF Opened, Entry, Issued, Unopened

LEMMA LedgerStep ==
  ASSUME RowAssumption, RegistrationBounds, IInv, [Next]_vars
  PROVE  \/ UNCHANGED <<Opened, accounts>>
         \/ \E c \in Challenge, n \in Nid, e \in Email :
              /\ \A o \in Opened : o.challenge # c
              /\ Opened' = Opened \cup {[challenge |-> c, nid |-> n, email |-> e]}
              /\ UNCHANGED accounts
         \/ \E o \in Opened :
              /\ \A a \in accounts : a.challenge # o.challenge /\ a.nid # o.nid
                                     /\ a.email # o.email
              /\ accounts' = accounts \cup {o}
              /\ UNCHANGED Opened
<1>1. CASE UNCHANGED <<challenge, accounts>>
  BY <1>1, Unseen
<1>2. CASE \E l \in Lookup, c \in Challenge : CreateChallenge(l, c)
  <2>1. PICK l \in Lookup, c \in Challenge : CreateChallenge(l, c)
    BY <1>2
  <2>2. /\ looking[l] = "create" /\ c \in Unopened /\ UNCHANGED accounts
        /\ challenge' = [challenge EXCEPT ![c] =
             [status |-> "PENDING", nid |-> subject[l].nid, email |-> subject[l].email,
              expiresAt |-> subject[l].expiresAt, attempts |-> 0]]
    BY <2>1 DEF CreateChallenge
  <2>3. subject[l].nid \in Nid /\ subject[l].email \in Email
    BY <2>2 DEF IInv, ChallengesOK
  <2>4. /\ challenge'[c].status = "PENDING" /\ challenge'[c].nid = subject[l].nid
        /\ challenge'[c].email = subject[l].email
        /\ \A d \in Challenge \ {c} : challenge'[d] = challenge[d]
    BY <2>2, Types DEF IInv
  <2>5. c \notin Issued /\ Issued' = Issued \cup {c}
    <3>1. \A d \in Challenge :
            challenge'[d].status = "none" <=> d # c /\ challenge[d].status = "none"
      BY <2>4
    <3> QED
      BY <2>2, <3>1 DEF Issued, Unopened
  <2>6. \A d \in Issued : Entry(d)' = Entry(d)
    BY <2>4, <2>5 DEF Entry, Issued
  <2>7. Entry(c)' = [challenge |-> c, nid |-> subject[l].nid, email |-> subject[l].email]
    BY <2>4 DEF Entry
  <2>8. Opened' = Opened \cup
          {[challenge |-> c, nid |-> subject[l].nid, email |-> subject[l].email]}
    BY <2>5, <2>6, <2>7 DEF Opened
  <2>9. \A o \in Opened : o.challenge # c
    BY <2>5 DEF Opened, Entry
  <2> QED
    BY <2>2, <2>3, <2>8, <2>9
<1>3. CASE \E p \in Request : Commit(p)
  <2>1. PICK p \in Request : Commit(p)
    BY <1>3
  <2> DEFINE c == call[p].content.challenge
  <2>2. /\ pc[p] = "commit" /\ Consume(p) /\ accounts' = accounts \cup {NewAccount(p)}
    BY <2>1 DEF Commit
  <2>3. /\ c \in Issued /\ c \in Challenge /\ Asked(p) = challenge[c]
    BY <2>2, AtWork
  <2>4. /\ challenge[c].status = "PENDING"
        /\ challenge'[c].nid = challenge[c].nid /\ challenge'[c].email = challenge[c].email
        /\ \A d \in Challenge \ {c} : challenge'[d] = challenge[d]
        /\ Issued' = Issued
    BY <2>2, Consumed
  <2>5. \A d \in Issued : Entry(d)' = Entry(d)
    BY <2>4 DEF Entry, Issued
  <2>6. Opened' = Opened
    BY <2>4, <2>5 DEF Opened
  <2>7. /\ Asked(p).email = call[p].content.email
        /\ \A a \in accounts : a.email # call[p].content.email /\ a.nid # Asked(p).nid
    BY <2>2 DEF IInv, RequestsOK, RequestOK, HasEmail
  <2>8. NewAccount(p) = Entry(c)
    BY <2>3, <2>7 DEF NewAccount, Entry
  <2>9. /\ Entry(c).challenge = c /\ Entry(c).nid = Asked(p).nid
        /\ Entry(c).email = call[p].content.email
    BY <2>3, <2>7 DEF Entry
  <2>10. \A a \in accounts : a.challenge # c
    BY <2>4 DEF IInv, ChallengeSpentOnce
  <2>11. Entry(c) \in Opened
    BY <2>3 DEF Opened
  <2> QED
    BY <2>2, <2>6, <2>7, <2>8, <2>9, <2>10, <2>11
<1>4. \/ UNCHANGED <<challenge, accounts>>
      \/ \E l \in Lookup, c \in Challenge : CreateChallenge(l, c)
      \/ \E p \in Request : Commit(p)
  <2>1. ASSUME NEW l \in Lookup, LookupStep(l)
        PROVE  UNCHANGED <<challenge, accounts>> \/ \E c \in Challenge : CreateChallenge(l, c)
    BY <2>1 DEF LookupStep, ReadIdentity
  <2>2. ASSUME NEW l \in Lookup, NEW n \in Nid, NEW e \in Email, FindCitizen(l, n, e)
        PROVE  UNCHANGED <<challenge, accounts>>
    BY <2>2 DEF FindCitizen
  <2>3. ASSUME NEW p \in Request, RegisterStep(p)
        PROVE  UNCHANGED <<challenge, accounts>> \/ Commit(p)
    BY <2>3 DEF RegisterStep, ReadChallenge, HashPassword, InsertKey, RecordAttempt, ReadOwners,
       InsertUser, InsertIdentity, Rollback
  <2>4. ASSUME NEW p \in Request, Fail(p) PROVE UNCHANGED <<challenge, accounts>>
    BY <2>4 DEF Fail, Rollback
  <2>5. ASSUME NEW p \in Request, NEW k \in Key, NEW content \in Body, Register(p, k, content)
        PROVE  UNCHANGED <<challenge, accounts>>
    BY <2>5 DEF Register
  <2>6. Tick \/ UNCHANGED vars => UNCHANGED <<challenge, accounts>>
    BY DEF Tick, vars
  <2> QED
    BY <2>1, <2>2, <2>3, <2>4, <2>5, <2>6 DEF Next
<1> QED
  BY <1>1, <1>2, <1>3, <1>4

\* Registration implements the ledger: each of its steps opens a challenge, spends an
\* opened one on an account that shares nothing with the others, or shows nothing.
THEOREM LedgerRefinement ==
  ASSUME RowAssumption, RegistrationBounds PROVE Spec => ImplementsLedger
<1>1. Init => Ledger!LedgerInit
  BY DEF Init, Ledger!LedgerInit, Issued, Unopened, Unissued
<1>2. IInv /\ [Next]_vars => [Ledger!LedgerNext]_(Ledger!ledger)
  BY LedgerStep DEF Ledger!LedgerNext, Ledger!Open, Ledger!Spend, Ledger!ledger, Opened, Entry
<1> QED
  BY Invariance, <1>1, <1>2, PTL DEF Spec, ImplementsLedger, Ledger!LedgerSpec
=============================================================================
