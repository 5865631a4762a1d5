---------------------------- MODULE Registration ----------------------------
(***************************************************************************)
(* Citizen lookup and account registration.                                *)
(*                                                                         *)
(* CitizenLookupService.initiate opens a challenge for an identity and an  *)
(* e-mail address; RegistrationService.register spends it on an account,   *)
(* under an Idempotency-Key.  Registration is one READ COMMITTED           *)
(* transaction of several statements: an insert into a unique index waits  *)
(* for an uncommitted row with the same value, an update waits for the row *)
(* lock, and both then look at what was committed.  Reads before the       *)
(* transaction may be stale when it writes.                                *)
(*                                                                         *)
(* Lookups and registrations that are refused before they read or write a  *)
(* row (rate limits, the provider, a malformed token, missing consents)    *)
(* change nothing and are left out.                                        *)
(***************************************************************************)
EXTENDS Naturals, FiniteSets

CONSTANTS
  Request,      \* registration calls in flight
  Lookup,       \* citizen lookups in flight
  Nid, Email, Key,
  Challenge,    \* challenge rows (bound on lookups that succeed)
  MaxAttempts,  \* REGISTRATION_CHALLENGE_MAX_ATTEMPTS
  ChallengeTtl, \* REGISTRATION_CHALLENGE_TTL_SECONDS
  MaxClock,     \* bound on the clock
  Free,         \* no transaction owns the row
  None          \* no record, no account, no answer

\* What is asked of the constants; MCAccountFlows assumes it of its instance.
RowAssumption ==
  /\ Free \notin Request
  /\ None \notin Nid \cup Email \cup Challenge

RegistrationBounds ==
  MaxAttempts \in Nat \ {0} /\ ChallengeTtl \in Nat \ {0} /\ MaxClock \in Nat

VARIABLES
  challenge, \* RegistrationChallenge rows
  accounts,  \* User and CitizenIdentity rows, inserted together
  record,    \* IdempotencyRecord rows: the request's content and its account
  keyRow, challengeRow, emailRow, nidRow, \* uncommitted owners
  clock,
  pc, call,  \* what a registration call is doing and was asked
  now,       \* the time a call took before its transaction
  answer,    \* the account the last answer named, or None for a refusal
  looking, subject \* what a lookup is doing, and for whom

rowVars    == <<keyRow, challengeRow, emailRow, nidRow>>
lookupVars == <<looking, subject>>
vars == <<challenge, accounts, record, rowVars, clock, pc, call, now, answer,
          lookupVars>>

Time    == 0..MaxClock
Instant == 0..MaxClock + ChallengeTtl
Account == [challenge : Challenge, nid : Nid, email : Email]
Body == [challenge : Challenge, email : Email]
InTx    == {"insertKey", "recordAttempt", "readOwners", "insertUser",
            "insertIdentity", "commit"}

Unissued == [status |-> "none", nid |-> None, email |-> None, expiresAt |-> 0,
                attempts |-> 0]

TypeOK ==
  /\ challenge \in [Challenge -> [status : {"none", "PENDING", "CONSUMED"},
                                  nid : Nid \cup {None}, email : Email \cup {None},
                                  expiresAt : Instant, attempts : Nat]]
  /\ accounts \subseteq Account
  /\ record \in [Key -> {None} \cup [content : Body, account : Account]]
  /\ keyRow \in [Key -> Request \cup {Free}]
  /\ challengeRow \in [Challenge -> Request \cup {Free}]
  /\ emailRow \in [Email -> Request \cup {Free}]
  /\ nidRow \in [Nid -> Request \cup {Free}]
  /\ clock \in Time
  /\ pc \in [Request -> {"idle", "readChallenge", "hash"} \cup InTx]
  /\ call \in [Request -> {None} \cup [key : Key, content : Body]]
  /\ now \in [Request -> Time]
  /\ answer \in [Request -> Account \cup {None}]
  /\ looking \in [Lookup -> {"idle", "read", "create"}]
  /\ subject \in [Lookup -> {None} \cup [nid : Nid, email : Email, expiresAt : Instant]]

Init ==
  /\ challenge = [c \in Challenge |-> Unissued]
  /\ accounts = {}
  /\ record = [k \in Key |-> None]
  /\ keyRow = [k \in Key |-> Free]
  /\ challengeRow = [c \in Challenge |-> Free]
  /\ emailRow = [e \in Email |-> Free]
  /\ nidRow = [n \in Nid |-> Free]
  /\ clock = 0
  /\ pc = [p \in Request |-> "idle"]
  /\ call = [p \in Request |-> None]
  /\ now = [p \in Request |-> 0]
  /\ answer = [p \in Request |-> None]
  /\ looking = [l \in Lookup |-> "idle"]
  /\ subject = [l \in Lookup |-> None]

Goto(p, label) == pc' = [pc EXCEPT ![p] = label]

-----------------------------------------------------------------------------
(* CitizenLookupService.initiate                                           *)

Unopened == {c \in Challenge : challenge[c].status = "none"}

\* A token opens to a challenge that was created, and only then.
Issued == Challenge \ Unopened

\* Mutant of Expiry: a lifetime in seconds is added to milliseconds a thousandfold.
ScaledExpiry == clock + 1000 * ChallengeTtl

Expiry == clock + ChallengeTtl

\* The provider found an eligible citizen; the expiry is computed here.
FindCitizen(l, n, e) ==
  /\ looking[l] = "idle"
  /\ Cardinality({m \in Lookup : looking[m] # "idle"}) < Cardinality(Unopened)
  /\ looking' = [looking EXCEPT ![l] = "read"]
  /\ subject' = [subject EXCEPT ![l] =
       [nid |-> n, email |-> e, expiresAt |-> Expiry]]
  /\ UNCHANGED <<challenge, accounts, record, rowVars, clock, pc, call, now, answer>>

\* An identity that has an account gets no challenge.
ReadIdentity(l) ==
  /\ looking[l] = "read"
  /\ IF \E a \in accounts : a.nid = subject[l].nid
     THEN /\ looking' = [looking EXCEPT ![l] = "idle"]
          /\ subject' = [subject EXCEPT ![l] = None]
     ELSE /\ looking' = [looking EXCEPT ![l] = "create"]
          /\ UNCHANGED subject
  /\ UNCHANGED <<challenge, accounts, record, rowVars, clock, pc, call, now, answer>>

CreateChallenge(l, c) ==
  /\ looking[l] = "create"
  /\ c \in Unopened
  /\ challenge' = [challenge EXCEPT ![c] =
       [status |-> "PENDING", nid |-> subject[l].nid, email |-> subject[l].email,
        expiresAt |-> subject[l].expiresAt, attempts |-> 0]]
  /\ looking' = [looking EXCEPT ![l] = "idle"]
  /\ subject' = [subject EXCEPT ![l] = None]
  /\ UNCHANGED <<accounts, record, rowVars, clock, pc, call, now, answer>>

-----------------------------------------------------------------------------
(* RegistrationService.register                                            *)

\* The rows a call's transaction holds, given back.
FreeRows(p) ==
  /\ keyRow' = [k \in Key |-> IF keyRow[k] = p THEN Free ELSE keyRow[k]]
  /\ challengeRow' =
       [c \in Challenge |-> IF challengeRow[c] = p THEN Free ELSE challengeRow[c]]
  /\ emailRow' = [e \in Email |-> IF emailRow[e] = p THEN Free ELSE emailRow[e]]
  /\ nidRow' = [n \in Nid |-> IF nidRow[n] = p THEN Free ELSE nidRow[n]]

\* The call is answered: with an account, or refused (None).
Respond(p, a) ==
  /\ Goto(p, "idle")
  /\ answer' = [answer EXCEPT ![p] = a]
  /\ now' = [now EXCEPT ![p] = 0]

\* resolveIdempotentReplay: the same content gets the same account.
Replay(p, r, content) ==
  Respond(p, IF r.content = content THEN r.account ELSE None)

\* The token names an issued challenge.  The idempotency record is read before
\* the transaction.
Register(p, k, content) ==
  /\ pc[p] = "idle"
  /\ content.challenge \in Issued
  /\ call' = [call EXCEPT ![p] = [key |-> k, content |-> content]]
  /\ IF record[k] # None
     THEN Replay(p, record[k], content)
     ELSE /\ Goto(p, "readChallenge")
          /\ answer' = [answer EXCEPT ![p] = None]
          /\ UNCHANGED now
  /\ UNCHANGED <<challenge, accounts, record, rowVars, clock, lookupVars>>

Asked(p) == challenge[call[p].content.challenge]

ChallengeFits(p) ==
  /\ Asked(p).status = "PENDING"
  /\ clock < Asked(p).expiresAt
  /\ Asked(p).email = call[p].content.email

ReadChallenge(p) ==
  /\ pc[p] = "readChallenge"
  /\ IF ChallengeFits(p)
     THEN Goto(p, "hash") /\ UNCHANGED <<now, answer>>
     ELSE Respond(p, None)
  /\ UNCHANGED <<challenge, accounts, record, rowVars, clock, call, lookupVars>>

\* The rate limiter and the password policy may refuse; argon2 takes its time;
\* then the transaction's timestamp is taken.
HashPassword(p) ==
  /\ pc[p] = "hash"
  /\ \/ Respond(p, None)
     \/ Goto(p, "insertKey") /\ now' = [now EXCEPT ![p] = clock] /\ UNCHANGED answer
  /\ UNCHANGED <<challenge, accounts, record, rowVars, clock, call, lookupVars>>

\* An error rolls everything back, the counted attempt included.
Rollback(p) ==
  /\ Respond(p, None)
  /\ FreeRows(p)
  /\ UNCHANGED <<challenge, accounts, record, clock, call, lookupVars>>

InsertKey(p) ==
  LET k == call[p].key IN
  /\ pc[p] = "insertKey"
  /\ keyRow[k] = Free
  /\ \/ record[k] # None /\ Rollback(p)
     \/ /\ record[k] = None
        /\ keyRow' = [keyRow EXCEPT ![k] = p]
        /\ Goto(p, "recordAttempt")
        /\ UNCHANGED <<challenge, accounts, record, challengeRow, emailRow, nidRow,
                       clock, call, now, answer, lookupVars>>

Attemptable(p) ==
  /\ Asked(p).status = "PENDING"
  /\ now[p] < Asked(p).expiresAt
  /\ Asked(p).attempts < MaxAttempts

\* RegistrationChallengeLifecycleService.recordAttempt, by a conditional update.
RecordAttempt(p) ==
  LET c == call[p].content.challenge IN
  /\ pc[p] = "recordAttempt"
  /\ challengeRow[c] = Free
  /\ \/ ~Attemptable(p) /\ Rollback(p)
     \/ /\ Attemptable(p)
        /\ challengeRow' = [challengeRow EXCEPT ![c] = p]
        /\ Goto(p, "readOwners")
        /\ UNCHANGED <<challenge, accounts, record, keyRow, emailRow, nidRow, clock,
                       call, now, answer, lookupVars>>

\* The owners of the e-mail address and of the identity, read with the committed
\* rows of that moment.
ReadOwners(p) ==
  /\ pc[p] = "readOwners"
  /\ \/ /\ \E a \in accounts : a.email = call[p].content.email \/ a.nid = Asked(p).nid
        /\ Rollback(p)
     \/ /\ \A a \in accounts : a.email # call[p].content.email /\ a.nid # Asked(p).nid
        /\ Goto(p, "insertUser")
        /\ UNCHANGED <<challenge, accounts, record, rowVars, clock, call, now, answer,
                       lookupVars>>

\* Unique index on User.emailNormalized.
InsertUser(p) ==
  LET e == call[p].content.email IN
  /\ pc[p] = "insertUser"
  /\ emailRow[e] = Free
  /\ \/ (\E a \in accounts : a.email = e) /\ Rollback(p)
     \/ /\ \A a \in accounts : a.email # e
        /\ emailRow' = [emailRow EXCEPT ![e] = p]
        /\ Goto(p, "insertIdentity")
        /\ UNCHANGED <<challenge, accounts, record, keyRow, challengeRow, nidRow,
                       clock, call, now, answer, lookupVars>>

\* Mutant of InsertIdentity: the identity is not unique in the database.
InsertSharedIdentity(p) ==
  /\ pc[p] = "insertIdentity"
  /\ Goto(p, "commit")
  /\ UNCHANGED <<challenge, accounts, record, rowVars, clock, call, now, answer,
                 lookupVars>>

\* Unique index on CitizenIdentity.identifierLookupDigest.
InsertIdentity(p) ==
  LET n == Asked(p).nid IN
  /\ pc[p] = "insertIdentity"
  /\ nidRow[n] = Free
  /\ \/ (\E a \in accounts : a.nid = n) /\ Rollback(p)
     \/ /\ \A a \in accounts : a.nid # n
        /\ nidRow' = [nidRow EXCEPT ![n] = p]
        /\ Goto(p, "commit")
        /\ UNCHANGED <<challenge, accounts, record, keyRow, challengeRow, emailRow,
                       clock, call, now, answer, lookupVars>>

NewAccount(p) ==
  [challenge |-> call[p].content.challenge, nid |-> Asked(p).nid,
   email |-> call[p].content.email]

\* RegistrationChallengeLifecycleService.consume; it asks again for what
\* recordAttempt asked for, on a row the transaction owns since.
Consume(p) ==
  challenge' = [challenge EXCEPT ![call[p].content.challenge].status = "CONSUMED",
                                 ![call[p].content.challenge].attempts = @ + 1]

\* The remaining inserts, the challenge, the completed record, the commit.
Commit(p) ==
  /\ pc[p] = "commit"
  /\ Consume(p)
  /\ accounts' = accounts \cup {NewAccount(p)}
  /\ record' = [record EXCEPT ![call[p].key] =
       [content |-> call[p].content, account |-> NewAccount(p)]]
  /\ Respond(p, NewAccount(p))
  /\ FreeRows(p)
  /\ UNCHANGED <<clock, call, lookupVars>>

\* The process or the database connection is lost; so is the transaction.
Fail(p) ==
  /\ pc[p] # "idle"
  /\ Rollback(p)

Tick ==
  /\ clock < MaxClock
  /\ clock' = clock + 1
  /\ UNCHANGED <<challenge, accounts, record, rowVars, pc, call, now, answer,
                 lookupVars>>

LookupStep(l) ==
  \/ ReadIdentity(l)
  \/ \E c \in Challenge : CreateChallenge(l, c)

RegisterStep(p) ==
  \/ ReadChallenge(p) \/ HashPassword(p)
  \/ InsertKey(p) \/ RecordAttempt(p) \/ ReadOwners(p)
  \/ InsertUser(p) \/ InsertIdentity(p) \/ Commit(p)

Next ==
  \/ \E l \in Lookup : LookupStep(l) \/ \E n \in Nid, e \in Email : FindCitizen(l, n, e)
  \/ \E p \in Request :
       \/ RegisterStep(p) \/ Fail(p)
       \/ \E k \in Key, content \in Body : Register(p, k, content)
  \/ Tick

Spec == Init /\ [][Next]_vars

\* Calls that have started go on; a row waited for is had in the end.
FairSpec ==
  /\ Spec
  /\ \A l \in Lookup : WF_vars(LookupStep(l))
  /\ \A p \in Request : SF_vars(RegisterStep(p))

-----------------------------------------------------------------------------
(* Properties                                                              *)

\* Registrations that run at once, under any keys, never make two accounts of
\* one identity or one e-mail address (two reads and two unique indexes).
AccountsDistinct ==
  \A a, b \in accounts : a # b => a.email # b.email /\ a.nid # b.nid

\* A challenge is spent on one account of the identity and the address it was
\* issued for, and an account has spent a challenge: what register checked
\* before the transaction still holds when it commits.
ChallengeSpentOnce ==
  /\ \A a \in accounts :
       /\ challenge[a.challenge].status = "CONSUMED"
       /\ challenge[a.challenge].nid = a.nid /\ challenge[a.challenge].email = a.email
       /\ \A b \in accounts : b.challenge = a.challenge => b = a
  /\ \A c \in Challenge :
       challenge[c].status = "CONSUMED" => \E a \in accounts : a.challenge = c

\* No answer, first or replayed, names an account that was made for another
\* request.
AnswersOwnAccount ==
  \A p \in Request :
    answer[p] # None =>
      /\ answer[p] \in accounts
      /\ answer[p].challenge = call[p].content.challenge
      /\ answer[p].email = call[p].content.email

\* Registration implements the ledger of challenges and accounts.
Ledger == INSTANCE AccountLedger WITH
  opened <- {[challenge |-> c, nid |-> challenge[c].nid, email |-> challenge[c].email] :
             c \in Issued}

ImplementsLedger == Ledger!LedgerSpec
=============================================================================
