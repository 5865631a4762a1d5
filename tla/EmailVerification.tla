--------------------------- MODULE EmailVerification ---------------------------
(***************************************************************************)
(* Verification of an account's e-mail address: EmailVerificationService   *)
(* verify and resend, over the account and the tokens mailed to it.        *)
(*                                                                         *)
(* Both run READ COMMITTED transactions: an update fixes the rows it means *)
(* when it starts, waits for those another transaction has written, asks   *)
(* its condition again and shows its effect at the commit.  Resend reads   *)
(* the account before its transaction.  A resend that its rate limit       *)
(* refuses changes nothing and is left out, and so is the deletion of      *)
(* tokens long past their expiry.                                          *)
(***************************************************************************)
EXTENDS Naturals, FiniteSets

CONSTANTS
  Call,     \* verify and resend calls in flight
  Token,    \* EmailVerificationToken rows of the account (bound on resends)
  First,    \* the token registration created with the account
  TokenTtl, \* EMAIL_TOKEN_TTL_SECONDS
  MaxClock, \* bound on the clock
  Free,     \* no transaction owns the row
  NoToken

\* What is asked of the constants; MCAccountFlows assumes it of its instance.
SlotAssumption ==
  /\ Free \notin Call /\ NoToken \notin Token
  /\ First \in Token /\ IsFiniteSet(Token)

TimeAssumption == TokenTtl \in Nat \ {0} /\ MaxClock \in Nat

VARIABLES
  tokens,    \* committed rows
  account,   \* [status, version], and the WELCOME_NEXT_STEP events for it
  tokenRow, accountRow, \* uncommitted owners
  clock,
  pc, now, target, todo, \* locals of a call; target is the token it was given or makes
  older      \* history: the tokens a resend's update meant to supersede

rowVars   == <<tokenRow, accountRow>>
localVars == <<now, target, todo, older>>
vars == <<tokens, account, rowVars, clock, pc, localVars>>

Instant == 0..MaxClock + TokenTtl
InTx    == {"consume", "activate", "activated", "supersede", "lock", "create"}

TypeOK ==
  /\ tokens \in [Token -> [made : BOOLEAN, used : BOOLEAN, superseded : BOOLEAN,
                           expiresAt : Instant]]
  /\ account \in [status : {"PENDING_EMAIL_VERIFICATION", "ACTIVE"}, version : Nat,
                  welcomes : Nat]
  /\ tokenRow \in [Token -> Call \cup {Free}]
  /\ accountRow \in Call \cup {Free}
  /\ clock \in 0..MaxClock
  /\ pc \in [Call -> {"idle", "read", "readUser"} \cup InTx]
  /\ now \in [Call -> 0..MaxClock]
  /\ target \in [Call -> Token \cup {NoToken}]
  /\ todo \in [Call -> SUBSET Token]
  /\ older \in [Call -> SUBSET Token]

\* The account as registration left it.
Init ==
  /\ tokens = [t \in Token |-> [made |-> t = First, used |-> FALSE, superseded |-> FALSE,
                                expiresAt |-> IF t = First THEN TokenTtl ELSE 0]]
  /\ account = [status |-> "PENDING_EMAIL_VERIFICATION", version |-> 0, welcomes |-> 0]
  /\ tokenRow = [t \in Token |-> Free]
  /\ accountRow = Free
  /\ clock = 0
  /\ pc = [c \in Call |-> "idle"]
  /\ now = [c \in Call |-> 0]
  /\ target = [c \in Call |-> NoToken]
  /\ todo = [c \in Call |-> {}]
  /\ older = [c \in Call |-> {}]

Goto(c, label) == pc' = [pc EXCEPT ![c] = label]

Pending == account.status = "PENDING_EMAIL_VERIFICATION"

\* Unused, not superseded and unexpired at a time.
Usable(t, at) ==
  /\ tokens[t].made /\ ~tokens[t].used /\ ~tokens[t].superseded
  /\ at < tokens[t].expiresAt

Held(c) == {t \in Token : tokenRow[t] = c}

\* The call ends, whatever it answers; its rows are given back.
Finish(c) ==
  /\ Goto(c, "idle")
  /\ tokenRow' = [t \in Token |-> IF tokenRow[t] = c THEN Free ELSE tokenRow[t]]
  /\ accountRow' = IF accountRow = c THEN Free ELSE accountRow
  /\ now' = [now EXCEPT ![c] = 0]
  /\ target' = [target EXCEPT ![c] = NoToken]
  /\ todo' = [todo EXCEPT ![c] = {}]
  /\ older' = [older EXCEPT ![c] = {}]

\* Nothing the transaction wrote remains.
Rollback(c) == Finish(c) /\ UNCHANGED <<tokens, account, clock>>

------------------------------------------------------------------------------
(* verify                                                                  *)

\* The token was mailed, so it was committed.
Verify(c, t) ==
  /\ pc[c] = "idle" /\ tokens[t].made
  /\ now' = [now EXCEPT ![c] = clock]
  /\ target' = [target EXCEPT ![c] = t]
  /\ Goto(c, "read")
  /\ UNCHANGED <<tokens, account, rowVars, clock, todo, older>>

ReadToken(c) ==
  /\ pc[c] = "read"
  /\ \/ ~Usable(target[c], now[c]) /\ Rollback(c)
     \/ /\ Usable(target[c], now[c])
        /\ Goto(c, "consume")
        /\ UNCHANGED <<tokens, account, rowVars, clock, localVars>>

\* Conditional on what the read had seen, asked again once the row is free.
Consume(c) ==
  /\ pc[c] = "consume"
  /\ tokenRow[target[c]] = Free
  /\ \/ ~Usable(target[c], now[c]) /\ Rollback(c)
     \/ /\ Usable(target[c], now[c])
        /\ tokenRow' = [tokenRow EXCEPT ![target[c]] = c]
        /\ Goto(c, "activate")
        /\ UNCHANGED <<tokens, account, accountRow, clock, localVars>>

\* Mutant of Activate: the update does not ask for a pending account.
ActivateAnyway(c) ==
  /\ pc[c] = "activate"
  /\ accountRow = Free
  /\ accountRow' = c
  /\ Goto(c, "activated")
  /\ UNCHANGED <<tokens, account, tokenRow, clock, localVars>>

\* Only a pending account is activated; otherwise the token is not consumed.
Activate(c) ==
  /\ pc[c] = "activate"
  /\ accountRow = Free
  /\ \/ ~Pending /\ Rollback(c)
     \/ /\ Pending
        /\ accountRow' = c
        /\ Goto(c, "activated")
        /\ UNCHANGED <<tokens, account, tokenRow, clock, localVars>>

\* The security event, the welcome event, the commit.
CommitVerify(c) ==
  /\ pc[c] = "activated"
  /\ tokens' = [tokens EXCEPT ![target[c]].used = TRUE]
  /\ account' = [status |-> "ACTIVE", version |-> account.version + 1,
                 welcomes |-> account.welcomes + 1]
  /\ Finish(c)
  /\ UNCHANGED clock

------------------------------------------------------------------------------
(* resend                                                                  *)

\* A token of its own awaits every call.
Unmade == {t \in Token : ~tokens[t].made /\ \A c \in Call : target[c] # t}

\* The rate limits admitted the call.
Resend(c) ==
  /\ pc[c] = "idle"
  /\ Cardinality({d \in Call : pc[d] = "readUser"}) < Cardinality(Unmade)
  /\ Goto(c, "readUser")
  /\ UNCHANGED <<tokens, account, rowVars, clock, localVars>>

ReadUser(c) ==
  /\ pc[c] = "readUser"
  /\ \/ ~Pending /\ Rollback(c)
     \/ /\ Pending /\ Unmade # {}
        /\ target' = [target EXCEPT ![c] = CHOOSE t \in Unmade : TRUE]
        /\ now' = [now EXCEPT ![c] = clock]
        /\ Goto(c, "supersede")
        /\ UNCHANGED <<tokens, account, rowVars, clock, todo, older>>

\* The update starts: these are the rows it means.
StartSupersede(c) ==
  /\ pc[c] = "supersede"
  /\ todo' = [todo EXCEPT ![c] = {t \in Token : Usable(t, now[c])}]
  /\ older' = [older EXCEPT ![c] = {t \in Token : Usable(t, now[c])}]
  /\ Goto(c, "lock")
  /\ UNCHANGED <<tokens, account, rowVars, clock, now, target>>

\* Mutant of LockToken: rows that another transaction owns are skipped.
LockTokenSkipping(c, t) ==
  /\ pc[c] = "lock" /\ t \in todo[c]
  /\ todo' = [todo EXCEPT ![c] = @ \ {t}]
  /\ tokenRow' = [tokenRow EXCEPT ![t] = IF @ = Free /\ Usable(t, now[c]) THEN c ELSE @]
  /\ UNCHANGED <<tokens, account, accountRow, clock, pc, now, target, older>>

\* A row is had; it is left alone when its token was consumed or superseded meanwhile.
LockToken(c, t) ==
  /\ pc[c] = "lock" /\ t \in todo[c]
  /\ tokenRow[t] = Free
  /\ todo' = [todo EXCEPT ![c] = @ \ {t}]
  /\ tokenRow' = [tokenRow EXCEPT ![t] = IF Usable(t, now[c]) THEN c ELSE Free]
  /\ UNCHANGED <<tokens, account, accountRow, clock, pc, now, target, older>>

Superseded(c) ==
  /\ pc[c] = "lock" /\ todo[c] = {}
  /\ Goto(c, "create")
  /\ UNCHANGED <<tokens, account, rowVars, clock, localVars>>

Expiry(c) == now[c] + TokenTtl

\* The new token, its mail and the event; the commit.
CommitResend(c) ==
  /\ pc[c] = "create"
  /\ tokens' = [t \in Token |->
       IF t = target[c]
       THEN [made |-> TRUE, used |-> FALSE, superseded |-> FALSE,
             expiresAt |-> Expiry(c)]
       ELSE IF t \in Held(c) THEN [tokens[t] EXCEPT !.superseded = TRUE]
       ELSE tokens[t]]
  /\ Finish(c)
  /\ UNCHANGED <<account, clock>>

------------------------------------------------------------------------------
(* Failures and time                                                       *)

\* A call waits for a row: for the token it consumes, for the account, or for any
\* of the tokens its update still means.
WaitsFor(c, d) ==
  \/ pc[c] = "consume" /\ tokenRow[target[c]] = d
  \/ pc[c] = "activate" /\ accountRow = d
  \/ pc[c] = "lock" /\ \E t \in todo[c] : tokenRow[t] = d

\* Mutant of Deadlocked: nobody looks for circles.
NeverDeadlocked(c) == FALSE

\* Calls that wait in a circle, two at a time.
Deadlocked(c) == \E d \in Call : c # d /\ WaitsFor(c, d) /\ WaitsFor(d, c)

\* PostgreSQL ends one of the transactions.
EndDeadlock(c) == Deadlocked(c) /\ Rollback(c)

\* The process or the connection is lost, and the transaction with it.
Fail(c) == pc[c] # "idle" /\ Rollback(c)

Tick ==
  /\ clock < MaxClock
  /\ clock' = clock + 1
  /\ UNCHANGED <<tokens, account, rowVars, pc, localVars>>

Step(c) ==
  \/ ReadToken(c) \/ Consume(c) \/ Activate(c) \/ CommitVerify(c)
  \/ ReadUser(c) \/ StartSupersede(c) \/ (\E t \in Token : LockToken(c, t))
  \/ Superseded(c) \/ CommitResend(c)
  \/ EndDeadlock(c)

Next ==
  \/ \E c \in Call :
       \/ Step(c) \/ Fail(c) \/ Resend(c)
       \/ \E t \in Token : Verify(c, t)
  \/ Tick

Spec == Init /\ [][Next]_vars

\* Started calls go on, and a row that is given back again and again is had.
FairSpec == Spec /\ \A c \in Call : SF_vars(Step(c))

------------------------------------------------------------------------------
(* Properties                                                              *)

\* However many tokens are live and however many calls present them, the account
\* is activated once, by one token, and welcomed once: a call whose token was good
\* finds the account activated and gives the token back.
ActivatedOnce ==
  LET n == IF Pending THEN 0 ELSE 1 IN
  /\ account.version = n /\ account.welcomes = n
  /\ Cardinality({t \in Token : tokens[t].used}) = n

\* A token is consumed or superseded, never both, whichever of a verification and
\* a resend waited for the other.
ConsumedOrSuperseded == \A t \in Token : ~(tokens[t].used /\ tokens[t].superseded)

\* When a resend commits, no token it found live is live any more, though a
\* token another resend committed meanwhile may be.
OlderTokensEnd ==
  [][\A c \in Call :
       pc[c] = "create" /\ ~tokens[target[c]].made /\ tokens'[target[c]].made
         => \A t \in older[c] : tokens'[t].used \/ tokens'[t].superseded]_vars
==============================================================================
