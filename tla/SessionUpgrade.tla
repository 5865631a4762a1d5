---------------------------- MODULE SessionUpgrade ----------------------------
(***************************************************************************)
(* The exchange of one limited session for a full one under an             *)
(* Idempotency-Key: SessionUpgradeGuard and SessionUpgradeService.upgrade. *)
(*                                                                         *)
(* An upgrade is one SERIALIZABLE transaction.  It sees the rows as they   *)
(* were at its first read; an insert waits for an uncommitted row with its *)
(* key and an update for the row lock, and either fails when what it       *)
(* waited for was committed.  Beside it run what else writes these rows:   *)
(* the rotation of the limited session's refresh token, logout, the end of *)
(* the full session, identity verification, and the deletion of expired    *)
(* records by the operational jobs.                                        *)
(***************************************************************************)
EXTENDS Naturals, FiniteSets

CONSTANTS
  Call,       \* upgrade calls in flight
  Rotator,    \* a rotation of the limited session's token
  Key,
  Content,    \* what requests differ in: the transport; all name the user's attempt
  Session,    \* full sessions (bound on upgrades)
  RecordTtl,  \* SESSION_UPGRADE_IDEMPOTENCY_TTL_SECONDS
  LimitedTtl, \* when the limited session expires
  MaxClock,   \* bound on the clock
  MaxVersion, \* bound on the limited session's writes
  Free, None

\* What is asked of the constants; MCAccountFlows assumes it of its instance.
SlotAssumption ==
  /\ Free \notin Call \cup {Rotator} /\ Rotator \notin Call
  /\ None \notin Session /\ IsFiniteSet(Session)

TimeAssumption ==
  RecordTtl \in Nat \ {0} /\ LimitedTtl \in Nat /\ MaxClock \in Nat /\ MaxVersion \in Nat

VARIABLES
  limited,  \* the limited session: status, version, whether a token of it is live
  full,     \* the full sessions: "none", "active", "ended"
  record,   \* IdempotencyRecord rows of the limited session's scope
  verified, passed, \* whether the user is VERIFIED, whether the attempt passed
  keyRow, limitedRow, \* uncommitted owners
  clock,
  pc, call, now, snap, target, \* what a call is doing, was asked, knows and makes
  answer,   \* the full session the last answer named
  made,     \* history: the request a full session was made for
  gone      \* history: the full sessions that had ended when a call began

rowVars   == <<keyRow, limitedRow>>
localVars == <<call, now, snap, target, answer, gone>>
vars == <<limited, full, record, verified, passed, rowVars, clock, pc, localVars, made>>

Ask  == [key : Key, content : Content]
Snap == [status : {"ACTIVE", "UPGRADED", "REVOKED"}, version : 0..MaxVersion + 1,
         verified : BOOLEAN, passed : BOOLEAN]
Unread == [status |-> "ACTIVE", version |-> 0, verified |-> FALSE, passed |-> FALSE]

TypeOK ==
  /\ limited \in [status : {"ACTIVE", "UPGRADED", "REVOKED"}, version : 0..MaxVersion + 1,
                  live : BOOLEAN]
  /\ full \in [Session -> {"none", "active", "ended"}]
  /\ record \in [Key -> {None} \cup [content : Content, session : Session,
                                     expiresAt : 0..MaxClock + RecordTtl]]
  /\ verified \in BOOLEAN /\ passed \in BOOLEAN
  /\ keyRow \in [Key -> Call \cup {Free}]
  /\ limitedRow \in Call \cup {Rotator, Free}
  /\ clock \in 0..MaxClock
  /\ pc \in [Call -> {"idle", "begin", "insertKey", "revoke", "commit", "check", "issue"}]
  /\ call \in [Call -> {None} \cup Ask]
  /\ now \in [Call -> 0..MaxClock]
  /\ snap \in [Call -> Snap]
  /\ target \in [Call -> Session \cup {None}]
  /\ answer \in [Call -> Session \cup {None}]
  /\ made \in [Session -> {None} \cup Ask]
  /\ gone \in [Call -> SUBSET Session]

Init ==
  /\ limited = [status |-> "ACTIVE", version |-> 0, live |-> TRUE]
  /\ full = [s \in Session |-> "none"]
  /\ record = [k \in Key |-> None]
  /\ verified = FALSE /\ passed = FALSE
  /\ keyRow = [k \in Key |-> Free]
  /\ limitedRow = Free
  /\ clock = 0
  /\ pc = [c \in Call |-> "idle"]
  /\ call = [c \in Call |-> None]
  /\ now = [c \in Call |-> 0]
  /\ snap = [c \in Call |-> Unread]
  /\ target = [c \in Call |-> None]
  /\ answer = [c \in Call |-> None]
  /\ made = [s \in Session |-> None]
  /\ gone = [c \in Call |-> {}]

Goto(c, label) == pc' = [pc EXCEPT ![c] = label]

\* The call ends with an answer or without one (None); its rows are given back.
Respond(c, s) ==
  /\ Goto(c, "idle")
  /\ answer' = [answer EXCEPT ![c] = s]
  /\ target' = [target EXCEPT ![c] = None]
  /\ now' = [now EXCEPT ![c] = 0]
  /\ snap' = [snap EXCEPT ![c] = Unread]
  /\ call' = [call EXCEPT ![c] = IF s = None THEN None ELSE @]
  /\ gone' = [gone EXCEPT ![c] = {}]
  /\ keyRow' = [k \in Key |-> IF keyRow[k] = c THEN Free ELSE keyRow[k]]
  /\ limitedRow' = IF limitedRow = c THEN Free ELSE limitedRow

Refuse(c) ==
  /\ Respond(c, None)
  /\ UNCHANGED <<limited, full, record, verified, passed, clock, made>>

------------------------------------------------------------------------------
(* An upgrade                                                              *)

\* SessionUpgradeGuard: the session may have been replaced by an upgrade already,
\* so that a retry gets through.
Admitted == limited.status \in {"ACTIVE", "UPGRADED"} /\ clock < LimitedTtl

Upgrade(c, k, content) ==
  /\ pc[c] = "idle"
  /\ Admitted
  /\ call' = [call EXCEPT ![c] = [key |-> k, content |-> content]]
  /\ now' = [now EXCEPT ![c] = clock]
  /\ answer' = [answer EXCEPT ![c] = None]
  /\ gone' = [gone EXCEPT ![c] = {s \in Session : full[s] = "ended"}]
  /\ Goto(c, "begin")
  /\ UNCHANGED <<limited, full, record, verified, passed, rowVars, clock, snap, target, made>>

Found(c) == record[call[c].key]

\* The record is of the same request, and it has not expired.
Replayable(c) == Found(c).content = call[c].content /\ now[c] < Found(c).expiresAt

\* The first read of the transaction: a record is replayed or refused; without one
\* the rows are as they are now.
Begin(c) ==
  /\ pc[c] = "begin"
  /\ \/ /\ Found(c) # None /\ Replayable(c)
        /\ target' = [target EXCEPT ![c] = Found(c).session]
        /\ Goto(c, "check")
        /\ UNCHANGED <<limited, full, record, verified, passed, rowVars, clock, call, now,
                       snap, answer, gone, made>>
     \/ Found(c) # None /\ ~Replayable(c) /\ Refuse(c)
     \/ /\ Found(c) = None
        /\ snap' = [snap EXCEPT ![c] = [status |-> limited.status,
             version |-> limited.version, verified |-> verified, passed |-> passed]]
        /\ Goto(c, "insertKey")
        /\ UNCHANGED <<limited, full, record, verified, passed, rowVars, clock, call, now,
                       target, answer, gone, made>>

\* The limited session, the user and the attempt, as the transaction sees them.
Eligible(c) ==
  /\ snap[c].status = "ACTIVE" /\ now[c] < LimitedTtl
  /\ snap[c].verified /\ snap[c].passed

\* The unique index of scope and key; then the reads.
InsertKey(c) ==
  LET k == call[c].key IN
  /\ pc[c] = "insertKey"
  /\ keyRow[k] = Free
  /\ \/ (Found(c) # None \/ ~Eligible(c)) /\ Refuse(c)
     \/ /\ Found(c) = None /\ Eligible(c)
        /\ keyRow' = [keyRow EXCEPT ![k] = c]
        /\ Goto(c, "revoke")
        /\ UNCHANGED <<limited, full, record, verified, passed, limitedRow, clock, localVars,
                       made>>

\* The limited session was not written since the transaction's first read.
Unwritten(c) == limited.version = snap[c].version

\* The conditional update of the limited session.
Revoke(c) ==
  /\ pc[c] = "revoke"
  /\ limitedRow = Free
  /\ \/ ~Unwritten(c) /\ Refuse(c)
     \/ /\ Unwritten(c)
        /\ limitedRow' = c
        /\ Goto(c, "commit")
        /\ UNCHANGED <<limited, full, record, verified, passed, keyRow, clock, localVars, made>>

RecordExpiry(c) == now[c] + RecordTtl

\* The tokens of the limited session, the full session with its token, the event and
\* the sealed result; the commit.
Commit(c) ==
  LET s == CHOOSE t \in Session : full[t] = "none" IN
    /\ pc[c] = "commit" /\ \E t \in Session : full[t] = "none"
    /\ limited' = [status |-> "UPGRADED", version |-> limited.version + 1, live |-> FALSE]
    /\ full' = [full EXCEPT ![s] = "active"]
    /\ made' = [made EXCEPT ![s] = call[c]]
    /\ record' = [record EXCEPT ![call[c].key] =
         [content |-> call[c].content, session |-> s, expiresAt |-> RecordExpiry(c)]]
    /\ keyRow' = [k \in Key |-> IF keyRow[k] = c THEN Free ELSE keyRow[k]]
    /\ limitedRow' = IF limitedRow = c THEN Free ELSE limitedRow
    /\ target' = [target EXCEPT ![c] = s]
    /\ Goto(c, "check")
    /\ UNCHANGED <<verified, passed, clock, call, now, snap, answer, gone>>

\* Mutant of Check: a replayed result is returned without a look at its session.
CheckNothing(c) ==
  /\ pc[c] = "check"
  /\ Goto(c, "issue")
  /\ UNCHANGED <<limited, full, record, verified, passed, rowVars, clock, localVars, made>>

\* After the transaction: the full session must be active.
Check(c) ==
  /\ pc[c] = "check"
  /\ \/ full[target[c]] # "active" /\ Refuse(c)
     \/ /\ full[target[c]] = "active"
        /\ Goto(c, "issue")
        /\ UNCHANGED <<limited, full, record, verified, passed, rowVars, clock, localVars, made>>

\* The access token; the refresh token is the one the session was made with.
Issue(c) ==
  /\ pc[c] = "issue"
  /\ Respond(c, target[c])
  /\ UNCHANGED <<limited, full, record, verified, passed, clock, made>>

\* An error, a serialization failure, a crash, wherever the call stands.
Fail(c) == pc[c] # "idle" /\ Refuse(c)

------------------------------------------------------------------------------
(* The others                                                              *)

\* AuthenticationService.refresh writes the session first; an ended one stops it.
RotateLimited ==
  /\ limitedRow = Free
  /\ limited.status = "ACTIVE" /\ limited.version < MaxVersion
  /\ limitedRow' = Rotator
  /\ UNCHANGED <<limited, full, record, verified, passed, keyRow, clock, pc, localVars, made>>

CommitRotation ==
  /\ limitedRow = Rotator
  /\ limited' = [limited EXCEPT !.version = @ + 1, !.live = TRUE]
  /\ limitedRow' = Free
  /\ UNCHANGED <<full, record, verified, passed, keyRow, clock, pc, localVars, made>>

\* SessionManagementService.revoke, of a session that is active.
Logout ==
  /\ limitedRow = Free
  /\ limited.status = "ACTIVE" /\ limited.version < MaxVersion
  /\ limited' = [status |-> "REVOKED", version |-> limited.version + 1, live |-> FALSE]
  /\ UNCHANGED <<full, record, verified, passed, rowVars, clock, pc, localVars, made>>

EndFull(s) ==
  /\ full[s] = "active"
  /\ full' = [full EXCEPT ![s] = "ended"]
  /\ UNCHANGED <<limited, record, verified, passed, rowVars, clock, pc, localVars, made>>

\* The attempt passes; another may take the state away again (IdentityVerification).
Decide ==
  /\ \/ ~passed /\ passed' = TRUE /\ verified' = TRUE
     \/ verified' = FALSE /\ UNCHANGED passed
  /\ UNCHANGED <<limited, full, record, rowVars, clock, pc, localVars, made>>

\* OperationalJobsService deletes an expired record.
Purge(k) ==
  /\ record[k] # None /\ record[k].expiresAt <= clock
  /\ record' = [record EXCEPT ![k] = None]
  /\ UNCHANGED <<limited, full, verified, passed, rowVars, clock, pc, localVars, made>>

Tick ==
  /\ clock < MaxClock
  /\ clock' = clock + 1
  /\ UNCHANGED <<limited, full, record, verified, passed, rowVars, pc, localVars, made>>

Step(c) ==
  \/ Begin(c) \/ InsertKey(c) \/ Revoke(c) \/ Commit(c) \/ Check(c) \/ Issue(c)

Next ==
  \/ \E c \in Call :
       \/ Step(c) \/ Fail(c)
       \/ \E k \in Key, content \in Content : Upgrade(c, k, content)
  \/ RotateLimited \/ CommitRotation \/ Logout
  \/ \E s \in Session : EndFull(s)
  \/ Decide \/ (\E k \in Key : Purge(k)) \/ Tick

Spec == Init /\ [][Next]_vars

\* Started calls go on; the rotation's transaction ends.
FairSpec == Spec /\ WF_vars(CommitRotation) /\ \A c \in Call : SF_vars(Step(c))

------------------------------------------------------------------------------
(* Properties                                                              *)

\* Whatever keys are used, at once or after records were deleted, the limited
\* session is exchanged for one full session or none, and never after it ended
\* another way.
OneExchange ==
  LET Made == {s \in Session : full[s] # "none"} IN
  Cardinality(Made) = IF limited.status = "UPGRADED" THEN 1 ELSE 0

\* An ended limited session keeps no live token, though a rotation that inserts one
\* may run beside the upgrade.
LimitedIsBarren == limited.status # "ACTIVE" => ~limited.live

\* An answer, first or replayed, names the session that was made for the same key
\* and the same content.
AnswersOwnRequest == \A c \in Call : answer[c] # None => made[answer[c]] = call[c]

\* No answer names a full session that had ended before the request was made.
NoDeadAnswer ==
  [][\A c \in Call : answer'[c] # answer[c] /\ answer'[c] # None
       => answer'[c] \notin gone[c]]_vars
==============================================================================
