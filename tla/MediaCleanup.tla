----------------------------- MODULE MediaCleanup -----------------------------
(***************************************************************************)
(* The life of verification media: objects in the private bucket, the rows *)
(* that track them, and what deletes them.                                 *)
(*                                                                         *)
(* A client uploads an object under a policy and confirms it, which makes  *)
(* its row (IdentityVerificationService, VerificationStorageService).      *)
(* VerificationCleanupService deletes media when its attempt is decided,   *)
(* when it has expired, and objects no row tracks; OperationalJobsService  *)
(* expires stale attempts and their media with them.                       *)
(*                                                                         *)
(* The Redis leases of the jobs lower how many passes run at once; they    *)
(* may end before a pass does, so the passes that delete media run beside  *)
(* each other here and no lease is modelled.  There is one pass of the     *)
(* reconciliation at a time: a second one, on another replica after the    *)
(* lease lapsed, is left out.  Deadlines, backoff delays and the orphan    *)
(* grace are events that come in the end.  Each object is the document of  *)
(* an attempt of its own.                                                  *)
(***************************************************************************)
EXTENDS Naturals, FiniteSets, FiniteSetsExt

CONSTANTS
  Object,     \* object keys, in the order the bucket lists them
  Legacy,     \* objects whose row an earlier version wrote, without a digest
  Worker,     \* jobs that delete expired media
  Request,    \* the request that decided an attempt and deletes its media
  Batch       \* OPERATIONAL_JOB_BATCH_SIZE

\* What is asked of the constants; MCBackground assumes it of its instance.
ObjectAssumption ==
  Object \subseteq Nat \ {0} /\ IsFiniteSet(Object) /\ Legacy \subseteq Object

BatchAssumption == Batch \in Nat \ {0}

Pass == Worker \cup {Request}

VARIABLES
  stored,  \* objects in the bucket
  old,     \* stored objects older than the orphan grace
  policy,  \* objects with an upload policy that is still valid
  row,     \* verification_media: "none", "kept", "deleted"
  digest,  \* the reference digest of the row: "absent", "present", or "unreadable" when
           \* it is absent and the key it is made of can no longer be opened
  due,     \* kept rows past expiresAt and nextDeletionAttemptAt
  hold,    \* kept rows under a legal hold
  attempt, \* status of the object's attempt: "open", "REVIEW_REQUIRED", "closed"
  confirming, \* an upload being confirmed: the object and the step
  decided, \* objects of decided attempts whose media the request has not selected yet
  todo,    \* media a pass has selected
  gone,    \* media a pass has deleted the object of
  page, cursor, known, complete, \* a reconciliation pass: old objects listed, where the
           \* next page starts, tracked objects found, whether all legacy rows were read
  step,    \* where the reconciliation pass is
  erased,  \* history: objects that were deleted from the bucket
  rowed,   \* history: objects that had a row when the reconciliation pass listed
  safe     \* history: stored objects that came under a hold or review while no pass
           \* was about to delete them

client     == <<stored, old, policy, confirming>>
rows       == <<row, digest, due, hold, attempt>>
passes     == <<decided, todo, gone>>
reconciler == <<page, cursor, known, complete, step>>
history    == <<erased, rowed, safe>>
vars == <<client, rows, passes, reconciler, history>>

Idle == [object |-> 0, step |-> "idle"]

TypeOK ==
  /\ stored \subseteq Object /\ old \subseteq stored /\ policy \subseteq Object
  /\ row \in [Object -> {"none", "kept", "deleted"}]
  /\ digest \in [Object -> {"absent", "present", "unreadable"}]
  /\ due \cup hold \subseteq {o \in Object : row[o] = "kept"}
  /\ attempt \in [Object -> {"open", "REVIEW_REQUIRED", "closed"}]
  /\ confirming \in [object : Object \cup {0}, step : {"idle", "head", "create"}]
  /\ decided \subseteq Object
  /\ todo \in [Pass -> SUBSET Object] /\ gone \in [Pass -> SUBSET Object]
  /\ page \subseteq Object /\ known \subseteq Object
  /\ cursor \in Object \cup {0}
  /\ complete \in BOOLEAN
  /\ step \in {"idle", "legacy", "tracked", "delete"}
  /\ erased \subseteq Object /\ rowed \subseteq Object /\ safe \subseteq Object

\* Attempts that are open, and media of closed attempts that an earlier version left.
Init ==
  /\ stored = Legacy /\ old = Legacy
  /\ policy = Object \ Legacy
  /\ row = [o \in Object |-> IF o \in Legacy THEN "kept" ELSE "none"]
  /\ \E sealed \in SUBSET Legacy :
       digest = [o \in Object |-> IF o \in sealed THEN "unreadable" ELSE "absent"]
  /\ due = Legacy /\ hold = {}
  /\ attempt = [o \in Object |-> IF o \in Legacy THEN "closed" ELSE "open"]
  /\ confirming = Idle
  /\ decided = {} /\ todo = [w \in Pass |-> {}] /\ gone = [w \in Pass |-> {}]
  /\ page = {} /\ cursor = 0 /\ known = {} /\ complete = FALSE /\ step = "idle"
  /\ erased = {} /\ rowed = {} /\ safe = {}

-------------------------------------------------------------------------------
(* Upload, confirmation and decision                                       *)

\* The policy binds key and content; it may be used again until it ends.
Upload(o) ==
  /\ o \in policy
  /\ stored' = stored \cup {o}
  /\ UNCHANGED <<old, policy, confirming, rows, passes, reconciler, history>>

EndPolicy(o) ==
  /\ o \in policy
  /\ policy' = policy \ {o}
  /\ UNCHANGED <<stored, old, confirming, rows, passes, reconciler, history>>

\* The grace is longer than the life of a policy, as it is by default.
Age(o) ==
  /\ o \in stored \ (old \cup policy)
  /\ old' = old \cup {o}
  /\ UNCHANGED <<stored, policy, confirming, rows, passes, reconciler, history>>

\* The attempt must be open.
ConfirmUpload(o) ==
  /\ confirming = Idle
  /\ attempt[o] = "open" /\ row[o] = "none"
  /\ confirming' = [object |-> o, step |-> "head"]
  /\ UNCHANGED <<stored, old, policy, rows, passes, reconciler, history>>

\* The object must be there; then the row is made.
HeadObject ==
  /\ confirming.step = "head"
  /\ confirming' = IF confirming.object \in stored
                   THEN [confirming EXCEPT !.step = "create"] ELSE Idle
  /\ UNCHANGED <<stored, old, policy, rows, passes, reconciler, history>>

CreateRow ==
  LET o == confirming.object IN
  /\ confirming.step = "create"
  /\ IF row[o] = "none"
     THEN row' = [row EXCEPT ![o] = "kept"] /\ digest' = [digest EXCEPT ![o] = "present"]
     ELSE UNCHANGED <<row, digest>>
  /\ confirming' = Idle
  /\ UNCHANGED <<stored, old, policy, due, hold, attempt, passes, reconciler,
                 history>>

FailConfirm ==
  /\ confirming # Idle /\ confirming' = Idle
  /\ UNCHANGED <<stored, old, policy, rows, passes, reconciler, history>>

\* Objects that a pass is about to delete.
Orphans == IF step = "delete" /\ complete THEN page \ known ELSE {}
Doomed  == (UNION {todo[w] : w \in Pass}) \cup Orphans

Protect(o) == safe' = safe \cup ({o} \cap (stored \ Doomed))

\* An evaluated attempt ends or goes to manual review.
Decide(o, status) ==
  /\ attempt[o] = "open" /\ row[o] = "kept"
  /\ attempt' = [attempt EXCEPT ![o] = status]
  /\ IF status = "REVIEW_REQUIRED"
     THEN Protect(o) /\ UNCHANGED decided
     ELSE decided' = decided \cup {o} /\ UNCHANGED safe
  /\ UNCHANGED <<client, row, digest, due, hold, todo, gone, reconciler, erased,
                 rowed>>

Hold(o) ==
  /\ row[o] = "kept" /\ o \notin hold
  /\ hold' = hold \cup {o}
  /\ Protect(o)
  /\ UNCHANGED <<client, row, digest, due, attempt, passes, reconciler, erased, rowed>>

Expire(o) ==
  /\ row[o] = "kept" /\ o \notin due
  /\ due' = due \cup {o}
  /\ UNCHANGED <<client, row, digest, hold, attempt, passes, reconciler, history>>

\* Mutant of ExpireStale: media that was deleted before expires again.
ExpireDeleted(o) ==
  /\ o \notin Legacy
  /\ attempt' = [attempt EXCEPT ![o] = IF @ = "open" THEN "closed" ELSE @]
  /\ due' = due \cup ({o} \ hold)
  /\ UNCHANGED <<client, row, digest, hold, passes, reconciler, history>>

\* expireStaleAttempts: attempts it selected, which may have been decided since, end
\* if they are still open; the media of all of them expires.
ExpireStale(o) ==
  /\ o \notin Legacy
  /\ attempt' = [attempt EXCEPT ![o] = IF @ = "open" THEN "closed" ELSE @]
  /\ due' = due \cup {p \in {o} : row[p] = "kept" /\ p \notin hold}
  /\ UNCHANGED <<client, row, digest, hold, passes, reconciler, history>>

-------------------------------------------------------------------------------
(* Deletion of tracked media                                               *)

Protected == hold \cup {o \in Object : attempt[o] = "REVIEW_REQUIRED"}

\* Mutant of Expired: media under a hold is selected too.
ExpiredHeld == {o \in due : row[o] = "kept" /\ attempt[o] # "REVIEW_REQUIRED"}

\* What deleteExpiredMediaBatch selects.
Expired == {o \in due : row[o] = "kept"} \ Protected

DeleteExpiredMediaBatch(w) ==
  /\ todo[w] = {} /\ gone[w] = {}
  /\ \E S \in (SUBSET Expired) \ {{}} :
       Cardinality(S) <= Batch /\ todo' = [todo EXCEPT ![w] = S]
  /\ UNCHANGED <<client, rows, decided, gone, reconciler, history>>

\* Media of a decided attempt that is not under a hold.
DeleteAttemptMedia(o) ==
  /\ o \in decided
  /\ decided' = decided \ {o}
  /\ todo' = [todo EXCEPT ![Request] = @ \cup {p \in {o} : row[p] = "kept" /\ p \notin hold}]
  /\ UNCHANGED <<client, rows, gone, reconciler, history>>

\* S3 answers the same whether or not the object was there.
DeleteObject(w, o) ==
  /\ o \in todo[w] /\ digest[o] # "unreadable"
  /\ stored' = stored \ {o} /\ old' = old \ {o}
  /\ erased' = erased \cup {o}
  /\ todo' = [todo EXCEPT ![w] = @ \ {o}]
  /\ gone' = [gone EXCEPT ![w] = @ \cup {o}]
  /\ UNCHANGED <<policy, confirming, rows, decided, reconciler, rowed, safe>>

MarkRow(w, o) ==
  /\ o \in gone[w]
  /\ row' = [row EXCEPT ![o] = "deleted"]
  /\ due' = due \ {o} /\ hold' = hold \ {o}
  /\ gone' = [gone EXCEPT ![w] = @ \ {o}]
  /\ UNCHANGED <<client, digest, attempt, decided, todo, reconciler, history>>

\* The object is not deleted, or its row not marked.  The job gives the row a later
\* time; the request does not, nor a job that stops before it has written that.
Retry(w, o) ==
  /\ o \in todo[w] \cup gone[w]
  /\ todo' = [todo EXCEPT ![w] = @ \ {o}]
  /\ gone' = [gone EXCEPT ![w] = @ \ {o}]
  /\ due' \in {due} \cup {due \ {o} : v \in {w} \cap Worker}
  /\ UNCHANGED <<client, row, digest, hold, attempt, decided, reconciler, history>>

-------------------------------------------------------------------------------
(* Reconciliation of orphaned objects                                      *)

\* The next Batch objects after the cursor.
Listed == {o \in stored : cursor < o /\ Cardinality(stored \cap (cursor + 1)..(o - 1)) < Batch}

\* A page; objects younger than the grace are passed over in the end.
ListObjects ==
  /\ step = "idle"
  /\ page' = Listed \cap old
  /\ cursor' = IF \E o \in stored : cursor < o /\ \A p \in Listed : p < o
               THEN Max(Listed) ELSE 0
  /\ step' = "legacy"
  /\ rowed' = {o \in Listed \cap old : row[o] # "none"}
  /\ UNCHANGED <<client, rows, passes, known, complete, erased, safe>>

\* Mutant of Undigested: rows whose key cannot be opened are given up.
UndigestedReadable == {o \in Object : row[o] = "kept" /\ digest[o] = "absent"}

\* Rows of an earlier version that have no digest yet.
Undigested == {o \in Object : row[o] = "kept" /\ digest[o] # "present"}

\* Those whose key can be opened.
Readable(S) == {o \in S : digest[o] # "unreadable"}

\* Every legacy row is in the batch and all their keys could be opened.
AllRead(S) == Cardinality(S) < Batch /\ Readable(S) = S

\* Up to Batch rows without a digest get one.
ReadLegacy ==
  /\ step = "legacy"
  /\ \E S \in SUBSET Undigested :
       /\ Cardinality(S) = Min({Batch, Cardinality(Undigested)})
       /\ digest' = [o \in Object |-> IF o \in Readable(S) THEN "present" ELSE digest[o]]
       /\ known' = page \cap Readable(S)
       /\ complete' = AllRead(S)
  /\ step' = "tracked"
  /\ UNCHANGED <<client, row, due, hold, attempt, passes, page, cursor, history>>

\* Rows, deleted ones included, by digest.
ReadTracked ==
  /\ step = "tracked"
  /\ known' = known \cup {o \in page : digest[o] = "present"}
  /\ step' = "delete"
  /\ UNCHANGED <<client, rows, passes, page, cursor, complete, history>>

DeleteOrphan(o) ==
  /\ o \in Orphans
  /\ stored' = stored \ {o} /\ old' = old \ {o}
  /\ erased' = erased \cup {o}
  /\ page' = page \ {o}
  /\ UNCHANGED <<policy, confirming, rows, passes, cursor, known, complete, step, rowed, safe>>

\* A later pass tries again.
SkipOrphan(o) ==
  /\ o \in Orphans
  /\ page' = page \ {o}
  /\ UNCHANGED <<client, rows, passes, cursor, known, complete, step, history>>

EndReconciliation ==
  /\ step = "delete" /\ Orphans = {}
  /\ step' = "idle"
  /\ page' = {} /\ known' = {} /\ complete' = FALSE
  /\ rowed' = {}
  /\ UNCHANGED <<client, rows, passes, cursor, erased, safe>>

\* The cursor is the process's own.  A pass that a stop cuts short is one that skips
\* what is left of its page and is followed by a restart.
Restart ==
  /\ step = "idle" /\ cursor # 0
  /\ cursor' = 0
  /\ UNCHANGED <<client, rows, passes, page, known, complete, step, history>>

-------------------------------------------------------------------------------

ClientNext ==
  \/ \E o \in Object : Upload(o) \/ EndPolicy(o) \/ Age(o) \/ ConfirmUpload(o)
  \/ HeadObject \/ CreateRow \/ FailConfirm
  \/ \E o \in Object : Hold(o) \/ Expire(o) \/ ExpireStale(o)
  \/ \E o \in Object : Decide(o, "REVIEW_REQUIRED") \/ Decide(o, "closed")

PassNext ==
  \/ \E w \in Worker : DeleteExpiredMediaBatch(w)
  \/ \E o \in Object : DeleteAttemptMedia(o)
  \/ \E w \in Pass, o \in Object : DeleteObject(w, o) \/ MarkRow(w, o) \/ Retry(w, o)

ReconcilerNext ==
  \/ ListObjects \/ ReadLegacy \/ ReadTracked
  \/ (\E o \in Object : DeleteOrphan(o) \/ SkipOrphan(o))
  \/ EndReconciliation \/ Restart

Next == ClientNext \/ PassNext \/ ReconcilerNext

Spec == Init /\ [][Next]_vars

\* Policies lapse and objects age, the reconciler goes on, and neither restarts nor
\* failures keep it for ever from a page after the first or from deleting.
Fairness ==
  /\ \A o \in Object : WF_vars(EndPolicy(o) \/ Age(o))
  /\ WF_vars(ListObjects \/ ReadLegacy \/ ReadTracked \/ EndReconciliation)
  /\ SF_vars(cursor # 0 /\ ListObjects)
  /\ SF_vars(\E o \in Object : DeleteOrphan(o))

FairSpec == Spec /\ Fairness

AllReadable == \A o \in Object : digest[o] # "unreadable"

-------------------------------------------------------------------------------
(* Properties                                                              *)

\* Media that comes under a legal hold or manual review while no pass is about to
\* delete it stays in the bucket, whatever expiry, decision of another job or
\* reconciliation comes later.
ProtectedStays == safe \subseteq stored

\* A row is marked deleted only when its object was deleted from the bucket: a failure
\* between the two leaves the row to be tried again.
MarkedWasErased == \A o \in Object : row[o] = "deleted" => o \in erased

\* Reconciliation deletes no object that had a row when its page was listed: not when
\* the row has no digest yet, nor when its digest cannot be made.
TrackedIsNoOrphan ==
  [][\A o \in page : o \in stored \ stored' /\ page' # page => o \notin rowed]_vars

NoOrphans == AllReadable => \A o \in old \cap stored : row[o] # "none"
===============================================================================
