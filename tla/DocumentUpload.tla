--------------------------- MODULE DocumentUpload ---------------------------
(***************************************************************************)
(* The upload of documents: DocumentsService.uploadDocument() and          *)
(* removeOrphan() (documents.service.ts) over the transaction of           *)
(* createDocument() (documents.repository.ts).  The file is stored before  *)
(* its row is written; the row, its event and its job are one transaction, *)
(* serialized by an advisory lock per user while the quota is checked.     *)
(*                                                                         *)
(* Each request to the storage and each statement of the transaction is a  *)
(* step.  No case leaves DRAFT in this code, so createDocument() finds the *)
(* case as uploadDocument() did.                                           *)
(***************************************************************************)
EXTENDS Naturals

CONSTANTS
  Users,
  Uploads,  \* the upload requests; also the document id and the storage key each one generates
  Sizes,    \* file sizes accepted, in some unit: DOCUMENT_MAX_BYTES and less
  Quota,    \* DOCUMENT_QUOTA_BYTES, in that unit
  Faults,   \* which faults may happen, see below
  None      \* nobody

(***************************************************************************)
(* "crash": the API process dies with the requests it serves.              *)
(* "database": a statement fails and its transaction is rolled back.       *)
(* "inDoubt": a transaction commits and its answer is lost.                *)
(* A request to the storage may always fail, before or after its effect.   *)
(***************************************************************************)
ASSUME UploadAssumption ==
  /\ Sizes \subseteq Nat
  /\ Quota \in Nat
  /\ Faults \subseteq {"crash", "database", "inDoubt"}
  /\ None \notin Uploads

VARIABLES
  request,    \* the state of each upload request
  used,       \* the sum of file_size over the documents of each user's cases
  lock,       \* who holds the DOCQ advisory lock of each user
  documents,  \* the uploads with a row, its event and its job
  objects,    \* the uploads with an object in the storage
  orphans     \* the uploads logged as storage.orphan_object

vars == <<request, used, lock, documents, objects, orphans>>

-----------------------------------------------------------------------------
(***************************************************************************)
(* valid: the case is an own DRAFT, and the file is not empty, not too     *)
(* large and of a known type.  answer is what the request is going to      *)
(* answer: 201, the refusal of the file or its case, 403 for the quota,    *)
(* 503 or 500; "none" until that is known, and for ever after a crash.     *)
(***************************************************************************)
InTransaction == {"counting", "writing"}
Request ==
  [user: Users, size: Sizes, valid: BOOLEAN,
   pc: {"received", "storing", "creating", "removing", "done"} \cup InTransaction,
   answer: {"none", "created", "refused", "quota", "unavailable", "error"}]

\* Rows are never changed or deleted, so the sum the code asks for is kept as a counter.
Init ==
  /\ request \in [Uploads -> {q \in Request : q.pc = "received" /\ q.answer = "none"}]
  /\ used \in [Users -> 0..Quota]
  /\ lock = [u \in Users |-> None]
  /\ documents = {}
  /\ objects = {}
  /\ orphans = {}

Owner(w) == request[w].user

\* Mutant of Fits: a document that fills the space exactly is refused.
FitsStrictly(w) == used[Owner(w)] + request[w].size < Quota

Fits(w) == used[Owner(w)] + request[w].size <= Quota

Goto(w, pc) == request' = [request EXCEPT ![w].pc = pc]

\* The request goes on to pc, and is going to answer so.
Answering(w, pc, answer) ==
  request' = [request EXCEPT ![w].pc = pc, ![w].answer = answer]

\* Mutant of Unlock: a session lock, which a transaction that writes nothing does not give back.
UnlockAfterWrite(w) == lock' = IF request[w].pc = "writing"
                               THEN [lock EXCEPT ![Owner(w)] = None]
                               ELSE lock

\* The transaction is over: its lock is free.
Unlock(w) == lock' = IF request[w].pc \in InTransaction
                     THEN [lock EXCEPT ![Owner(w)] = None]
                     ELSE lock

-----------------------------------------------------------------------------
\* The checks before anything is stored, with a first look at the quota.
Receive(w) ==
  /\ request[w].pc = "received"
  /\ \/ ~request[w].valid /\ Answering(w, "done", "refused")
     \/ request[w].valid /\ ~Fits(w) /\ Answering(w, "done", "quota")
     \/ request[w].valid /\ Fits(w) /\ Goto(w, "storing")
     \/ "database" \in Faults /\ Answering(w, "done", "error")
  /\ UNCHANGED <<used, lock, documents, objects, orphans>>

\* Mutant of Store: a failed write is answered without being removed.
StoreWithoutRemoval(w) ==
  /\ request[w].pc = "storing"
  /\ \/ objects' = objects \cup {w} /\ Goto(w, "creating")
     \/ objects' \in {objects, objects \cup {w}} /\ Answering(w, "done", "unavailable")
  /\ UNCHANGED <<used, lock, documents, orphans>>

\* putObject: a write that failed or timed out may have been stored.
Store(w) ==
  /\ request[w].pc = "storing"
  /\ \/ objects' = objects \cup {w} /\ Goto(w, "creating")
     \/ objects' \in {objects, objects \cup {w}} /\ Answering(w, "removing", "unavailable")
  /\ UNCHANGED <<used, lock, documents, orphans>>

\* Mutant of Lock: uploads are not serialized.
LockShared(w) ==
  /\ request[w].pc = "creating"
  /\ lock' = [lock EXCEPT ![Owner(w)] = w]
  /\ Goto(w, "counting")
  /\ UNCHANGED <<used, documents, objects, orphans>>

\* createDocument() begins: one upload of a user at a time.
Lock(w) ==
  /\ request[w].pc = "creating"
  /\ lock[Owner(w)] = None
  /\ lock' = [lock EXCEPT ![Owner(w)] = w]
  /\ Goto(w, "counting")
  /\ UNCHANGED <<used, documents, objects, orphans>>

\* The space in use is read under the lock.  If the document does not fit, nothing is written.
Count(w) ==
  /\ request[w].pc = "counting"
  /\ \/ Fits(w) /\ Goto(w, "writing") /\ UNCHANGED lock
     \/ ~Fits(w) /\ Answering(w, "removing", "quota") /\ Unlock(w)
  /\ UNCHANGED <<used, documents, objects, orphans>>

\* The row, its event and its job are inserted and committed; the answer may get lost.
Write(w) ==
  /\ request[w].pc = "writing"
  /\ documents' = documents \cup {w}
  /\ used' = [used EXCEPT ![Owner(w)] = used[Owner(w)] + request[w].size]
  /\ Unlock(w)
  /\ \/ Answering(w, "done", "created")
     \/ "inDoubt" \in Faults /\ Answering(w, "removing", "error")
  /\ UNCHANGED <<objects, orphans>>

\* createDocument() throws and nothing of it remains.
Rollback(w) ==
  /\ "database" \in Faults
  /\ request[w].pc \in {"creating"} \cup InTransaction
  /\ Answering(w, "removing", "error")
  /\ Unlock(w)
  /\ UNCHANGED <<used, documents, objects, orphans>>

\* removeOrphan(): a failed removal, which may have removed it or not, is logged.
RemoveOrphan(w) ==
  /\ request[w].pc = "removing"
  /\ Goto(w, "done")
  /\ \/ objects' = objects \ {w} /\ UNCHANGED orphans
     \/ objects' \in {objects, objects \ {w}} /\ orphans' = orphans \cup {w}
  /\ UNCHANGED <<used, lock, documents>>

\* The process dies; its open transaction is rolled back.
Crash(w) ==
  /\ "crash" \in Faults
  /\ request[w].pc # "done"
  /\ Answering(w, "done", "none")
  /\ Unlock(w)
  /\ UNCHANGED <<used, documents, objects, orphans>>

Handle(w) == Receive(w) \/ Store(w) \/ Lock(w) \/ Count(w) \/ Write(w) \/ RemoveOrphan(w)

Fault(w) == Rollback(w) \/ Crash(w)

Next == \E w \in Uploads : Handle(w) \/ Fault(w)

Spec == Init /\ [][Next]_vars

\* A live process goes on with its requests; PostgreSQL grants the lock in turn.  No request counts
\* on a fault to end.
FairSpec == Spec /\ \A w \in Uploads : WF_vars(Handle(w))

-----------------------------------------------------------------------------
TypeOK ==
  /\ request \in [Uploads -> Request]
  /\ used \in [Users -> Nat]
  /\ lock \in [Users -> Uploads \cup {None}]
  /\ documents \in SUBSET Uploads
  /\ objects \in SUBSET Uploads
  /\ orphans \in SUBSET Uploads

\* However many uploads of a user run at once, their documents stay within the quota: the check of
\* createDocument() and its row are serialized by the lock.
QuotaRespected == \A u \in Users : used[u] <= Quota

Answered(w, answers) == request[w].pc = "done" /\ request[w].answer \in answers

\* An upload refused for the quota did not fit, and does not since: neither the look outside the
\* lock nor the count under it ever sees space taken by an upload that is then not recorded.
QuotaRefusalIsTrue ==
  \A w \in Uploads : Answered(w, {"quota"}) => used[Owner(w)] + request[w].size > Quota

\* 201 means a row and the object it points to.
CreatedIsStored ==
  \A w \in Uploads : Answered(w, {"created"}) => w \in documents /\ w \in objects

\* Any 4xx or 503 means that nothing was recorded, and no answer leaves an object behind that has
\* no row and that was not logged for its reconciliation.
RefusalLeavesNothing ==
  \A w \in Uploads :
    /\ Answered(w, {"refused", "quota", "unavailable"}) => w \notin documents
    /\ request[w].pc = "done" /\ request[w].answer # "none"
         => w \in documents \/ w \notin objects \/ w \in orphans

\* Every document has the object it points to: it is what its treatment will read.
DocumentHasObject == documents \subseteq objects

\* Every upload is answered or died with its process; nobody waits for the lock for ever.
UploadsEnd == \A w \in Uploads : <>(request[w].pc = "done")

=============================================================================
