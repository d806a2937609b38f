------------------------ MODULE DocumentUploadProofs ------------------------
(***************************************************************************)
(* Theorems about the upload of documents, for any number of users and of  *)
(* concurrent uploads, any sizes, any quota and any of the faults.         *)
(***************************************************************************)
EXTENDS DocumentUpload, TLAPS

PCs == {"received", "storing", "creating", "counting", "writing", "removing", "done"}
Answers == {"none", "created", "refused", "quota", "unavailable", "error"}

(***************************************************************************)
(* The inductive invariant.  Who counts or writes holds the lock of its    *)
(* user, so what it counted is still so when it writes.  A request that    *)
(* stored its object has it until it removes it itself.                    *)
(***************************************************************************)
RequestInv(w) ==
  LET q == request[w]
  IN  /\ q.pc \in InTransaction => lock[Owner(w)] = w
      /\ q.pc = "writing" => Fits(w)
      /\ q.pc \in {"creating"} \cup InTransaction => w \in objects
      /\ q.pc \in {"received", "storing", "creating"} \cup InTransaction
           => w \notin documents /\ q.answer = "none"
      /\ q.pc = "received" => w \notin objects
      /\ q.pc = "removing" => q.answer # "created"
      /\ q.answer = "created" => w \in documents /\ w \in objects
      /\ q.answer \in {"refused", "quota", "unavailable"} => w \notin documents
      /\ q.answer = "quota" => ~Fits(w)
      /\ q.pc = "done" /\ q.answer # "none"
           => w \in documents \/ w \notin objects \/ w \in orphans

IInv == TypeOK /\ QuotaRespected /\ \A w \in Uploads : RequestInv(w)

LEMMA InitIInv == Init => IInv
  <1> SUFFICES ASSUME Init PROVE IInv
    OBVIOUS
  <1>1. \A u \in Users : used[u] \in Nat /\ used[u] <= Quota
    <2>1. used \in [Users -> 0..Quota]
      BY DEF Init
    <2>2. \A u \in Users : used[u] \in 0..Quota
      BY <2>1
    <2>3. ASSUME NEW u \in Users PROVE used[u] \in Nat /\ used[u] <= Quota
      BY <2>2, UploadAssumption
    <2> QED
      BY <2>3
  <1>2. TypeOK
    <2>1. used \in [Users -> Nat]
      <3>1. used \in [Users -> 0..Quota]
        BY DEF Init
      <3> QED
        BY <1>1, <3>1
    <2>2. request \in [Uploads -> Request]
      BY DEF Init
    <2> QED
      BY <2>1, <2>2 DEF Init, TypeOK
  <1>3. QuotaRespected
    BY <1>1 DEF QuotaRespected
  <1>4. ASSUME NEW w \in Uploads PROVE RequestInv(w)
    BY DEF Init, RequestInv, Request, InTransaction
  <1> QED
    BY <1>2, <1>3, <1>4 DEF IInv

-----------------------------------------------------------------------------
\* What moving a request on changes of it and of the others.
LEMMA StepOfARequest ==
  ASSUME TypeOK, NEW w \in Uploads, NEW pc \in PCs, NEW answer \in Answers,
         Answering(w, pc, answer)
  PROVE  /\ request' \in [Uploads -> Request]
         /\ request'[w].pc = pc
         /\ request'[w].answer = answer
         /\ request'[w].user = request[w].user
         /\ request'[w].size = request[w].size
         /\ \A v \in Uploads \ {w} : request'[v] = request[v]
  BY DEF TypeOK, Answering, Request, InTransaction, PCs, Answers

LEMMA GotoAnswering ==
  ASSUME TypeOK, NEW w \in Uploads, NEW pc, Goto(w, pc)
  PROVE  /\ Answering(w, pc, request[w].answer)
         /\ request[w].answer \in Answers
  BY DEF TypeOK, Goto, Answering, Request, Answers

LEMMA OwnerTyped ==
  ASSUME TypeOK, NEW w \in Uploads
  PROVE  Owner(w) \in Users /\ request[w].size \in Nat /\ used[Owner(w)] \in Nat
  BY UploadAssumption DEF TypeOK, Owner, Request

\* A transaction that ends frees the lock it holds and no other.
LEMMA UnlockFreesOwn ==
  ASSUME TypeOK, NEW w \in Uploads, RequestInv(w), Unlock(w)
  PROVE  /\ lock' \in [Users -> Uploads \cup {None}]
         /\ \A u \in Users : lock[u] # w => lock'[u] = lock[u]
  <1>1. CASE request[w].pc \in InTransaction
    BY <1>1, OwnerTyped DEF TypeOK, Unlock, RequestInv
  <1>2. CASE request[w].pc \notin InTransaction
    BY <1>2 DEF TypeOK, Unlock
  <1> QED
    BY <1>1, <1>2

\* A step of one request does not disturb another, provided it leaves its lock, its row and its
\* object alone, and does not use up the space the other one has counted.
LEMMA OtherRequest ==
  ASSUME TypeOK, TypeOK', NEW v \in Uploads, RequestInv(v),
         request'[v] = request[v],
         v \in documents' <=> v \in documents,
         v \in objects' <=> v \in objects,
         v \in orphans' <=> v \in orphans,
         lock[Owner(v)] = v => lock'[Owner(v)] = v,
         used'[Owner(v)] >= used[Owner(v)],
         request[v].pc = "writing" => used'[Owner(v)] = used[Owner(v)]
  PROVE  RequestInv(v)'
  <1>1. Owner(v) \in Users /\ request[v].size \in Nat /\ used[Owner(v)] \in Nat
        /\ used'[Owner(v)] \in Nat /\ Owner(v)' = Owner(v)
    BY OwnerTyped DEF TypeOK, Owner
  <1>2. Fits(v)' <=> used'[Owner(v)] + request[v].size <= Quota
    BY <1>1 DEF Fits
  <1>3. request[v].pc = "writing" /\ Fits(v) => Fits(v)'
    BY <1>1, <1>2 DEF Fits
  <1>4. ~Fits(v) => ~Fits(v)'
    BY <1>1, <1>2, UploadAssumption DEF Fits
  <1> QED
    BY <1>1, <1>3, <1>4 DEF RequestInv

-----------------------------------------------------------------------------
LEMMA NextIInv == IInv /\ [Next]_vars => IInv'
  <1> SUFFICES ASSUME IInv, [Next]_vars PROVE IInv'
    OBVIOUS
  <1> USE DEF IInv
  <1>1. CASE UNCHANGED vars
    BY <1>1 DEF vars, TypeOK, QuotaRespected, RequestInv, Owner, Fits
  <1>2. ASSUME NEW w \in Uploads, Handle(w) \/ Fault(w) PROVE IInv'
    <2> USE <1>2
    <2>0. RequestInv(w) /\ Owner(w) \in Users /\ request[w].size \in Nat
          /\ used[Owner(w)] \in Nat /\ Quota \in Nat
      BY OwnerTyped, UploadAssumption
    \* The steps without a write to used: only their own request and lock change.
    <2>1. ASSUME NEW pc \in PCs, NEW answer \in Answers, Answering(w, pc, answer),
                 TypeOK',
                 UNCHANGED used,
                 \A u \in Users : lock[u] # w => lock'[u] = lock[u] \/ lock[u] = None,
                 documents' \ {w} = documents \ {w},
                 objects' \ {w} = objects \ {w},
                 orphans' \ {w} = orphans \ {w},
                 RequestInv(w)'
          PROVE  IInv'
      <3>1. QuotaRespected'
        BY <2>1 DEF QuotaRespected
      <3>2. ASSUME NEW v \in Uploads, v # w PROVE RequestInv(v)'
        <4>1. request'[v] = request[v]
          BY <2>1, <3>2, StepOfARequest
        <4>2. /\ v \in documents' <=> v \in documents
              /\ v \in objects' <=> v \in objects
              /\ v \in orphans' <=> v \in orphans
          BY <2>1, <3>2
        <4>3. lock[Owner(v)] = v => lock'[Owner(v)] = v
          BY <2>1, <3>2, OwnerTyped, UploadAssumption
        <4>4. used'[Owner(v)] >= used[Owner(v)] /\ used'[Owner(v)] = used[Owner(v)]
          BY <2>1, OwnerTyped
        <4> QED
          BY <2>1, <4>1, <4>2, <4>3, <4>4, OtherRequest
      <3> QED
        BY <2>1, <3>1, <3>2
    <2>2. CASE Receive(w)
      <3>1. request[w].answer = "none"
        BY <2>0, <2>2 DEF RequestInv, Receive
      <3>2. PICK pc \in PCs, answer \in Answers :
              /\ Answering(w, pc, answer)
              /\ pc = "done" \/ (pc = "storing" /\ answer = "none")
              /\ answer # "created"
              /\ answer = "quota" => ~Fits(w)
        BY <2>2, <3>1, GotoAnswering DEF Receive, PCs, Answers
      <3>3. TypeOK'
        BY <2>2, <3>2, StepOfARequest DEF Receive, TypeOK
      <3>4. RequestInv(w)'
        BY <2>2, <2>0, <3>2, StepOfARequest
        DEF Receive, RequestInv, InTransaction, Owner, Fits
      <3> QED
        BY <2>1, <2>2, <3>2, <3>3, <3>4 DEF Receive
    <2>3. CASE Store(w)
      <3>1. request[w].answer = "none"
        BY <2>0, <2>3 DEF RequestInv, Store
      <3>2. PICK pc \in PCs, answer \in Answers :
              /\ Answering(w, pc, answer)
              /\ \/ pc = "creating" /\ answer = "none" /\ w \in objects'
                 \/ pc = "removing" /\ answer = "unavailable"
        BY <2>3, <3>1, GotoAnswering DEF Store, PCs, Answers
      <3>3. TypeOK'
        BY <2>3, <3>2, StepOfARequest DEF Store, TypeOK
      <3>4. RequestInv(w)'
        BY <2>3, <2>0, <3>2, StepOfARequest
        DEF Store, RequestInv, InTransaction, Owner, Fits
      <3> QED
        BY <2>1, <2>3, <3>2, <3>3, <3>4 DEF Store
    <2>4. CASE Lock(w)
      <3>1. Answering(w, "counting", "none")
        BY <2>0, <2>4, GotoAnswering DEF RequestInv, Lock
      <3>2. TypeOK'
        BY <2>4, <3>1, StepOfARequest DEF Lock, TypeOK, PCs, Answers
      <3>3. lock'[Owner(w)] = w
        BY <2>0, <2>4 DEF Lock, TypeOK
      <3>4. RequestInv(w)'
        BY <2>4, <2>0, <3>1, <3>3, StepOfARequest
        DEF Lock, RequestInv, InTransaction, Owner, Fits, PCs, Answers
      <3>5. \A u \in Users : lock[u] # w => lock'[u] = lock[u] \/ lock[u] = None
        BY <2>4 DEF Lock, TypeOK
      <3> QED
        BY <2>1, <2>4, <3>1, <3>2, <3>4, <3>5 DEF Lock, PCs, Answers
    <2>5. CASE Count(w)
      <3>1. CASE Fits(w) /\ Goto(w, "writing") /\ UNCHANGED lock
        <4>1. Answering(w, "writing", "none")
          BY <2>0, <2>5, <3>1, GotoAnswering DEF RequestInv, Count, InTransaction
        <4>2. TypeOK'
          BY <2>5, <3>1, <4>1, StepOfARequest DEF Count, TypeOK, PCs, Answers
        <4>3. RequestInv(w)'
          BY <2>5, <2>0, <3>1, <4>1, StepOfARequest
          DEF Count, RequestInv, InTransaction, Owner, Fits, PCs, Answers
        <4> QED
          BY <2>1, <2>5, <3>1, <4>1, <4>2, <4>3 DEF Count, PCs, Answers
      <3>2. CASE ~Fits(w) /\ Answering(w, "removing", "quota") /\ Unlock(w)
        <4>1. TypeOK'
          BY <2>0, <2>5, <3>2, StepOfARequest, UnlockFreesOwn DEF Count, TypeOK, PCs, Answers
        <4>2. RequestInv(w)'
          BY <2>5, <2>0, <3>2, StepOfARequest
          DEF Count, RequestInv, InTransaction, Owner, Fits, PCs, Answers
        <4> QED
          BY <2>0, <2>1, <2>5, <3>2, <4>1, <4>2, UnlockFreesOwn DEF Count, PCs, Answers
      <3> QED
        BY <2>5, <3>1, <3>2 DEF Count
    <2>6. CASE Write(w)
      <3>1. PICK pc \in PCs, answer \in Answers :
              /\ Answering(w, pc, answer)
              /\ \/ pc = "done" /\ answer = "created"
                 \/ pc = "removing" /\ answer = "error"
        BY <2>6 DEF Write, PCs, Answers
      <3>2. used' \in [Users -> Nat] /\ used'[Owner(w)] = used[Owner(w)] + request[w].size
            /\ \A u \in Users \ {Owner(w)} : used'[u] = used[u]
        BY <2>0, <2>6 DEF Write, TypeOK
      <3>3. TypeOK'
        BY <2>0, <2>6, <3>1, <3>2, StepOfARequest, UnlockFreesOwn DEF Write, TypeOK
      <3>4. Fits(w) /\ lock[Owner(w)] = w
        BY <2>0, <2>6 DEF RequestInv, Write, InTransaction
      <3>5. QuotaRespected'
        BY <2>0, <3>2, <3>4 DEF QuotaRespected, Fits
      <3>6. RequestInv(w)'
        BY <2>6, <2>0, <3>1, StepOfARequest
        DEF Write, RequestInv, InTransaction, PCs, Answers
      <3>7. ASSUME NEW v \in Uploads, v # w PROVE RequestInv(v)'
        <4>1. request'[v] = request[v]
          BY <3>1, <3>7, StepOfARequest
        <4>2. /\ v \in documents' <=> v \in documents
              /\ v \in objects' <=> v \in objects
              /\ v \in orphans' <=> v \in orphans
          BY <2>6, <3>7 DEF Write
        <4>3. lock[Owner(v)] = v => lock'[Owner(v)] = v
          BY <2>0, <2>6, <3>7, OwnerTyped, UnlockFreesOwn DEF Write
        <4>4. Owner(v) \in Users /\ used[Owner(v)] \in Nat
          BY OwnerTyped
        <4>5. used'[Owner(v)] >= used[Owner(v)]
          BY <2>0, <3>2, <4>4
        <4>6. request[v].pc = "writing" => used'[Owner(v)] = used[Owner(v)]
          BY <3>2, <3>4, <3>7, <4>4 DEF RequestInv, InTransaction
        <4> QED
          BY <3>3, <4>1, <4>2, <4>3, <4>5, <4>6, OtherRequest
      <3> QED
        BY <3>3, <3>5, <3>6, <3>7
    <2>7. CASE Rollback(w)
      <3>1. Answering(w, "removing", "error")
        BY <2>7 DEF Rollback
      <3>2. TypeOK'
        BY <2>0, <2>7, <3>1, StepOfARequest, UnlockFreesOwn DEF Rollback, TypeOK, PCs, Answers
      <3>3. RequestInv(w)'
        BY <2>7, <2>0, <3>1, StepOfARequest
        DEF Rollback, RequestInv, InTransaction, PCs, Answers
      <3> QED
        BY <2>0, <2>1, <2>7, <3>1, <3>2, <3>3, UnlockFreesOwn DEF Rollback, PCs, Answers
    <2>8. CASE RemoveOrphan(w)
      <3>1. Answering(w, "done", request[w].answer) /\ request[w].answer \in Answers
        BY <2>8, GotoAnswering DEF RemoveOrphan
      <3>2. TypeOK'
        BY <2>8, <3>1, StepOfARequest DEF RemoveOrphan, TypeOK, PCs
      <3>3. w \notin objects' \/ w \in orphans'
        BY <2>8 DEF RemoveOrphan
      <3>4. RequestInv(w)'
        BY <2>8, <2>0, <3>1, <3>3, StepOfARequest
        DEF RemoveOrphan, RequestInv, InTransaction, Owner, Fits, PCs
      <3> QED
        BY <2>1, <2>8, <3>1, <3>2, <3>4 DEF RemoveOrphan, PCs
    <2>9. CASE Crash(w)
      <3>1. Answering(w, "done", "none")
        BY <2>9 DEF Crash
      <3>2. TypeOK'
        BY <2>0, <2>9, <3>1, StepOfARequest, UnlockFreesOwn DEF Crash, TypeOK, PCs, Answers
      <3>3. RequestInv(w)'
        BY <2>9, <2>0, <3>1, StepOfARequest
        DEF Crash, RequestInv, InTransaction, PCs, Answers
      <3> QED
        BY <2>0, <2>1, <2>9, <3>1, <3>2, <3>3, UnlockFreesOwn DEF Crash, PCs, Answers
    <2> QED
      BY <2>2, <2>3, <2>4, <2>5, <2>6, <2>7, <2>8, <2>9 DEF Handle, Fault
  <1> QED
    BY <1>1, <1>2 DEF Next

LEMMA Invariance == Spec => []IInv
  BY InitIInv, NextIInv, PTL DEF Spec

\* Every step of uploadDocument() and createDocument() keeps requests, sums, locks, rows, objects
\* and logged orphans of their types.
THEOREM UploadTypeCorrect == Spec => []TypeOK
  <1>1. IInv => TypeOK
    BY DEF IInv
  <1> QED
    BY <1>1, Invariance, PTL

\* createDocument() never lets the documents of a user exceed the quota, however many uploads run
\* at once and whatever fails.
THEOREM QuotaCorrect == Spec => []QuotaRespected
  <1>1. IInv => QuotaRespected
    BY DEF IInv
  <1> QED
    BY <1>1, Invariance, PTL

\* An upload answered with 403 for the quota does not fit, neither then nor later.
THEOREM QuotaRefusalCorrect == Spec => []QuotaRefusalIsTrue
  <1>1. IInv => QuotaRefusalIsTrue
    <2> SUFFICES ASSUME IInv, NEW w \in Uploads, Answered(w, {"quota"})
                 PROVE  used[Owner(w)] + request[w].size > Quota
      BY DEF QuotaRefusalIsTrue
    <2>1. ~Fits(w) /\ TypeOK
      BY DEF IInv, RequestInv, Answered
    <2> QED
      BY <2>1, OwnerTyped, UploadAssumption DEF Fits
  <1> QED
    BY <1>1, Invariance, PTL

\* uploadDocument() answers 201 only with the row committed and its object stored.
THEOREM CreatedCorrect == Spec => []CreatedIsStored
  <1>1. IInv => CreatedIsStored
    BY DEF IInv, RequestInv, CreatedIsStored, Answered
  <1> QED
    BY <1>1, Invariance, PTL

\* A refused upload recorded nothing, and removeOrphan() removed or logged what any answered upload
\* without a row had stored.
THEOREM RefusalCorrect == Spec => []RefusalLeavesNothing
  <1>1. IInv => RefusalLeavesNothing
    BY DEF IInv, RequestInv, RefusalLeavesNothing, Answered
  <1> QED
    BY <1>1, Invariance, PTL

-----------------------------------------------------------------------------
\* Without a commit in doubt, only an upload without a row ever removes its object.
ObjectInv == \A w \in documents : w \in objects /\ request[w].pc = "done"

LEMMA NextObjectInv ==
  ASSUME "inDoubt" \notin Faults
  PROVE  IInv /\ ObjectInv /\ [Next]_vars => ObjectInv'
  <1> SUFFICES ASSUME IInv, ObjectInv, [Next]_vars PROVE ObjectInv'
    OBVIOUS
  <1>1. CASE UNCHANGED vars
    BY <1>1 DEF vars, ObjectInv
  <1>2. ASSUME NEW w \in Uploads, Handle(w) \/ Fault(w) PROVE ObjectInv'
    <2> USE <1>2
    <2>0. TypeOK /\ RequestInv(w) /\ documents \subseteq Uploads
      BY DEF IInv, TypeOK
    <2>1. ASSUME NEW v \in documents, v # w
          PROVE  v \in objects' /\ request'[v].pc = "done"
      <3>1. v \in objects /\ request[v].pc = "done"
        BY <2>1 DEF ObjectInv
      <3>2. request'[v] = request[v]
        BY <2>0, <2>1 DEF Handle, Fault, Receive, Store, Lock, Count, Write, Rollback, RemoveOrphan, Crash,
                          Goto, Answering, TypeOK
      <3>3. v \in objects'
        BY <2>1, <3>1 DEF Handle, Fault, Receive, Store, Lock, Count, Write, Rollback, RemoveOrphan, Crash
      <3> QED
        BY <3>1, <3>2, <3>3
    <2>2. CASE Write(w)
      <3>1. Answering(w, "done", "created")
        BY <2>2 DEF Write
      <3>2. request'[w].pc = "done"
        BY <2>0, <3>1, StepOfARequest DEF PCs, Answers
      <3>3. w \in objects' /\ documents' = documents \cup {w}
        BY <2>0, <2>2 DEF Write, RequestInv, InTransaction
      <3> QED
        BY <2>1, <3>2, <3>3 DEF ObjectInv
    <2>3. CASE ~Write(w)
      <3>1. documents' = documents
        BY <2>3 DEF Handle, Fault, Receive, Store, Lock, Count, Rollback, RemoveOrphan, Crash
      <3>2. w \notin documents
        BY <2>3 DEF ObjectInv, Handle, Fault, Receive, Store, Lock, Count, Rollback, RemoveOrphan, Crash,
                    InTransaction
      <3> QED
        BY <2>1, <3>1, <3>2 DEF ObjectInv
    <2> QED
      BY <2>2, <2>3
  <1> QED
    BY <1>1, <1>2 DEF Next

\* The comment of removeOrphan(), "a stored upload whose row was not written", holds while every
\* error of createDocument() means that nothing was committed.
THEOREM ObjectCorrect ==
  ASSUME "inDoubt" \notin Faults
  PROVE  Spec => []DocumentHasObject
  <1>1. Init => ObjectInv
    BY DEF Init, ObjectInv
  <1>2. IInv /\ ObjectInv /\ [Next]_vars => ObjectInv'
    BY NextObjectInv
  <1>3. ObjectInv => DocumentHasObject
    BY DEF ObjectInv, DocumentHasObject
  <1> QED
    BY <1>1, <1>2, <1>3, Invariance, PTL DEF Spec
=============================================================================
