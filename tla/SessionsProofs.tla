--------------------------- MODULE SessionsProofs ---------------------------
(***************************************************************************)
(* Type correctness of Sessions and its five properties, for any number of *)
(* sessions and concurrent requests and any durations.                     *)
(*                                                                         *)
(* A stored row keeps its login, its creation and the end of its lifetime  *)
(* (Kept), so that what a request has read of them stays true (ReqOK).     *)
(* The one session of a login that is not rotated is its newest            *)
(* (TipIsNewest); whatever a closing does not find is newer than all it    *)
(* found (SweepOK).                                                        *)
(***************************************************************************)
EXTENDS Sessions, TLAPS

(***************************************************************************)
(* The invariant                                                           *)
(***************************************************************************)
RowOK(s) ==
  /\ row[s].login \in stored
  /\ row[s].created <= now
  /\ row[s].seen <= now
  /\ row[s].until = row[row[s].login].created + Lifetime
  /\ row[s].idle = Earlier(row[s].seen + IdleWindow, row[s].until)

TipIsNewest ==
  \A s, t \in stored :
    row[s].login = row[t].login /\ row[s].rotated = None => row[t].created <= row[s].created

\* A request's copy of its row, as it is to be written.
CopyOK(r) ==
  /\ r.cookie \in stored
  /\ r.copy \in Row
  /\ r.copy.seen <= now
  /\ r.copy.created = row[r.cookie].created
  /\ r.copy.until = row[r.cookie].until
  /\ r.copy.idle = Earlier(r.copy.seen + IdleWindow, r.copy.until)

\* What a closing has found are whole logins up to a moment.
SweepOK(found) ==
  /\ found \subseteq stored
  /\ \A c \in found : row[c].login \in found
  /\ \A c \in found, s \in stored \ found :
       row[s].login = row[c].login => row[c].created <= row[s].created

ReqOK(q) ==
  LET r == req[q] IN
  /\ r.pc \in {"touching", "touchingAgain", "deciding", "rotating"} => CopyOK(r)
  /\ r.pc \in {"reloading", "revoking", "revokingOwn", "replacing"} => r.target \in stored
  /\ r.pc = "rotating" => row[r.cookie].created <= r.at
  /\ r.pc \in {"rotating", "creating"} => r.at <= now
  /\ r.pc = "sweeping" => SweepOK(r.found)

IInv ==
  /\ TypeOK
  /\ \A s \in stored : RowOK(s)
  /\ \A s \in Sessions \ stored : row[s].revoked = "no"
  /\ OneSuccessor
  /\ TipIsNewest
  /\ OneEventPerLogout
  /\ OnlyNewerSurvive
  /\ \A q \in Requests : ReqOK(q)

\* What a step leaves to every stored row.
Kept ==
  /\ stored \subseteq stored'
  /\ \A s \in stored : /\ row'[s].login = row[s].login
                       /\ row'[s].created = row[s].created
                       /\ row'[s].until = row[s].until
                       /\ row[s].rotated # None => row'[s].rotated = row[s].rotated
                       /\ row[s].revoked # "no" => row'[s].revoked = row[s].revoked

(***************************************************************************)
(* Rows and windows                                                        *)
(***************************************************************************)
LEMMA NewRowType ==
  ASSUME NEW login \in Sessions, NEW time \in Nat, NEW until \in Nat
  PROVE  NewRow(login, time, until) \in Row
BY SessionsAssumption DEF NewRow, Row, Earlier

LEMMA NoRequestType == NoRequest \in Request
BY DEF NoRequest, Request

LEMMA RevokedType ==
  ASSUME NEW r \in Row, NEW reason \in Reasons
  PROVE  /\ Revoked(r, reason) \in Row
         /\ Revoked(r, reason).login = r.login /\ Revoked(r, reason).created = r.created
         /\ Revoked(r, reason).seen = r.seen /\ Revoked(r, reason).idle = r.idle
         /\ Revoked(r, reason).until = r.until /\ Revoked(r, reason).rotated = r.rotated
         /\ Revoked(r, reason).revoked = IF r.revoked = "no" THEN reason ELSE r.revoked
BY DEF Revoked, Row

LEMMA PastGraceType ==
  ASSUME NEW r \in Row, NEW time \in Nat
  PROVE  /\ PastGrace(r, time) \in Row
         /\ PastGrace(r, time).login = r.login /\ PastGrace(r, time).created = r.created
         /\ PastGrace(r, time).seen = r.seen /\ PastGrace(r, time).idle = r.idle
         /\ PastGrace(r, time).until = r.until /\ PastGrace(r, time).rotated = r.rotated
         /\ r.revoked # "no" => PastGrace(r, time).revoked = r.revoked
         /\ PastGrace(r, time).revoked \in {r.revoked, "ROTATED"}
BY DEF PastGrace, Row, Reasons

\* However often a window slides, it is the same as one counted from the last touch.
LEMMA SlidWindow ==
  ASSUME NEW r \in Row, NEW time \in Nat, r.seen <= time, time < r.idle,
         r.idle = Earlier(r.seen + IdleWindow, r.until)
  PROVE  /\ Slid(r, time) = Earlier(time + IdleWindow, r.until)
         /\ Slid(r, time) \in Nat
BY SessionsAssumption DEF Slid, Earlier, Row

LEMMA InitIInv == Init => IInv
<1> SUFFICES ASSUME Init PROVE IInv
  OBVIOUS
<1>1. \A s \in Sessions : NewRow(s, 0, 0) \in Row
  BY NewRowType
<1>2. TypeOK
  BY <1>1, NoRequestType, SessionsAssumption DEF Init, TypeOK
<1>3. \A q \in Requests : ReqOK(q)
  BY DEF Init, ReqOK, NoRequest
<1>4. \A s \in Sessions : row[s].revoked = "no"
  BY DEF Init, NewRow
<1> QED
  BY <1>2, <1>3, <1>4 DEF Init, IInv, OneSuccessor, TipIsNewest, OneEventPerLogout, OnlyNewerSurvive

(***************************************************************************)
(* What a step leaves as it was                                            *)
(***************************************************************************)
LEMMA ReqStays ==
  ASSUME IInv, Kept, now' \in Nat, now <= now', NEW p \in Requests, req'[p] = req[p],
         \A t \in stored' \ stored, c \in stored :
           row'[t].login = row[c].login => row[c].created <= row'[t].created
  PROVE  ReqOK(p)'
<1>1. ReqOK(p) /\ now \in Nat /\ row \in [Sessions -> Row] /\ stored \subseteq Sessions /\ req[p] \in Request
  BY DEF IInv, TypeOK
<1>2. ASSUME req[p].pc \in {"touching", "touchingAgain", "deciding", "rotating"} PROVE CopyOK(req[p])'
  <2>1. CopyOK(req[p])
    BY <1>1, <1>2 DEF ReqOK
  <2>2. req'[p].copy.seen <= now'
    BY <1>1, <2>1 DEF CopyOK, Row
  <2> QED
    BY <2>1, <2>2 DEF CopyOK, Kept
<1>3. ASSUME req[p].pc = "rotating" PROVE row'[req[p].cookie].created <= req[p].at
  <2>1. req[p].cookie \in stored /\ row[req[p].cookie].created <= req[p].at
    BY <1>1, <1>3 DEF ReqOK, CopyOK
  <2> QED
    BY <2>1 DEF Kept
<1>4. ASSUME req[p].pc = "sweeping" PROVE SweepOK(req[p].found)'
  <2>1. SweepOK(req[p].found)
    BY <1>1, <1>4 DEF ReqOK
  <2>2. ASSUME NEW c \in req[p].found, NEW s \in stored' \ req[p].found, row'[s].login = row'[c].login
        PROVE  row'[c].created <= row'[s].created
    <3>1. c \in stored /\ row'[c].login = row[c].login /\ row'[c].created = row[c].created
      BY <2>1 DEF SweepOK, Kept
    <3>2. CASE s \in stored
      BY <2>1, <2>2, <3>1, <3>2 DEF SweepOK, Kept
    <3>3. CASE s \notin stored
      BY <2>2, <3>1, <3>3
    <3> QED
      BY <3>2, <3>3
  <2>3. \A c \in req[p].found : row'[c].login \in req[p].found
    BY <2>1 DEF SweepOK, Kept
  <2>4. req[p].found \subseteq stored'
    BY <2>1 DEF SweepOK, Kept
  <2> QED
    BY <2>2, <2>3, <2>4 DEF SweepOK
<1>5. req[p].pc \in {"rotating", "creating"} => req[p].at <= now'
  BY <1>1 DEF ReqOK, Request
<1>6. req[p].pc \in {"reloading", "revoking", "revokingOwn", "replacing"} => req[p].target \in stored'
  BY <1>1 DEF ReqOK, Kept
<1> QED
  BY <1>2, <1>3, <1>4, <1>5, <1>6 DEF ReqOK

LEMMA RowStays ==
  ASSUME IInv, Kept, now' \in Nat, now <= now', NEW s \in stored,
         row'[s].seen <= now', row'[s].idle = Earlier(row'[s].seen + IdleWindow, row'[s].until)
  PROVE  RowOK(s)'
<1>1. /\ RowOK(s) /\ row[s].login \in stored /\ row[row[s].login].created \in Nat /\ row[s].created \in Nat
      /\ now \in Nat
  BY DEF IInv, TypeOK, RowOK, Row
<1>2. row'[s].created <= now'
  BY <1>1 DEF RowOK, Kept
<1>3. row'[s].login = row[s].login /\ row'[row[s].login].created = row[row[s].login].created
  BY <1>1 DEF Kept
<1>4. row'[s].login \in stored' /\ row'[s].until = row[s].until
  BY <1>1, <1>3 DEF Kept
<1>5. row'[s].until = row'[row'[s].login].created + Lifetime
  BY <1>1, <1>3, <1>4 DEF RowOK
<1> QED
  BY <1>2, <1>4, <1>5 DEF RowOK

LEMMA NothingMoves ==
  ASSUME IInv, UNCHANGED <<stored, row>>, now' \in Nat, now <= now'
  PROVE  /\ Kept
         /\ \A s \in stored' : RowOK(s)'
         /\ \A s \in Sessions \ stored' : row'[s].revoked = "no"
         /\ OneSuccessor' /\ TipIsNewest' /\ OnlyNewerSurvive'
<1>1. Kept
  BY DEF Kept
<1>2. ASSUME NEW s \in stored PROVE RowOK(s)'
  <2>1. row[s].seen <= now /\ row[s].seen \in Nat /\ now \in Nat
    BY DEF IInv, RowOK, TypeOK, Row
  <2> QED
    BY <1>1, <2>1, RowStays DEF IInv, RowOK
<1> QED
  BY <1>1, <1>2 DEF IInv, OneSuccessor, TipIsNewest, OnlyNewerSurvive

\* A request that moves and writes nothing.
LEMMA Moved ==
  ASSUME IInv, NEW q \in Requests, UNCHANGED <<now, stored, row, events>>,
         req' \in [Requests -> Request], \A p \in Requests \ {q} : req'[p] = req[p], ReqOK(q)'
  PROVE  IInv'
<1>1. now \in Nat /\ now <= now'
  BY DEF IInv, TypeOK
<1>2. \A p \in Requests : ReqOK(p)'
  BY <1>1, NothingMoves, ReqStays
<1>3. TypeOK' /\ OneEventPerLogout'
  BY DEF IInv, TypeOK, OneEventPerLogout
<1> QED
  BY <1>1, <1>2, <1>3, NothingMoves DEF IInv

LEMMA Ended ==
  ASSUME IInv, NEW q \in Requests, Done(q)
  PROVE  /\ req' \in [Requests -> Request]
         /\ \A p \in Requests \ {q} : req'[p] = req[p]
         /\ ReqOK(q)'
<1>1. req' = [req EXCEPT ![q] = NoRequest] /\ req \in [Requests -> Request]
  BY DEF Done, IInv, TypeOK
<1>2. req'[q].pc = "idle"
  BY <1>1 DEF NoRequest
<1> QED
  BY <1>1, <1>2, NoRequestType DEF ReqOK

\* Rows that are revoked, or not, and nothing else.
LEMMA OnlyRevoked ==
  ASSUME IInv, UNCHANGED <<now, stored>>, row' \in [Sessions -> Row],
         \A s \in stored :
           /\ row'[s].login = row[s].login /\ row'[s].created = row[s].created
           /\ row'[s].seen = row[s].seen /\ row'[s].idle = row[s].idle
           /\ row'[s].until = row[s].until /\ row'[s].rotated = row[s].rotated
           /\ row[s].revoked # "no" => row'[s].revoked = row[s].revoked
  PROVE  Kept /\ (\A s \in stored' : RowOK(s)') /\ OneSuccessor' /\ TipIsNewest'
<1>1. Kept
  BY DEF Kept
<1>2. now \in Nat /\ now <= now'
  BY DEF IInv, TypeOK
<1>3. ASSUME NEW s \in stored PROVE RowOK(s)'
  BY <1>1, <1>2, RowStays DEF IInv, RowOK
<1> QED
  BY <1>1, <1>3 DEF IInv, OneSuccessor, TipIsNewest

\* A request that goes on is about one session.
LEMMA WentOn ==
  ASSUME IInv, NEW q \in Requests, NEW pc \in {"reloading", "revoking", "revokingOwn", "closing", "replacing"},
         NEW s \in Sessions \cup {None}, Goto(q, pc, s)
  PROVE  /\ req' \in [Requests -> Request]
         /\ \A p \in Requests \ {q} : req'[p] = req[p]
         /\ req'[q].pc = pc /\ req'[q].target = s
<1>1. req' = [req EXCEPT ![q] = [NoRequest EXCEPT !.pc = pc, !.target = s]] /\ req \in [Requests -> Request]
  BY DEF Goto, IInv, TypeOK
<1>2. [NoRequest EXCEPT !.pc = pc, !.target = s] \in Request
  BY NoRequestType DEF Request
<1>3. req'[q].pc = pc /\ req'[q].target = s
  BY <1>1 DEF NoRequest
<1> QED
  BY <1>1, <1>2, <1>3

(***************************************************************************)
(* The steps of a request that write no row                                *)
(***************************************************************************)
LEMMA TickIInv == ASSUME IInv, Tick PROVE IInv'
<1>1. now \in Nat /\ now' \in Nat /\ now <= now' /\ UNCHANGED <<stored, row, events, req>>
  BY DEF IInv, TypeOK, Tick
<1>2. \A p \in Requests : ReqOK(p)'
  BY <1>1, NothingMoves, ReqStays
<1>3. TypeOK' /\ OneEventPerLogout'
  BY <1>1 DEF IInv, TypeOK, OneEventPerLogout
<1> QED
  BY <1>1, <1>2, <1>3, NothingMoves DEF IInv

LEMMA LogInIInv ==
  ASSUME IInv, NEW q \in Requests, LogIn(q)
  PROVE  IInv'
<1>1. /\ req' = [req EXCEPT ![q] = [NoRequest EXCEPT !.pc = "creating", !.at = now]]
      /\ req \in [Requests -> Request] /\ now \in Nat
      /\ UNCHANGED <<now, stored, row, events>>
  BY DEF LogIn, IInv, TypeOK
<1>2. [NoRequest EXCEPT !.pc = "creating", !.at = now] \in Request
  BY <1>1, NoRequestType DEF Request
<1>3. req'[q].pc = "creating" /\ req'[q].at = now
  BY <1>1 DEF NoRequest
<1>4. ReqOK(q)'
  BY <1>1, <1>3 DEF ReqOK
<1>5. req' \in [Requests -> Request] /\ \A r \in Requests \ {q} : req'[r] = req[r]
  BY <1>1, <1>2
<1> QED
  BY <1>1, <1>4, <1>5, Moved

LEMMA ResetIInv ==
  ASSUME IInv, NEW q \in Requests, Reset(q)
  PROVE  IInv'
<1>1. /\ req' = [req EXCEPT ![q] = [NoRequest EXCEPT !.pc = "closing"]]
      /\ req \in [Requests -> Request] /\ UNCHANGED <<now, stored, row, events>>
  BY DEF Reset, IInv, TypeOK
<1>2. [NoRequest EXCEPT !.pc = "closing"] \in Request
  BY <1>1, NoRequestType DEF Request
<1>3. req'[q].pc = "closing"
  BY <1>1 DEF NoRequest
<1>4. ReqOK(q)'
  BY <1>3 DEF ReqOK
<1>5. req' \in [Requests -> Request] /\ \A r \in Requests \ {q} : req'[r] = req[r]
  BY <1>1, <1>2
<1> QED
  BY <1>1, <1>4, <1>5, Moved

LEMMA LoadedIInv ==
  ASSUME IInv, NEW q \in Requests, NEW s \in stored, NEW pc \in {"touching", "touchingAgain"},
         Loaded(q, s, pc)
  PROVE  IInv'
<1>1. /\ row[s] \in Row /\ RowOK(s) /\ now \in Nat /\ stored \subseteq Sessions
      /\ req \in [Requests -> Request] /\ Valid(row[s], now) /\ UNCHANGED <<now, stored, row, events>>
  BY DEF Loaded, IInv, TypeOK
<1>2. Slid(row[s], now) = Earlier(now + IdleWindow, row[s].until) /\ Slid(row[s], now) \in Nat
  BY <1>1, SlidWindow DEF RowOK, Valid
<1>3. PICK copy \in Row : copy = [row[s] EXCEPT !.seen = now, !.idle = Slid(row[s], now)]
  <2>1. [row[s] EXCEPT !.seen = now, !.idle = Slid(row[s], now)] \in Row
    BY <1>1, <1>2 DEF Row
  <2> QED
    BY <2>1
<1>4. /\ copy.seen = now /\ copy.idle = Earlier(now + IdleWindow, row[s].until)
      /\ copy.created = row[s].created /\ copy.until = row[s].until
  BY <1>1, <1>2, <1>3 DEF Row
<1>5. req' = [req EXCEPT ![q] = [NoRequest EXCEPT !.pc = pc, !.cookie = s, !.copy = copy]]
  BY <1>3 DEF Loaded
<1>6. [NoRequest EXCEPT !.pc = pc, !.cookie = s, !.copy = copy] \in Request
  BY <1>1, NoRequestType DEF Request
<1>7. req'[q].pc = pc /\ req'[q].cookie = s /\ req'[q].copy = copy
  BY <1>1, <1>5 DEF NoRequest
<1>8. ReqOK(q)'
  BY <1>1, <1>4, <1>7 DEF ReqOK, CopyOK
<1>9. req' \in [Requests -> Request] /\ \A r \in Requests \ {q} : req'[r] = req[r]
  BY <1>1, <1>5, <1>6
<1> QED
  BY <1>1, <1>8, <1>9, Moved

LEMMA FailIInv ==
  ASSUME IInv, NEW q \in Requests, Fail(q)
  PROVE  IInv'
BY Ended, Moved DEF Fail

LEMMA ReloadIInv ==
  ASSUME IInv, NEW q \in Requests, Reload(q)
  PROVE  IInv'
<1>1. req[q].target \in stored
  BY DEF Reload, IInv, ReqOK
<1>2. CASE Loaded(q, req[q].target, "touchingAgain")
  <2>1. PICK s \in stored : s = req[q].target
    BY <1>1
  <2>2. Loaded(q, s, "touchingAgain")
    BY <1>2, <2>1
  <2> QED
    BY <2>2, LoadedIInv
<1>3. CASE Done(q) /\ UNCHANGED <<now, stored, row, events>>
  BY <1>3, Ended, Moved
<1> QED
  BY <1>2, <1>3 DEF Reload

LEMMA ArriveIInv ==
  ASSUME IInv, NEW q \in Requests, NEW s \in Sessions, Arrive(q, s)
  PROVE  IInv'
BY LoadedIInv DEF Arrive

LEMMA DecideIInv ==
  ASSUME IInv, NEW q \in Requests, Decide(q)
  PROVE  IInv'
<1>1. UNCHANGED <<now, stored, row, events>> /\ req[q].pc = "deciding" /\ req \in [Requests -> Request]
      /\ req[q] \in Request /\ now \in Nat /\ CopyOK(req[q])
  BY DEF Decide, IInv, TypeOK, ReqOK
<1>2. CASE req' = [req EXCEPT ![q].pc = "rotating", ![q].at = now]
  <2>1. [req[q] EXCEPT !.pc = "rotating", !.at = now] \in Request
    BY <1>1 DEF Request
  <2>2. req' \in [Requests -> Request] /\ \A r \in Requests \ {q} : req'[r] = req[r]
    BY <1>1, <1>2, <2>1
  <2>3. req'[q] = [req[q] EXCEPT !.pc = "rotating", !.at = now]
    BY <1>1, <1>2
  <2>4. /\ req'[q].pc = "rotating" /\ req'[q].at = now /\ req'[q].cookie = req[q].cookie
        /\ req'[q].copy = req[q].copy
    BY <1>1, <2>3 DEF Request
  <2>5. row[req[q].cookie].created <= now
    BY <1>1 DEF CopyOK, IInv, RowOK
  <2>6. ReqOK(q)'
    BY <1>1, <2>4, <2>5 DEF ReqOK, CopyOK
  <2> QED
    BY <1>1, <2>2, <2>6, Moved
<1>3. CASE Done(q)
  BY <1>1, <1>3, Ended, Moved
<1> QED
  BY <1>2, <1>3 DEF Decide

LEMMA NotRotatedIInv ==
  ASSUME IInv, NEW q \in Requests, NotRotated(q)
  PROVE  IInv'
BY Ended, Moved DEF NotRotated

LEMMA CloseIInv ==
  ASSUME IInv, NEW q \in Requests, Close(q)
  PROVE  IInv'
<1>1. UNCHANGED <<now, stored, row, events>> /\ req \in [Requests -> Request] /\ req[q] \in Request
      /\ req' = [req EXCEPT ![q].pc = "sweeping", ![q].found = stored] /\ stored \subseteq Sessions
  BY DEF Close, IInv, TypeOK
<1>2. [req[q] EXCEPT !.pc = "sweeping", !.found = stored] \in Request
  BY <1>1 DEF Request
<1>3. req' \in [Requests -> Request] /\ \A r \in Requests \ {q} : req'[r] = req[r]
  BY <1>1, <1>2
<1>4. req'[q].pc = "sweeping" /\ req'[q].found = stored
  BY <1>1 DEF Request
<1>5. SweepOK(stored)
  BY DEF IInv, RowOK, SweepOK
<1>6. ReqOK(q)'
  BY <1>1, <1>4, <1>5 DEF ReqOK, SweepOK
<1> QED
  BY <1>1, <1>3, <1>6, Moved

(***************************************************************************)
(* The steps of a request that write rows                                  *)
(***************************************************************************)
LEMMA TouchIInv ==
  ASSUME IInv, NEW q \in Requests, Touch(q)
  PROVE  IInv' /\ Kept
<1>1. /\ CopyOK(req[q])
      /\ row \in [Sessions -> Row] /\ stored \subseteq Sessions /\ now \in Nat
      /\ req \in [Requests -> Request] /\ req[q] \in Request
  BY DEF Touch, IInv, TypeOK, ReqOK
<1>2. PICK s \in stored, copy \in Row : s = req[q].cookie /\ copy = req[q].copy
  BY <1>1 DEF CopyOK
<1>3. /\ copy.seen <= now /\ copy.created = row[s].created /\ copy.until = row[s].until
      /\ copy.idle = Earlier(copy.seen + IdleWindow, copy.until)
  BY <1>1, <1>2 DEF CopyOK
<1>4. row' = [row EXCEPT ![s] = [row[s] EXCEPT !.seen = copy.seen, !.idle = copy.idle]]
      /\ UNCHANGED <<now, stored, events>>
  BY <1>2 DEF Touch, Touched
<1>5. [row[s] EXCEPT !.seen = copy.seen, !.idle = copy.idle] \in Row
  BY <1>1 DEF Row
<1>6. /\ row' \in [Sessions -> Row]
      /\ \A u \in Sessions \ {s} : row'[u] = row[u]
      /\ row'[s] = [row[s] EXCEPT !.seen = copy.seen, !.idle = copy.idle]
  BY <1>1, <1>4, <1>5
<1>7. /\ row'[s].login = row[s].login /\ row'[s].created = row[s].created
      /\ row'[s].seen = copy.seen /\ row'[s].idle = copy.idle /\ row'[s].until = row[s].until
      /\ row'[s].rotated = row[s].rotated /\ row'[s].revoked = row[s].revoked
  BY <1>1, <1>6 DEF Row
<1>8. Kept /\ now' \in Nat /\ now <= now'
  BY <1>1, <1>4, <1>6, <1>7 DEF Kept
<1>9. ASSUME NEW u \in stored PROVE RowOK(u)'
  <2>1. row'[u].seen <= now' /\ row'[u].idle = Earlier(row'[u].seen + IdleWindow, row'[u].until)
    BY <1>3, <1>4, <1>6, <1>7 DEF IInv, RowOK
  <2> QED
    BY <1>8, <2>1, RowStays
<1>10. /\ \A u \in Sessions : /\ row'[u].login = row[u].login /\ row'[u].created = row[u].created
                               /\ row'[u].rotated = row[u].rotated /\ row'[u].revoked = row[u].revoked
  BY <1>6, <1>7
<1>11. (\A u \in Sessions \ stored : row[u].revoked = "no")'
       /\ OneSuccessor' /\ TipIsNewest' /\ OneEventPerLogout' /\ OnlyNewerSurvive'
  BY <1>1, <1>4, <1>10 DEF IInv, OneSuccessor, TipIsNewest, OneEventPerLogout, OnlyNewerSurvive
<1>12. /\ req' \in [Requests -> Request]
       /\ \A p \in Requests \ {q} : req'[p] = req[p]
       /\ ReqOK(q)'
  <2>1. CASE Done(q)
    BY <2>1, Ended
  <2>2. CASE req' = [req EXCEPT ![q].pc = "deciding"]
    <3>1. [req[q] EXCEPT !.pc = "deciding"] \in Request
      BY <1>1 DEF Request
    <3>2. /\ req'[q].pc = "deciding" /\ req'[q].cookie = s /\ req'[q].copy = copy
      BY <1>1, <1>2, <2>2 DEF Request
    <3>3. ReqOK(q)'
      BY <1>3, <1>4, <1>7, <3>2 DEF ReqOK, CopyOK
    <3> QED
      BY <1>1, <2>2, <3>1, <3>3
  <2>3. CASE \E pc \in {"reloading", "revoking"} : Goto(q, pc, s)
    BY <1>1, <1>4, <2>3, WentOn DEF ReqOK
  <2>4. CASE \E t \in stored : Goto(q, "revokingOwn", t)
    BY <1>1, <1>4, <2>4, WentOn DEF ReqOK
  <2>5. CASE Goto(q, "closing", None)
    BY <2>5, WentOn DEF ReqOK
  <2> QED
    BY <1>2, <2>1, <2>2, <2>3, <2>4, <2>5 DEF Touch
<1>13. \A p \in Requests : ReqOK(p)'
  BY <1>4, <1>8, <1>12, ReqStays
<1>14. TypeOK'
  BY <1>4, <1>6, <1>12 DEF IInv, TypeOK
<1> QED
  BY <1>4, <1>8, <1>9, <1>11, <1>13, <1>14 DEF IInv

LEMMA RotateIInv ==
  ASSUME IInv, NEW q \in Requests, NEW t \in Sessions, Rotate(q, t)
  PROVE  IInv' /\ Kept
<1>1. /\ CopyOK(req[q]) /\ row[req[q].cookie].created <= req[q].at /\ req[q].at <= now
      /\ row \in [Sessions -> Row] /\ stored \subseteq Sessions /\ now \in Nat
      /\ req[q] \in Request
  BY DEF Rotate, IInv, TypeOK, ReqOK
<1>2. PICK s \in stored, time \in Nat, login \in Sessions, until \in Nat :
        s = req[q].cookie /\ time = req[q].at /\ login = row[s].login /\ until = req[q].copy.until
  BY <1>1 DEF CopyOK, Request, Row
<1>3. /\ row[s].created <= time /\ time <= now /\ until = row[s].until
      /\ row[s].revoked = "no" /\ row[s].rotated = None /\ t \notin stored
      /\ stored' = stored \cup {t} /\ UNCHANGED <<now, events>> /\ Done(q)
  BY <1>1, <1>2 DEF CopyOK, Rotate, Rotatable
<1>4. row' = [u \in Sessions |->
                CASE u = s -> PastGrace([row[s] EXCEPT !.rotated = time], time)
                  [] u = t -> NewRow(login, time, until)
                  [] u \in stored \ {s} -> PastGrace(row[u], time)
                  [] OTHER -> row[u]]
  BY <1>2 DEF Rotate
<1>5. PICK r \in Row : r = [row[s] EXCEPT !.rotated = time]
  <2>1. [row[s] EXCEPT !.rotated = time] \in Row
    BY <1>1 DEF Row
  <2> QED
    BY <2>1
<1>6. /\ r.login = login /\ r.created = row[s].created /\ r.seen = row[s].seen /\ r.idle = row[s].idle
      /\ r.until = row[s].until /\ r.rotated = time /\ r.revoked = "no"
  BY <1>1, <1>2, <1>3, <1>5 DEF Row
<1>7. /\ row'[s] = PastGrace(r, time)
      /\ row'[t] = NewRow(login, time, until)
      /\ \A u \in stored \ {s} : row'[u] = PastGrace(row[u], time)
      /\ \A u \in Sessions \ stored' : row'[u] = row[u]
  BY <1>1, <1>3, <1>4, <1>5
<1>8. /\ row'[t] \in Row /\ row'[t].login = login /\ row'[t].created = time /\ row'[t].seen = time
      /\ row'[t].idle = Earlier(time + IdleWindow, until) /\ row'[t].until = until
      /\ row'[t].rotated = None /\ row'[t].revoked = "no"
  BY <1>7, NewRowType DEF NewRow
<1>9. \A u \in stored :
        /\ row'[u] \in Row /\ row'[u].login = row[u].login /\ row'[u].created = row[u].created
        /\ row'[u].seen = row[u].seen /\ row'[u].idle = row[u].idle /\ row'[u].until = row[u].until
        /\ row[u].revoked # "no" => row'[u].revoked = row[u].revoked
        /\ row'[u].revoked \in {row[u].revoked, "ROTATED"}
        /\ row'[u].rotated = IF u = s THEN time ELSE row[u].rotated
  <2> SUFFICES ASSUME NEW u \in stored
               PROVE
        /\ row'[u] \in Row /\ row'[u].login = row[u].login /\ row'[u].created = row[u].created
        /\ row'[u].seen = row[u].seen /\ row'[u].idle = row[u].idle /\ row'[u].until = row[u].until
        /\ row[u].revoked # "no" => row'[u].revoked = row[u].revoked
        /\ row'[u].revoked \in {row[u].revoked, "ROTATED"}
        /\ row'[u].rotated = IF u = s THEN time ELSE row[u].rotated
    OBVIOUS
  <2>1. CASE u = s
    <3>1. PICK x \in Row : x = PastGrace(r, time)
      BY PastGraceType
    <3>2. /\ x.login = r.login /\ x.created = r.created /\ x.seen = r.seen /\ x.idle = r.idle
          /\ x.until = r.until /\ x.rotated = r.rotated /\ x.revoked \in {r.revoked, "ROTATED"}
      BY <3>1, PastGraceType
    <3> QED
      BY <1>2, <1>3, <1>6, <1>7, <2>1, <3>1, <3>2
  <2>2. CASE u # s
    <3>1. row[u] \in Row /\ row'[u] = PastGrace(row[u], time)
      BY <1>1, <1>7, <2>2
    <3> QED
      BY <2>2, <3>1, PastGraceType
  <2> QED
    BY <2>1, <2>2
<1>10. row' \in [Sessions -> Row]
  <2>1. \A u \in Sessions : row'[u] \in Row
    BY <1>1, <1>3, <1>7, <1>8, <1>9
  <2> QED
    BY <1>4, <2>1
<1>11. Kept /\ now' \in Nat /\ now <= now'
  BY <1>1, <1>3, <1>9 DEF Kept
<1>12. ASSUME NEW u \in stored' PROVE RowOK(u)'
  <2>1. CASE u \in stored
    <3>1. row'[u].seen <= now' /\ row'[u].idle = Earlier(row'[u].seen + IdleWindow, row'[u].until)
      BY <1>3, <1>9, <2>1 DEF IInv, RowOK
    <3> QED
      BY <1>11, <2>1, <3>1, RowStays
  <2>2. CASE u = t
    <3>1. RowOK(s)' /\ row'[s].login = login /\ row'[s].until = until
      <4>1. row'[s].seen <= now' /\ row'[s].idle = Earlier(row'[s].seen + IdleWindow, row'[s].until)
        BY <1>3, <1>9 DEF IInv, RowOK
      <4> QED
        BY <1>2, <1>3, <1>9, <1>11, <4>1, RowStays
    <3> QED
      BY <1>3, <1>8, <2>2, <3>1 DEF RowOK
  <2> QED
    BY <1>3, <2>1, <2>2
<1>13. \A u \in stored : row[u].login = login => row[u].created <= time
  <2>1. \A u \in stored : row[u].created \in Nat
    BY <1>1 DEF Row
  <2> QED
    BY <1>2, <1>3, <2>1 DEF IInv, TipIsNewest
<1>14. \A u \in Sessions \ stored' : row'[u].revoked = "no"
  BY <1>3, <1>7 DEF IInv
<1>15. OneSuccessor'
  BY <1>2, <1>3, <1>8, <1>9, SessionsAssumption DEF IInv, OneSuccessor
<1>16. TipIsNewest'
  <2>1. \A u \in stored : row[u].login = login /\ row'[u].rotated = None => FALSE
    BY <1>2, <1>3, <1>9, SessionsAssumption DEF IInv, OneSuccessor
  <2>2. \A u, v \in stored :
          row'[u].login = row'[v].login /\ row'[u].rotated = None => row'[v].created <= row'[u].created
    BY <1>3, <1>9, SessionsAssumption DEF IInv, TipIsNewest
  <2> QED
    BY <1>3, <1>8, <1>9, <1>13, <2>1, <2>2 DEF TipIsNewest
<1>17. OneEventPerLogout'
  <2>1. \A u \in Sessions : row'[u].revoked = "LOGOUT" <=> row[u].revoked = "LOGOUT"
    BY <1>1, <1>3, <1>7, <1>8, <1>9 DEF IInv
  <2> QED
    BY <1>3, <2>1 DEF IInv, OneEventPerLogout
<1>18. OnlyNewerSurvive'
  <2> SUFFICES ASSUME NEW u \in stored', NEW c \in stored', row'[u].login = row'[c].login,
                      row'[c].revoked = "CLOSED", row'[u].revoked = "no"
               PROVE  row'[u].created >= row'[c].created /\ u # row'[u].login
    BY DEF OnlyNewerSurvive
  <2>1. c \in stored /\ row[c].revoked = "CLOSED" /\ row[c].created \in Nat
    BY <1>1, <1>3, <1>8, <1>9 DEF Row
  <2>2. CASE u \in stored
    BY <1>9, <2>1, <2>2 DEF IInv, OnlyNewerSurvive
  <2>3. CASE u = t
    BY <1>2, <1>3, <1>8, <1>9, <1>13, <2>1, <2>3 DEF IInv, RowOK
  <2> QED
    BY <1>3, <2>2, <2>3
<1>19. \A p \in Requests : ReqOK(p)'
  <2>1. \A v \in stored' \ stored, c \in stored :
          row'[v].login = row[c].login => row[c].created <= row'[v].created
    BY <1>3, <1>8, <1>13
  <2> QED
    BY <1>3, <1>11, <2>1, Ended, ReqStays
<1>20. TypeOK'
  BY <1>1, <1>3, <1>10, Ended DEF IInv, TypeOK
<1> QED
  BY <1>11, <1>12, <1>14, <1>15, <1>16, <1>17, <1>18, <1>19, <1>20 DEF IInv

LEMMA CreateIInv ==
  ASSUME IInv, NEW q \in Requests, NEW t \in Sessions, NEW p \in Sessions \cup {None},
         Create(q, t, p)
  PROVE  IInv' /\ Kept
<1>1. /\ req[q].at \in Nat /\ req[q].at <= now
      /\ row \in [Sessions -> Row] /\ stored \subseteq Sessions /\ now \in Nat
  BY DEF Create, IInv, TypeOK, ReqOK, Request
<1>2. PICK time \in Nat, until \in Nat : time = req[q].at /\ until = time + Lifetime
  BY <1>1, SessionsAssumption
<1>3. /\ time <= now /\ t \notin stored /\ stored' = stored \cup {t} /\ UNCHANGED <<now, events>>
      /\ row' = [row EXCEPT ![t] = NewRow(t, time, until)]
  BY <1>1, <1>2 DEF Create
<1>4. /\ row'[t] \in Row /\ row'[t].login = t /\ row'[t].created = time /\ row'[t].seen = time
      /\ row'[t].idle = Earlier(time + IdleWindow, until) /\ row'[t].until = until
      /\ row'[t].rotated = None /\ row'[t].revoked = "no"
  BY <1>1, <1>3, NewRowType DEF NewRow
<1>5. row' \in [Sessions -> Row] /\ \A u \in Sessions \ {t} : row'[u] = row[u]
  BY <1>1, <1>3, <1>4
<1>6. \A u \in stored : u # t /\ row'[u] = row[u] /\ row'[u].login # t /\ row[u].login \in stored
  BY <1>1, <1>3, <1>5 DEF IInv, RowOK
<1>7. Kept /\ now' \in Nat /\ now <= now'
  BY <1>1, <1>3, <1>6 DEF Kept
<1>8. ASSUME NEW u \in stored' PROVE RowOK(u)'
  <2>1. CASE u \in stored
    <3>1. row'[u].seen <= now' /\ row'[u].idle = Earlier(row'[u].seen + IdleWindow, row'[u].until)
      BY <1>3, <1>6, <2>1 DEF IInv, RowOK
    <3> QED
      BY <1>7, <2>1, <3>1, RowStays
  <2>2. CASE u = t
    BY <1>2, <1>3, <1>4, <2>2 DEF RowOK
  <2> QED
    BY <1>3, <2>1, <2>2
<1>9. /\ \A u \in Sessions \ stored' : row'[u].revoked = "no"
      /\ OneEventPerLogout'
  <2>1. \A u \in Sessions : row'[u].revoked = row[u].revoked
    BY <1>3, <1>4, <1>5 DEF IInv
  <2> QED
    BY <1>3, <2>1 DEF IInv, OneEventPerLogout
<1>10. OneSuccessor'
  BY <1>3, <1>4, <1>6 DEF IInv, OneSuccessor
<1>11. TipIsNewest'
  BY <1>3, <1>4, <1>6 DEF IInv, TipIsNewest
<1>12. OnlyNewerSurvive'
  BY <1>3, <1>4, <1>6 DEF IInv, OnlyNewerSurvive
<1>13. /\ req' \in [Requests -> Request]
       /\ \A r \in Requests \ {q} : req'[r] = req[r]
       /\ ReqOK(q)'
  <2>1. CASE Done(q)
    BY <2>1, Ended
  <2>2. CASE Goto(q, "replacing", p) /\ p \in stored
    BY <1>1, <1>3, <2>2, WentOn DEF ReqOK
  <2> QED
    BY <2>1, <2>2 DEF Create
<1>14. \A r \in Requests : ReqOK(r)'
  <2>1. \A v \in stored' \ stored, c \in stored :
          row'[v].login = row[c].login => row[c].created <= row'[v].created
    BY <1>3, <1>4, <1>6
  <2> QED
    BY <1>7, <1>13, <2>1, ReqStays
<1>15. TypeOK'
  BY <1>1, <1>3, <1>5, <1>13 DEF IInv, TypeOK
<1> QED
  BY <1>7, <1>8, <1>9, <1>10, <1>11, <1>12, <1>14, <1>15 DEF IInv

(***************************************************************************)
(* The steps of a request that revoke                                      *)
(***************************************************************************)
LEMMA OneRevoked ==
  ASSUME IInv, NEW q \in Requests, Done(q), UNCHANGED <<now, stored>>,
         NEW t \in stored, NEW reason \in {"LOGOUT", "ROTATED"},
         row' = [row EXCEPT ![t] = Revoked(row[t], reason)],
         events' = [events EXCEPT ![t] = IF reason = "LOGOUT" /\ row[t].revoked = "no" THEN events[t] + 1 ELSE events[t]]
  PROVE  IInv' /\ Kept
<1>1. row \in [Sessions -> Row] /\ stored \subseteq Sessions /\ now \in Nat /\ events \in [Sessions -> Nat]
  BY DEF IInv, TypeOK
<1>2. PICK r \in Row : r = Revoked(row[t], reason)
  BY <1>1, RevokedType DEF Reasons
<1>3. /\ r.login = row[t].login /\ r.created = row[t].created /\ r.seen = row[t].seen
      /\ r.idle = row[t].idle /\ r.until = row[t].until /\ r.rotated = row[t].rotated
      /\ r.revoked = IF row[t].revoked = "no" THEN reason ELSE row[t].revoked
  BY <1>1, <1>2, RevokedType DEF Reasons
<1>4. row' \in [Sessions -> Row] /\ row'[t] = r /\ \A u \in Sessions \ {t} : row'[u] = row[u]
  BY <1>1, <1>2
<1>5. \A u \in stored :
        /\ row'[u].login = row[u].login /\ row'[u].created = row[u].created
        /\ row'[u].seen = row[u].seen /\ row'[u].idle = row[u].idle
        /\ row'[u].until = row[u].until /\ row'[u].rotated = row[u].rotated
        /\ row[u].revoked # "no" => row'[u].revoked = row[u].revoked
        /\ row'[u].revoked \in {row[u].revoked, "LOGOUT", "ROTATED"}
  BY <1>1, <1>3, <1>4
<1>6. Kept /\ (\A u \in stored' : RowOK(u)') /\ OneSuccessor' /\ TipIsNewest'
  BY <1>4, <1>5, OnlyRevoked
<1>7. \A u \in Sessions \ stored' : row'[u].revoked = "no"
  BY <1>4 DEF IInv
<1>8. OneEventPerLogout'
  <2>1. \A u \in Sessions \ {t} : events'[u] = IF row'[u].revoked = "LOGOUT" THEN 1 ELSE 0
    BY <1>1, <1>4 DEF IInv, OneEventPerLogout
  <2>2. events'[t] = IF row'[t].revoked = "LOGOUT" THEN 1 ELSE 0
    <3>1. events[t] = IF row[t].revoked = "LOGOUT" THEN 1 ELSE 0
      BY <1>1 DEF IInv, OneEventPerLogout
    <3>2. events'[t] = IF reason = "LOGOUT" /\ row[t].revoked = "no" THEN events[t] + 1 ELSE events[t]
      BY <1>1
    <3> QED
      BY <1>3, <1>4, <3>1, <3>2
  <2> QED
    BY <2>1, <2>2 DEF OneEventPerLogout
<1>9. OnlyNewerSurvive'
  BY <1>5 DEF IInv, OnlyNewerSurvive
<1>10. \A p \in Requests : ReqOK(p)'
  BY <1>1, <1>6, Ended, ReqStays
<1>11. TypeOK'
  BY <1>1, <1>4, Ended DEF IInv, TypeOK
<1> QED
  BY <1>6, <1>7, <1>8, <1>9, <1>10, <1>11 DEF IInv

\* The event is written by the statement that finds the session unrevoked.
LEMMA EventOfRevocation ==
  ASSUME IInv, NEW t \in stored, RevokeWithEvent(t)
  PROVE  /\ row' = [row EXCEPT ![t] = Revoked(row[t], "LOGOUT")]
         /\ events' = [events EXCEPT ![t] = IF row[t].revoked = "no" THEN events[t] + 1 ELSE events[t]]
<1>1. /\ row \in [Sessions -> Row] /\ row[t] \in Row /\ t \in Sessions
      /\ row' = [row EXCEPT ![t] = Revoked(row[t], "LOGOUT")]
      /\ events' = [events EXCEPT ![t] = IF row'[t] = row[t] THEN events[t] ELSE events[t] + 1]
  BY DEF RevokeWithEvent, IInv, TypeOK
<1>2. row'[t] = Revoked(row[t], "LOGOUT")
  BY <1>1
<1>3. row'[t].revoked = IF row[t].revoked = "no" THEN "LOGOUT" ELSE row[t].revoked
  BY <1>1, <1>2, RevokedType DEF Reasons
<1>4. row'[t] = row[t] <=> row[t].revoked # "no"
  BY <1>2, <1>3 DEF Revoked
<1> QED
  BY <1>1, <1>4

LEMMA LogOutIInv ==
  ASSUME IInv, NEW q \in Requests, LogOut(q)
  PROVE  IInv' /\ Kept
<1>1. PICK t \in stored : t = req[q].target
  BY DEF LogOut, IInv, ReqOK
<1> QED
  BY <1>1, EventOfRevocation, OneRevoked DEF LogOut

LEMMA RevokeOwnIInv ==
  ASSUME IInv, NEW q \in Requests, RevokeOwn(q)
  PROVE  IInv' /\ Kept
<1>1. PICK t \in stored : t = req[q].target
  BY DEF RevokeOwn, IInv, ReqOK
<1>2. CASE RevokeWithEvent(t)
  BY <1>1, <1>2, EventOfRevocation, OneRevoked DEF RevokeOwn
<1>3. CASE UNCHANGED <<row, events>>
  BY <1>3, Ended, Moved DEF RevokeOwn, Kept
<1> QED
  BY <1>1, <1>2, <1>3 DEF RevokeOwn

LEMMA ReplaceIInv ==
  ASSUME IInv, NEW q \in Requests, Replace(q)
  PROVE  IInv' /\ Kept
<1>1. PICK t \in stored : t = req[q].target
  BY DEF Replace, IInv, ReqOK
<1>2. /\ row' = [row EXCEPT ![t] = Revoked(row[t], "ROTATED")]
      /\ events' = [events EXCEPT ![t] = events[t]]
  BY <1>1 DEF Replace, IInv, TypeOK
<1> QED
  BY <1>2, OneRevoked DEF Replace

LEMMA SweepIInv ==
  ASSUME IInv, NEW q \in Requests, Sweep(q)
  PROVE  IInv' /\ Kept
<1>1. /\ row \in [Sessions -> Row] /\ stored \subseteq Sessions /\ now \in Nat
      /\ SweepOK(req[q].found) /\ UNCHANGED <<now, stored, events>> /\ Done(q)
  BY DEF Sweep, IInv, TypeOK, ReqOK
<1>2. PICK found \in SUBSET stored : found = req[q].found
  BY <1>1 DEF SweepOK
<1>3. row' = [s \in Sessions |-> IF s \in found /\ Open(s) THEN Revoked(row[s], "CLOSED") ELSE row[s]]
  BY <1>2 DEF Sweep
<1>4. \A s \in Sessions :
        /\ row'[s] \in Row
        /\ row'[s].login = row[s].login /\ row'[s].created = row[s].created
        /\ row'[s].seen = row[s].seen /\ row'[s].idle = row[s].idle
        /\ row'[s].until = row[s].until /\ row'[s].rotated = row[s].rotated
        /\ row[s].revoked # "no" => row'[s].revoked = row[s].revoked
        /\ row[s].revoked = "no" => row'[s].revoked = IF s \in found THEN "CLOSED" ELSE "no"
  <2> SUFFICES ASSUME NEW s \in Sessions
               PROVE  /\ row'[s] \in Row
                      /\ row'[s].login = row[s].login /\ row'[s].created = row[s].created
                      /\ row'[s].seen = row[s].seen /\ row'[s].idle = row[s].idle
                      /\ row'[s].until = row[s].until /\ row'[s].rotated = row[s].rotated
                      /\ row[s].revoked # "no" => row'[s].revoked = row[s].revoked
                      /\ row[s].revoked = "no" => row'[s].revoked = IF s \in found THEN "CLOSED" ELSE "no"
    OBVIOUS
  <2>1. CASE s \in found /\ row[s].revoked = "no"
    <3>1. PICK r \in Row : r = Revoked(row[s], "CLOSED")
      BY <1>1, RevokedType DEF Reasons
    <3>2. /\ r.login = row[s].login /\ r.created = row[s].created /\ r.seen = row[s].seen
          /\ r.idle = row[s].idle /\ r.until = row[s].until /\ r.rotated = row[s].rotated
          /\ r.revoked = "CLOSED"
      BY <1>1, <2>1, <3>1, RevokedType DEF Reasons
    <3>3. row'[s] = r
      BY <1>3, <2>1, <3>1 DEF Open
    <3> QED
      BY <2>1, <3>2, <3>3
  <2>2. CASE ~(s \in found /\ row[s].revoked = "no")
    <3>1. row'[s] = row[s]
      BY <1>3, <2>2 DEF Open
    <3> QED
      BY <1>1, <2>2, <3>1
  <2> QED
    BY <2>1, <2>2
<1>5. row' \in [Sessions -> Row]
  BY <1>3, <1>4
<1>6. Kept /\ (\A s \in stored' : RowOK(s)') /\ OneSuccessor' /\ TipIsNewest'
  BY <1>1, <1>4, <1>5, OnlyRevoked
<1>7. \A s \in Sessions \ stored' : row'[s].revoked = "no"
  BY <1>1, <1>4 DEF IInv
<1>8. OneEventPerLogout'
  <2>1. \A s \in Sessions : row'[s].revoked = "LOGOUT" <=> row[s].revoked = "LOGOUT"
    BY <1>4
  <2> QED
    BY <1>1, <2>1 DEF IInv, OneEventPerLogout
<1>9. OnlyNewerSurvive'
  <2> SUFFICES ASSUME NEW s \in stored, NEW c \in stored, row[s].login = row[c].login,
                      row'[c].revoked = "CLOSED", row'[s].revoked = "no"
               PROVE  row[s].created >= row[c].created /\ s # row[s].login
    BY <1>1, <1>4 DEF OnlyNewerSurvive
  <2>1. row[s].revoked = "no" /\ s \notin found
    BY <1>1, <1>4
  <2>2. CASE row[c].revoked = "CLOSED"
    BY <2>1, <2>2 DEF IInv, OnlyNewerSurvive
  <2>3. CASE row[c].revoked # "CLOSED"
    <3>1. c \in found
      BY <1>1, <1>4, <2>3
    <3>2. row[c].created <= row[s].created /\ row[c].login \in found
      BY <1>1, <1>2, <2>1, <3>1 DEF SweepOK
    <3>3. row[c].created \in Nat /\ row[s].created \in Nat
      BY <1>1 DEF Row
    <3> QED
      BY <2>1, <3>2, <3>3
  <2> QED
    BY <2>2, <2>3
<1>10. \A p \in Requests : ReqOK(p)'
  BY <1>1, <1>6, Ended, ReqStays
<1>11. TypeOK'
  BY <1>1, <1>5, Ended DEF IInv, TypeOK
<1> QED
  BY <1>6, <1>7, <1>8, <1>9, <1>10, <1>11 DEF IInv

(***************************************************************************)
(* The invariant holds                                                     *)
(***************************************************************************)
LEMMA NextIInv ==
  ASSUME IInv, [Next]_vars
  PROVE  IInv' /\ (Kept \/ UNCHANGED row)
<1>1. CASE Tick
  BY <1>1, TickIInv DEF Tick
<1>2. ASSUME NEW q \in Requests, NEW s \in Sessions, Arrive(q, s)
      PROVE  IInv' /\ UNCHANGED row
  BY <1>2, ArriveIInv DEF Arrive, Loaded
<1>3. ASSUME NEW q \in Requests, LogIn(q)
      PROVE  IInv' /\ UNCHANGED row
  BY <1>3, LogInIInv DEF LogIn
<1>4. ASSUME NEW q \in Requests, Reset(q)
      PROVE  IInv' /\ UNCHANGED row
  BY <1>4, ResetIInv DEF Reset
<1>5. ASSUME NEW q \in Requests, Serve(q)
      PROVE  IInv' /\ (Kept \/ UNCHANGED row)
  <2>1. CASE Reload(q)
    BY <2>1, ReloadIInv DEF Reload, Loaded
  <2>2. CASE Touch(q)
    BY <2>2, TouchIInv
  <2>3. CASE Decide(q)
    BY <2>3, DecideIInv DEF Decide
  <2>4. CASE NotRotated(q)
    BY <2>4, NotRotatedIInv DEF NotRotated
  <2>5. ASSUME NEW t \in Sessions, Rotate(q, t)
        PROVE  IInv' /\ Kept
    BY <2>5, RotateIInv
  <2>6. ASSUME NEW t \in Sessions, NEW p \in Sessions \cup {None}, Create(q, t, p)
        PROVE  IInv' /\ Kept
    BY <2>6, CreateIInv
  <2>7. CASE LogOut(q)
    BY <2>7, LogOutIInv
  <2>8. CASE RevokeOwn(q)
    BY <2>8, RevokeOwnIInv
  <2>9. CASE Close(q)
    BY <2>9, CloseIInv DEF Close
  <2>10. CASE Sweep(q)
    BY <2>10, SweepIInv
  <2>11. CASE Replace(q)
    BY <2>11, ReplaceIInv
  <2>12. CASE Fail(q)
    BY <2>12, FailIInv DEF Fail
  <2> QED
    BY <1>5, <2>1, <2>2, <2>3, <2>4, <2>5, <2>6, <2>7, <2>8, <2>9, <2>10, <2>11, <2>12 DEF Serve
<1>6. CASE UNCHANGED vars
  BY <1>6 DEF vars, IInv, TypeOK, RowOK, OneSuccessor, TipIsNewest, OneEventPerLogout, OnlyNewerSurvive,
              ReqOK, CopyOK, SweepOK
<1> QED
  BY <1>1, <1>2, <1>3, <1>4, <1>5, <1>6 DEF Next

LEMMA Invariance == Spec => []IInv
<1>1. Init => IInv
  BY InitIInv
<1>2. IInv /\ [Next]_vars => IInv'
  BY NextIInv
<1> QED
  BY <1>1, <1>2, PTL DEF Spec

\* The variables keep their types, the rows of the table and what a request holds of them included.
THEOREM SessionsTypeCorrect == Spec => []TypeOK
BY Invariance, PTL DEF IInv

(***************************************************************************)
(* However many requests rotate a session at once, at most one session of  *)
(* a login is not rotated (rotateSession() of the repository claims the    *)
(* row with its first statement).                                          *)
(***************************************************************************)
THEOREM OneSuccessorCorrect == Spec => []OneSuccessor
BY Invariance, PTL DEF IInv

(***************************************************************************)
(* No sequence of touches and rotations moves the end of the lifetime or   *)
(* makes an idle window longer or shorter than the role's, although each   *)
(* is computed from columns read earlier (loadValidSession()).             *)
(***************************************************************************)
THEOREM WindowsKeptCorrect == Spec => []WindowsKept
<1>1. IInv => WindowsKept
  BY DEF IInv, RowOK, WindowsKept
<1> QED
  BY <1>1, Invariance, PTL

(***************************************************************************)
(* One event per session that the user ended, and none for those that a    *)
(* rotation or a closing ended (revokeSession(), revokeOwnSession()).      *)
(***************************************************************************)
THEOREM OneEventCorrect == Spec => []OneEventPerLogout
BY Invariance, PTL DEF IInv

(***************************************************************************)
(* A closing leaves of the logins it found nothing but what a rotation     *)
(* stored after it began (revokeAllOwnSessions(), resetPassword()).        *)
(***************************************************************************)
THEOREM OnlyNewerSurviveCorrect == Spec => []OnlyNewerSurvive
BY Invariance, PTL DEF IInv

(***************************************************************************)
(* No request gives a revoked session back, nor changes why it ended       *)
(* (touchSession(), rotateSession(), revokeSession()).                     *)
(***************************************************************************)
THEOREM RevokedForGoodCorrect == Spec => RevokedForGood
<1>1. IInv /\ [Next]_vars =>
        [\A s \in Sessions : row[s].revoked # "no" => row'[s].revoked = row[s].revoked]_vars
  <2> SUFFICES ASSUME IInv, [Next]_vars, NEW s \in Sessions, row[s].revoked # "no"
               PROVE  row'[s].revoked = row[s].revoked
    OBVIOUS
  <2>1. s \in stored
    BY DEF IInv
  <2> QED
    BY <2>1, NextIInv DEF Kept
<1> QED
  BY <1>1, Invariance, PTL DEF Spec, RevokedForGood

=============================================================================
