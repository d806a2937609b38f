------------------------------ MODULE Sessions ------------------------------
(***************************************************************************)
(* The sessions of a user: what auth.session.ts, auth.service.ts and       *)
(* auth.repository.ts do with the rows of the sessions table while the API *)
(* serves several requests at once.                                        *)
(*                                                                         *)
(* A request is cut at its awaits: what one reads, another may change      *)
(* before it is used.  A transaction of one statement, or whose rows are   *)
(* locked by its first statement, is one step.  The closing of all         *)
(* sessions is two: under READ COMMITTED its UPDATE changes the rows it    *)
(* saw when it began, and it may have to wait for their locks.             *)
(*                                                                         *)
(* The API and PostgreSQL have one clock.  A token, once issued, may be    *)
(* presented at any time by whoever holds it.                              *)
(***************************************************************************)
EXTENDS Naturals

CONSTANTS
  Sessions,          \* rows of the sessions table
  Requests,          \* requests that may be served at the same time
  IdleWindow,        \* SESSION_DURATIONS[role].idleMs
  Lifetime,          \* SESSION_DURATIONS[role].absoluteMs
  RotationInterval,  \* SESSION_ROTATION_INTERVAL_MS[role]
  Grace,             \* SESSION_ROTATION_GRACE_MS
  MaxTime,           \* bound: where the clock stops
  None               \* no session, NULL

ASSUME SessionsAssumption ==
  /\ IdleWindow \in Nat \ {0}
  /\ Lifetime \in Nat
  /\ IdleWindow <= Lifetime
  /\ RotationInterval \in Nat
  /\ Grace \in Nat
  /\ MaxTime \in Nat
  /\ None \notin Sessions
  /\ None \notin Nat

VARIABLES
  now,     \* the clock
  stored,  \* the rows there are
  row,     \* their columns
  events,  \* how many auth.logout and auth.session.revoked events each session has
  req      \* the requests being served

vars == <<now, stored, row, events, req>>

-----------------------------------------------------------------------------
\* CLOSED is LOGOUT_ALL or PASSWORD_RESET.
Reasons == {"LOGOUT", "CLOSED", "ROTATED"}

\* login is the session that the login created from which this one descends by rotations.
Row == [login: Sessions, created: Nat, seen: Nat, idle: Nat, until: Nat,
        rotated: Nat \cup {None}, revoked: Reasons \cup {"no"}]

Earlier(a, b) == IF a < b THEN a ELSE b

NewRow(login, time, until) ==
  [login |-> login, created |-> time, seen |-> time,
   idle |-> Earlier(time + IdleWindow, until), until |-> until,
   rotated |-> None, revoked |-> "no"]

(***************************************************************************)
(* cookie is the session a request was made with, copy its row as the      *)
(* request knows it, target the session it is about, at the time it read   *)
(* from the clock, found the rows there were when the UPDATE of a closing  *)
(* began.  POST /logout loads its session twice: "reloading" comes before  *)
(* the second time and "touchingAgain" ends it.                            *)
(***************************************************************************)
Request == [pc: {"idle", "touching", "reloading", "touchingAgain", "deciding", "rotating", "revoking",
                 "revokingOwn", "closing", "sweeping", "creating", "replacing"},
            cookie: Sessions \cup {None}, target: Sessions \cup {None},
            copy: Row \cup {None}, at: Nat, found: SUBSET Sessions]
NoRequest == [pc |-> "idle", cookie |-> None, target |-> None,
              copy |-> None, at |-> 0, found |-> {}]

Init ==
  /\ now = 0
  /\ stored = {}
  /\ row = [s \in Sessions |-> NewRow(s, 0, 0)]
  /\ events = [s \in Sessions |-> 0]
  /\ req = [q \in Requests |-> NoRequest]

Tick ==
  /\ now < MaxTime
  /\ now' = now + 1
  /\ UNCHANGED <<stored, row, events, req>>

-----------------------------------------------------------------------------
(***************************************************************************)
(* The steps of a request                                                  *)
(***************************************************************************)

\* login(), once its attempt has verified the password.
LogIn(q) ==
  /\ req[q].pc = "idle"
  /\ req' = [req EXCEPT ![q] = [NoRequest EXCEPT !.pc = "creating", !.at = now]]
  /\ UNCHANGED <<now, stored, row, events>>

\* resetPassword(), once its token is used and the password replaced.
Reset(q) ==
  /\ req[q].pc = "idle"
  /\ req' = [req EXCEPT ![q] = [NoRequest EXCEPT !.pc = "closing"]]
  /\ UNCHANGED <<now, stored, row, events>>

\* On to pc, which is about s.
Goto(q, pc, s) == req' = [req EXCEPT ![q] = [NoRequest EXCEPT !.pc = pc, !.target = s]]
Done(q) == req' = [req EXCEPT ![q] = NoRequest]

\* A statement fails, the CSRF token is refused, or the process dies: transactions are undone,
\* what was committed stays.
Fail(q) ==
  /\ req[q].pc # "idle"
  /\ Done(q)
  /\ UNCHANGED <<now, stored, row, events>>

-----------------------------------------------------------------------------
(***************************************************************************)
(* loadValidSession()                                                      *)
(***************************************************************************)

Valid(r, time) == /\ r.rotated # None => time < r.rotated + Grace
                  /\ time < r.idle
                  /\ time < r.until

\* Mutant of Slid: nothing stops it at the end of the lifetime.
SlidForEver(r, time) == time + (r.idle - r.seen)

\* The window the session already had, from now on.
Slid(r, time) == Earlier(time + (r.idle - r.seen), r.until)

\* findSessionByTokenHash() and the checks, with the clock of the moment: from here on the
\* request holds a copy, as the row is to be.
Loaded(q, s, pc) ==
  /\ row[s].revoked = "no"
  /\ Valid(row[s], now)
  /\ req' = [req EXCEPT ![q] =
               [NoRequest EXCEPT !.pc = pc, !.cookie = s,
                                 !.copy = [row[s] EXCEPT !.seen = now, !.idle = Slid(row[s], now)]]]
  /\ UNCHANGED <<now, stored, row, events>>

\* currentUser(), for a request with the session s.  One whose session is not valid goes no
\* further: 401, or for a logout 204 if it is still not valid when logout() loads it again.
Arrive(q, s) ==
  /\ req[q].pc = "idle"
  /\ s \in stored
  /\ Loaded(q, s, "touching")

\* logout() loads what requireCsrfIfSessionValid() has loaded before.
Reload(q) ==
  /\ req[q].pc = "reloading"
  /\ \/ Loaded(q, req[q].target, "touchingAgain")
     \/ /\ row[req[q].target].revoked = "no" => ~Valid(row[req[q].target], now)
        /\ Done(q)
        /\ UNCHANGED <<now, stored, row, events>>

\* Mutant of Touched: the whole row is written back as it was read.
TouchedWhole(r, copy) == copy

Touched(r, copy) == [r EXCEPT !.seen = copy.seen, !.idle = copy.idle]

\* touchSession(), and what comes next: nothing in a request that only needs the current user,
\* else the first step of POST /session/rotate, /logout or /logout-all, or of
\* DELETE /sessions/:sessionId.  Nothing before this step depends on which it is.
Touch(q) ==
  LET s == req[q].cookie IN
  /\ req[q].pc \in {"touching", "touchingAgain"}
  /\ row' = [row EXCEPT ![s] = Touched(row[s], req[q].copy)]
  /\ IF req[q].pc = "touchingAgain"
     THEN Goto(q, "revoking", s)
     ELSE \/ Done(q)
          \/ req' = [req EXCEPT ![q].pc = "deciding"]
          \/ Goto(q, "reloading", s)
          \/ Goto(q, "closing", None)
          \/ \E t \in stored : Goto(q, "revokingOwn", t)
  /\ UNCHANGED <<now, stored, events>>

-----------------------------------------------------------------------------
(***************************************************************************)
(* Rotation                                                                *)
(***************************************************************************)

\* rotateSession() of the service: due, by the row it has read?
Decide(q) ==
  LET due == /\ req[q].copy.rotated = None
             /\ now >= req[q].copy.created + RotationInterval IN
  /\ req[q].pc = "deciding"
  /\ IF due THEN req' = [req EXCEPT ![q].pc = "rotating", ![q].at = now] ELSE Done(q)
  /\ UNCHANGED <<now, stored, row, events>>

\* Mutant of Rotatable: nothing tells that another request has rotated the session.
RotatableTwice(r) == r.revoked = "no"

Rotatable(r) == r.revoked = "no" /\ r.rotated = None

\* What a rotation at a time makes of any other row: past its grace it is revoked.
PastGrace(r, time) == IF r.revoked = "no" /\ r.rotated # None /\ r.rotated + Grace <= time
                      THEN [r EXCEPT !.revoked = "ROTATED"] ELSE r

\* rotateSession() of the repository: the first statement claims the session, t succeeds it.
Rotate(q, t) ==
  LET s    == req[q].cookie
      time == req[q].at IN
  /\ req[q].pc = "rotating"
  /\ Rotatable(row[s])
  /\ t \notin stored
  /\ stored' = stored \cup {t}
  /\ row' = [u \in Sessions |->
               CASE u = s -> PastGrace([row[s] EXCEPT !.rotated = time], time)
                 [] u = t -> NewRow(row[s].login, time, req[q].copy.until)
                 [] u \in stored \ {s} -> PastGrace(row[u], time)
                 [] OTHER -> row[u]]
  /\ Done(q)
  /\ UNCHANGED <<now, events>>

\* Another request has rotated or revoked it: nothing changes.
NotRotated(q) ==
  /\ req[q].pc = "rotating"
  /\ ~Rotatable(row[req[q].cookie])
  /\ Done(q)
  /\ UNCHANGED <<now, stored, row, events>>

-----------------------------------------------------------------------------
(***************************************************************************)
(* Revocation                                                              *)
(***************************************************************************)

\* Mutant of Revoked: a revocation overwrites an earlier one.
RevokedAgain(r, reason) == [r EXCEPT !.revoked = reason]

Revoked(r, reason) == IF r.revoked = "no" THEN [r EXCEPT !.revoked = reason] ELSE r

\* revokeSession() and revokeOwnSession() for the user: the row and its event, or neither.
RevokeWithEvent(s) ==
  /\ row' = [row EXCEPT ![s] = Revoked(@, "LOGOUT")]
  /\ events' = [events EXCEPT ![s] = IF row'[s] = row[s] THEN @ ELSE @ + 1]

\* POST /logout, whose session was valid.
LogOut(q) ==
  /\ req[q].pc = "revoking"
  /\ RevokeWithEvent(req[q].target)
  /\ Done(q)
  /\ UNCHANGED <<now, stored>>

\* DELETE /sessions/:sessionId: only a session that is not revoked and has not expired, else 404.
RevokeOwn(q) ==
  LET t == req[q].target IN
  /\ req[q].pc = "revokingOwn"
  /\ IF row[t].revoked = "no" /\ now < row[t].idle /\ now < row[t].until
     THEN RevokeWithEvent(t)
     ELSE UNCHANGED <<row, events>>
  /\ Done(q)
  /\ UNCHANGED <<now, stored>>

\* Mutant of Open: sessions in their grace are left out.
OpenUnrotated(s) == row[s].revoked = "no" /\ row[s].rotated = None

Open(s) == row[s].revoked = "no"

\* POST /logout-all and the reset: the UPDATE sees the rows there are when it begins ...
Close(q) ==
  /\ req[q].pc = "closing"
  /\ req' = [req EXCEPT ![q].pc = "sweeping", ![q].found = stored]
  /\ UNCHANGED <<now, stored, row, events>>

\* ... and revokes those of them that are not revoked when it has their locks.
Sweep(q) ==
  /\ req[q].pc = "sweeping"
  /\ row' = [s \in Sessions |->
               IF s \in req[q].found /\ Open(s)
               THEN Revoked(row[s], "CLOSED")
               ELSE row[s]]
  /\ Done(q)
  /\ UNCHANGED <<now, stored, events>>

-----------------------------------------------------------------------------
(***************************************************************************)
(* Login                                                                   *)
(***************************************************************************)

\* createSessionForUser(); p is the session of the cookie the browser sent, which login() looks
\* up once the new one exists.
Create(q, t, p) ==
  /\ req[q].pc = "creating"
  /\ p # None => p \in stored /\ row[p].created <= req[q].at
  /\ t \notin stored
  /\ stored' = stored \cup {t}
  /\ row' = [row EXCEPT ![t] = NewRow(t, req[q].at, req[q].at + Lifetime)]
  /\ IF p = None THEN Done(q) ELSE Goto(q, "replacing", p)
  /\ UNCHANGED <<now, events>>

\* The session the browser held is revoked once the new one exists.
Replace(q) ==
  LET p == req[q].target IN
  /\ req[q].pc = "replacing"
  /\ row' = [row EXCEPT ![p] = Revoked(@, "ROTATED")]
  /\ Done(q)
  /\ UNCHANGED <<now, stored, events>>

-----------------------------------------------------------------------------
Serve(q) ==
  \/ Reload(q) \/ Touch(q) \/ Decide(q) \/ NotRotated(q)
  \/ \E t \in Sessions : Rotate(q, t) \/ \E p \in Sessions \cup {None} : Create(q, t, p)
  \/ LogOut(q) \/ RevokeOwn(q) \/ Close(q) \/ Sweep(q) \/ Replace(q)
  \/ Fail(q)

Next ==
  \/ Tick
  \/ \E q \in Requests :
       \/ \E s \in Sessions : Arrive(q, s)
       \/ LogIn(q)
       \/ Reset(q)
       \/ Serve(q)

Spec == Init /\ [][Next]_vars

-----------------------------------------------------------------------------
TypeOK ==
  /\ now \in Nat
  /\ stored \subseteq Sessions
  /\ row \in [Sessions -> Row]
  /\ events \in [Sessions -> Nat]
  /\ req \in [Requests -> Request]

(***************************************************************************)
(* Revocation is one way and keeps its first reason, whatever the requests *)
(* that read the row before write to it (revokeSession(), touchSession()). *)
(***************************************************************************)
RevokedForGood ==
  [][\A s \in Sessions : row[s].revoked # "no" => row'[s].revoked = row[s].revoked]_vars

(***************************************************************************)
(* Two simultaneous rotations never fork a session: of all sessions that   *)
(* descend from one login, at most one is not rotated, whatever was        *)
(* revoked meanwhile (rotateSession() of the repository), so that the list *)
(* of listActiveSessions() shows each login once.                          *)
(***************************************************************************)
OneSuccessor ==
  \A s, t \in stored :
    row[s].login = row[t].login /\ row[s].rotated = None /\ row[t].rotated = None => s = t

(***************************************************************************)
(* The idle window of every session is IdleWindow from the last touch, cut *)
(* at the lifetime of the login it descends from, although each touch      *)
(* computes it from columns it read before others changed them             *)
(* (loadValidSession(), rotateSessionForUser()).                           *)
(***************************************************************************)
WindowsKept ==
  \A s \in stored :
    /\ row[s].until = row[row[s].login].created + Lifetime
    /\ row[s].idle = Earlier(row[s].seen + IdleWindow, row[s].until)

(***************************************************************************)
(* A session the user revoked or logged out has exactly one event, and     *)
(* one that ended for another reason has none, whatever requests ended it  *)
(* at the same time (H1, revokeSession()).                                 *)
(***************************************************************************)
OneEventPerLogout ==
  \A s \in Sessions : events[s] = IF row[s].revoked = "LOGOUT" THEN 1 ELSE 0

(***************************************************************************)
(* Of the logins a closing of all sessions found, it may leave only what a *)
(* rotation stored meanwhile: never the session of a login itself, nor one *)
(* older than a session it revoked, such as one in its grace               *)
(* (revokeAllOwnSessions(), resetPassword()).                              *)
(***************************************************************************)
OnlyNewerSurvive ==
  \A s, c \in stored : row[s].login = row[c].login /\ row[c].revoked = "CLOSED" /\ row[s].revoked = "no"
                        => row[s].created >= row[c].created /\ s # row[s].login

(***************************************************************************)
(* After a closing of all sessions nothing is left of the logins whose     *)
(* sessions it revoked: docs/API_SPEC.md:210 and 235.                      *)
(***************************************************************************)
NothingSurvives ==
  \A s, c \in stored :
    row[s].login = row[c].login /\ row[c].revoked = "CLOSED" => row[s].revoked # "no"

=============================================================================
