---------------------------- MODULE RedfishSession ----------------------------
(***************************************************************************)
(* RedfishClient (core/plugins_api/redfish_client.py): one client of one   *)
(* BMC, shared by the coroutines that call get_json, post_json, patch_json *)
(* and post_multipart, which differ in what they send and not in how they  *)
(* authenticate.  A request logs in if it has to, goes out with the        *)
(* session's token or else with the password, and on a 401 drops the token,*)
(* logs in again and is sent a second time.  All of it runs on one loop: a *)
(* step reaches from one await to the next.  _login_lock is an             *)
(* asyncio.Lock: it serves waiters in turn, and nobody overtakes them.     *)
(*                                                                         *)
(* The BMC is outside the code: it may refuse, lose or not understand a    *)
(* login, and end a session whenever it likes.  It answers 401 to a token  *)
(* it does not know and to a wrong password, and to nothing else.          *)
(***************************************************************************)
EXTENDS Naturals, Sequences

CONSTANTS
  Requests,     \* coroutines that use the client
  None,         \* no token, no holder of the lock
  MaxSessions   \* bound: sessions the BMC ever opens

ASSUME NoneAssumption == None \notin Requests \cup Nat
ASSUME MaxAssumption == MaxSessions \in Nat

VARIABLES
  creds,      \* what the client was given: right, wrong or none
  token,      \* self._token, and self._session_uri unless the session strayed
  unavail,    \* self._session_login_unavailable
  lock,       \* who holds _login_lock
  queue,      \* who waits for it, in turn
  req,        \* the coroutine of each request
  closed,     \* close() has been called
  sessions,   \* the BMC's session table
  minted,     \* sessions opened so far
  strayed,    \* sessions the client cannot delete: no answer or no Location came
  dropped     \* history: live sessions a forced re-login has forgotten

bmc  == <<creds, closed, sessions, minted, strayed>>
vars == <<bmc, token, unavail, lock, queue, req, dropped>>

\* carries: the token the request is sent with; refused: the one a 401 was for.
NoReq == [pc |-> "idle", carries |-> None, refused |-> None, second |-> FALSE]

Init ==
  /\ creds \in {"right", "wrong", "none"}
  /\ token = None /\ unavail = FALSE
  /\ lock = None /\ queue = <<>>
  /\ req = [r \in Requests |-> NoReq]
  /\ closed = FALSE
  /\ sessions = {} /\ minted = 0 /\ strayed = {} /\ dropped = {}

-----------------------------------------------------------------------------
(* What a coroutine does between two awaits; q is its request.             *)

\* _request_kwargs: the token if there is one, else the password.
Sent(q, tok) == [q EXCEPT !.pc = "sending", !.carries = tok]

\* Mutation: the token is not looked at again under the lock.
NeedsLoginUnchecked(tok, un) == ~un /\ creds # "none"

NeedsLogin(tok, un) == tok = None /\ ~un /\ creds # "none"

\* login() with the lock its own: a POST to the SessionService, or the request.
UnderLock(r, q, tok, un) ==
  IF NeedsLogin(tok, un)
    THEN lock' = r    /\ req' = [req EXCEPT ![r] = [q EXCEPT !.pc = "posting"]]
    ELSE lock' = None /\ req' = [req EXCEPT ![r] = Sent(q, tok)]

\* login() from its start, behind those who wait for the lock.
Login(r, q, tok, un, waiting) ==
  IF lock = None /\ waiting = <<>>
    THEN UnderLock(r, q, tok, un) /\ queue' = <<>>
    ELSE /\ req' = [req EXCEPT ![r] = [q EXCEPT !.pc = "login"]]
         /\ queue' = Append(waiting, r)
         /\ UNCHANGED lock

\* _ensure_logged_in and, unless that waits, the request itself.
Begin(r) ==
  /\ ~closed /\ req[r].pc = "idle"
  /\ IF token # None \/ unavail \/ creds = "none"
       THEN req' = [req EXCEPT ![r] = Sent(NoReq, token)] /\ UNCHANGED <<lock, queue>>
       ELSE Login(r, NoReq, token, unavail, queue)
  /\ UNCHANGED <<bmc, token, unavail, dropped>>

IsNext(r, pc) == lock = None /\ queue # <<>> /\ Head(queue) = r /\ req[r].pc = pc

\* The first in the queue wakes up inside login().
Enter(r) ==
  /\ IsNext(r, "login")
  /\ UnderLock(r, req[r], token, unavail)
  /\ queue' = Tail(queue)
  /\ UNCHANGED <<bmc, token, unavail, dropped>>

-----------------------------------------------------------------------------
(* The answers to a login.  Every one releases the lock.                   *)

Opens ==
  /\ creds = "right" /\ minted < MaxSessions
  /\ minted' = minted + 1
  /\ sessions' = sessions \cup {minted'}

\* A token and, mostly, a Location to delete the session at.
LoggedIn(r) ==
  /\ req[r].pc = "posting" /\ Opens
  /\ token' = minted'
  /\ \E located \in BOOLEAN : strayed' = IF located THEN strayed ELSE strayed \cup {minted'}
  /\ lock' = None
  /\ req' = [req EXCEPT ![r] = Sent(@, token')]
  /\ UNCHANGED <<creds, closed, unavail, queue, dropped>>

\* Mutation: an answer without X-Auth-Token is a login too, and its token empty.
EmptyToken(r) ==
  /\ req[r].pc = "posting"
  /\ token' = 0
  /\ lock' = None
  /\ req' = [req EXCEPT ![r] = Sent(@, token')]
  /\ UNCHANGED <<bmc, unavail, queue, dropped>>

\* 404, or an answer without X-Auth-Token: Basic from now on.
NoSessionService(r) ==
  /\ req[r].pc = "posting"
  /\ unavail' = TRUE
  /\ lock' = None
  /\ req' = [req EXCEPT ![r] = Sent(@, token)]
  /\ UNCHANGED <<bmc, token, queue, dropped>>

\* The session, if the BMC opened one, is lost on the way.
Lost ==
  \/ UNCHANGED bmc
  \/ Opens /\ strayed' = strayed \cup {minted'} /\ UNCHANGED <<creds, closed>>

\* Mutation: a refused login leaves the lock held.
LoginFailsHolding(r) ==
  /\ req[r].pc = "posting" /\ Lost
  /\ req' = [req EXCEPT ![r] = Sent(@, token)]
  /\ UNCHANGED <<token, unavail, lock, queue, dropped>>

\* Refused, or the connection breaks: the request goes out with the password.
LoginFails(r) ==
  /\ req[r].pc = "posting" /\ Lost
  /\ lock' = None
  /\ req' = [req EXCEPT ![r] = Sent(@, token)]
  /\ UNCHANGED <<token, unavail, queue, dropped>>

\* A timeout is no RedfishError: it leaves login() and the request.
LoginTimesOut(r) ==
  /\ req[r].pc = "posting" /\ Lost
  /\ lock' = None
  /\ req' = [req EXCEPT ![r] = NoReq]
  /\ UNCHANGED <<token, unavail, queue, dropped>>

-----------------------------------------------------------------------------
(* The answers to a request.                                               *)

\* A result, an error that is no 401, a broken connection or a timeout.
Answered(r) ==
  /\ req[r].pc = "sending"
  /\ req' = [req EXCEPT ![r] = NoReq]
  /\ UNCHANGED <<bmc, token, unavail, lock, queue, dropped>>

Unauthorized(r) ==
  /\ req[r].pc = "sending"
  /\ IF req[r].carries # None THEN req[r].carries \notin sessions ELSE creds # "right"

CanRetryAfterRelogin == creds # "none" /\ ~(unavail /\ token = None)

\* The second 401, or one that no login would cure: RedfishHTTPError.
GiveUp(r) ==
  /\ Unauthorized(r)
  /\ req[r].second \/ ~CanRetryAfterRelogin
  /\ req' = [req EXCEPT ![r] = NoReq]
  /\ UNCHANGED <<bmc, token, unavail, lock, queue, dropped>>

\* _force_relogin once it has the lock: the clear, the release, and login().
ForceRelogin(r, q, waiting) ==
  /\ token' = None
  /\ unavail' = FALSE
  /\ dropped' = IF token \in sessions THEN dropped \cup {token} ELSE dropped
  /\ Login(r, q, None, FALSE, waiting)
  /\ UNCHANGED bmc

Retry(r) ==
  /\ Unauthorized(r) /\ ~req[r].second /\ CanRetryAfterRelogin
  /\ LET q == [pc |-> "relogin", carries |-> None, refused |-> req[r].carries,
               second |-> TRUE]
     IN IF lock = None /\ queue = <<>>
          THEN ForceRelogin(r, q, <<>>)
          ELSE /\ req' = [req EXCEPT ![r] = q]
               /\ queue' = Append(queue, r)
               /\ UNCHANGED <<bmc, token, unavail, lock, dropped>>

EnterRelogin(r) ==
  /\ IsNext(r, "relogin")
  /\ ForceRelogin(r, req[r], Tail(queue))

-----------------------------------------------------------------------------
\* close and logout, by whoever made the client, after its requests.  A DELETE
\* that is refused or lost leaves the session behind.
Close ==
  /\ ~closed /\ \A r \in Requests : req[r].pc = "idle"
  /\ closed' = TRUE /\ token' = None
  /\ \/ sessions' = (IF token \in strayed THEN sessions ELSE sessions \ {token})
        /\ UNCHANGED strayed
     \/ token # None /\ strayed' = strayed \cup {token} /\ UNCHANGED sessions
  /\ UNCHANGED <<creds, minted, unavail, lock, queue, req, dropped>>

Evict(s) ==
  /\ s \in sessions
  /\ sessions' = sessions \ {s}
  /\ UNCHANGED <<creds, closed, minted, strayed, token, unavail, lock, queue, req, dropped>>

-----------------------------------------------------------------------------
LoginAnswer(r) == LoggedIn(r) \/ NoSessionService(r) \/ LoginFails(r) \/ LoginTimesOut(r)
Answer(r)      == Answered(r) \/ GiveUp(r) \/ Retry(r)
Wake(r)        == Enter(r) \/ EnterRelogin(r)

Next ==
  \/ \E r \in Requests : Begin(r) \/ Wake(r) \/ LoginAnswer(r) \/ Answer(r)
  \/ Close
  \/ \E s \in sessions : Evict(s)

\* Every request has a total timeout, and the loop wakes whom the lock serves.
Fairness ==
  \A r \in Requests :
    WF_vars(Wake(r)) /\ WF_vars(LoginAnswer(r)) /\ WF_vars(Answer(r))

Spec == Init /\ [][Next]_vars
FairSpec == Spec /\ Fairness

-----------------------------------------------------------------------------
Ids == 1 .. MaxSessions
Tokens == Ids \cup {None}

\* Every variable stays within the domain the client and the BMC give it.
TypeOK ==
  /\ creds \in {"right", "wrong", "none"}
  /\ token \in Tokens /\ unavail \in BOOLEAN /\ closed \in BOOLEAN
  /\ lock \in Requests \cup {None} /\ queue \in Seq(Requests)
  /\ req \in [Requests -> [pc : {"idle", "login", "posting", "sending", "relogin"},
                           carries : Tokens, refused : Tokens, second : BOOLEAN]]
  /\ minted \in 0 .. MaxSessions
  /\ sessions \subseteq 1 .. minted /\ strayed \subseteq 1 .. minted
  /\ dropped \subseteq 1 .. minted

\* Requests that race into a login share one session, and close() frees it
\* (redfish_client.py:139, 322): a session that is alive on the BMC is the one
\* the client holds, one it has never been told how to delete, or one that a
\* re-login for another request has forgotten.
SessionsAccountedFor == sessions \subseteq {token} \cup strayed \cup dropped

\* A request that is repeated after a 401 does not carry the token that got it.
RetryIsFresh ==
  \A r \in Requests :
    req[r].pc = "sending" /\ req[r].second /\ req[r].refused # None =>
      req[r].carries # req[r].refused

\* Every request ends, whoever else waits for the lock and however logins fail.
RequestEnds == \A r \in Requests : req[r].pc # "idle" ~> req[r].pc = "idle"

=============================================================================
