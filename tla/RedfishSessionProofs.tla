------------------------ MODULE RedfishSessionProofs ------------------------
(***************************************************************************)
(* What a RedfishClient keeps for any set of requests and any number of    *)
(* sessions: one session for all who race for a login, none lost but in    *)
(* the named ways, a retry that does not repeat the refused token, and a   *)
(* lock whose queue holds exactly those who wait for it.                   *)
(***************************************************************************)
EXTENDS RedfishSession, SequenceTheorems, TLAPS

-----------------------------------------------------------------------------
(* The inductive invariant, by what each part relates.                     *)

Known == (1 .. minted) \cup {None}

\* Nobody holds a token that the BMC has not handed out: a new one is new to all.
TokensKnown ==
  /\ token \in Known
  /\ \A r \in Requests : req[r].carries \in Known /\ req[r].refused \in Known

\* The holder of the lock is the one with a login under way, and while it is, the
\* client has no token: a login never replaces a session.
OneLogin ==
  /\ \A r \in Requests : req[r].pc = "posting" => lock = r /\ token = None
  /\ lock # None => req[lock].pc = "posting"

\* Those who wait for the lock are in its queue, once each, and nobody else is.
Lists(seq, S) ==
  /\ \A i \in 1 .. Len(seq) : seq[i] \in S
  /\ \A i, j \in 1 .. Len(seq) : seq[i] = seq[j] => i = j
  /\ \A r \in S : \E i \in 1 .. Len(seq) : seq[i] = r

Waiting == {r \in Requests : req[r].pc \in {"login", "relogin"}}
QueueHoldsWaiters == Lists(queue, Waiting)

\* From the clearing of a refused token on, no token the repetition may pick up
\* is that one.
Fresh(r) ==
  req[r].second /\ req[r].refused # None =>
    /\ req[r].pc \in {"login", "posting"} => token # req[r].refused
    /\ req[r].pc = "sending" => req[r].carries # req[r].refused

IInv ==
  /\ TypeOK
  /\ TokensKnown
  /\ OneLogin
  /\ QueueHoldsWaiters
  /\ SessionsAccountedFor
  /\ \A r \in Requests : Fresh(r)

-----------------------------------------------------------------------------
(* A sequence that lists a set, under the operations of the lock's queue.  *)

LEMMA AppendLists ==
  ASSUME NEW seq \in Seq(Requests), NEW S, Lists(seq, S), NEW r \in Requests, r \notin S
  PROVE  Lists(Append(seq, r), S \cup {r})
<1> DEFINE new == Append(seq, r)
<1>1. /\ Len(new) = Len(seq) + 1 /\ Len(seq) \in Nat
      /\ new[Len(seq) + 1] = r
      /\ \A i \in 1 .. Len(seq) : new[i] = seq[i]
  OBVIOUS
<1> HIDE DEF new
<1>2. ASSUME NEW i \in 1 .. Len(new) PROVE new[i] \in S \cup {r}
  BY <1>1, <1>2 DEF Lists
<1>3. ASSUME NEW i \in 1 .. Len(new), NEW j \in 1 .. Len(new), new[i] = new[j] PROVE i = j
  <2>1. CASE i \in 1 .. Len(seq) /\ j \in 1 .. Len(seq)
    BY <1>1, <1>3, <2>1 DEF Lists
  <2>2. CASE i = Len(seq) + 1 \/ j = Len(seq) + 1
    BY <1>1, <1>3, <2>2 DEF Lists
  <2> QED
    BY <1>1, <2>1, <2>2
<1>4. ASSUME NEW k \in S \cup {r} PROVE \E i \in 1 .. Len(new) : new[i] = k
  <2>1. CASE k \in S
    <3>1. PICK i \in 1 .. Len(seq) : seq[i] = k
      BY <2>1 DEF Lists
    <3> QED
      BY <1>1, <3>1
  <2>2. CASE k = r
    BY <1>1, <2>2
  <2> QED
    BY <1>4, <2>1, <2>2
<1> QED
  BY <1>2, <1>3, <1>4 DEF Lists, new

LEMMA TailLists ==
  ASSUME NEW seq \in Seq(Requests), NEW S, Lists(seq, S), seq # <<>>
  PROVE  /\ Lists(Tail(seq), S \ {Head(seq)}) /\ Tail(seq) \in Seq(Requests)
         /\ Head(seq) \in S /\ Head(seq) \in Requests
<1>1. /\ Tail(seq) \in Seq(Requests) /\ Head(seq) = seq[1] /\ Head(seq) \in Requests
      /\ Len(seq) \in Nat /\ Len(seq) # 0 /\ Len(Tail(seq)) = Len(seq) - 1
      /\ \A i \in 1 .. Len(Tail(seq)) : Tail(seq)[i] = seq[i + 1]
  BY HeadTailProperties
<1> DEFINE rest == Tail(seq)
           first == Head(seq)
<1> HIDE DEF rest, first
<1>2. /\ first = seq[1] /\ Len(rest) = Len(seq) - 1 /\ 1 \in 1 .. Len(seq)
      /\ \A i \in 1 .. Len(rest) : rest[i] = seq[i + 1] /\ i + 1 \in 1 .. Len(seq)
  BY <1>1 DEF rest, first
<1>3. ASSUME NEW i \in 1 .. Len(rest) PROVE rest[i] \in S \ {first}
  <2>1. seq[i + 1] \in S /\ seq[i + 1] # seq[1]
    BY <1>2 DEF Lists
  <2> QED
    BY <1>2, <2>1
<1>4. ASSUME NEW i \in 1 .. Len(rest), NEW j \in 1 .. Len(rest), rest[i] = rest[j] PROVE i = j
  <2>1. i + 1 = j + 1
    BY <1>2, <1>4 DEF Lists
  <2> QED
    BY <2>1
<1>5. ASSUME NEW k \in S \ {first} PROVE \E i \in 1 .. Len(rest) : rest[i] = k
  <2>1. PICK i \in 1 .. Len(seq) : seq[i] = k
    BY DEF Lists
  <2>2. i - 1 \in 1 .. Len(rest) /\ (i - 1) + 1 = i
    BY <1>1, <1>2, <2>1
  <2> QED
    BY <1>2, <2>1, <2>2
<1>6. first \in S
  BY <1>2 DEF Lists
<1> QED
  BY <1>1, <1>3, <1>4, <1>5, <1>6 DEF Lists, rest, first

LEMMA EmptyLists ==
  ASSUME NEW S
  PROVE  Lists(<<>>, S) <=> S = {}
<1>1. Len(<<>>) = 0 /\ \A i \in 1 .. 0 : FALSE
  OBVIOUS
<1> QED
  BY <1>1 DEF Lists

-----------------------------------------------------------------------------
(* IInv is inductive.  Every action of a request writes one record.        *)

Request == [pc : {"idle", "login", "posting", "sending", "relogin"},
            carries : Tokens, refused : Tokens, second : BOOLEAN]
Queues(pc) == pc \in {"login", "relogin"}

\* What each action has to ensure: its new record p, the token it leaves, the lock
\* and the queue.
LEMMA RequestKeeps ==
  ASSUME IInv, NEW r \in Requests, NEW p \in Request, req' = [req EXCEPT ![r] = p],
         creds' = creds, closed' = closed, unavail' \in BOOLEAN,
         minted' \in 0 .. MaxSessions, minted <= minted',
         sessions' \subseteq 1 .. minted', strayed' \subseteq 1 .. minted',
         dropped' \subseteq 1 .. minted', SessionsAccountedFor',
         p.carries \in (1 .. minted') \cup {None}, p.refused \in (1 .. minted) \cup {None},
         \/ token' \in {token, None}
         \/ token' = minted' /\ minted' = minted + 1 /\ lock = r,
         \/ lock' = lock /\ lock # r /\ p.pc # "posting"
         \/ lock' = None /\ lock \in {None, r} /\ p.pc # "posting"
         \/ lock' = r /\ lock = None /\ p.pc = "posting" /\ token' = None,
         queue' \in Seq(Requests),
         Lists(queue', IF Queues(p.pc) THEN (Waiting \ {r}) \cup {r} ELSE Waiting \ {r}),
         p.second /\ p.refused # None =>
           /\ p.pc = "login" => token' # p.refused
           /\ p.pc = "sending" => p.carries # p.refused
  PROVE  IInv'
<1>0. /\ req \in [Requests -> Request] /\ minted \in 0 .. MaxSessions /\ MaxSessions \in Nat
      /\ None \notin Nat /\ None \notin Requests /\ token \in (1 .. minted) \cup {None}
      /\ lock \in Requests \cup {None} /\ token \in Tokens /\ creds \in {"right", "wrong", "none"}
      /\ closed \in BOOLEAN
  BY NoneAssumption, MaxAssumption DEF IInv, TypeOK, TokensKnown, Known, Request
<1>1. req'[r] = p /\ \A k \in Requests : k # r => req'[k] = req[k]
  BY <1>0
<1>2. token' \in (1 .. minted') \cup {None} /\ token' \in Tokens
  BY <1>0 DEF Tokens, Ids
<1>3. TypeOK'
  BY <1>0, <1>2 DEF TypeOK, Request
<1>4. TokensKnown'
  <2>1. \A k \in Requests : req[k].carries \in Known /\ req[k].refused \in Known
    BY DEF IInv, TokensKnown
  <2>2. (1 .. minted) \subseteq 1 .. minted'
    BY <1>0
  <2> QED
    BY <1>1, <1>2, <2>1, <2>2 DEF TokensKnown, Known
<1>5. OneLogin'
  <2>1. /\ \A k \in Requests : req[k].pc = "posting" => lock = k /\ token = None
        /\ lock # None => req[lock].pc = "posting"
    BY DEF IInv, OneLogin
  <2>2. ASSUME NEW k \in Requests, req'[k].pc = "posting" PROVE lock' = k /\ token' = None
    BY <1>0, <1>1, <2>1, <2>2
  <2>3. lock' # None => req'[lock'].pc = "posting"
    BY <1>0, <1>1, <2>1
  <2> QED
    BY <2>2, <2>3 DEF OneLogin
<1>6. QueueHoldsWaiters'
  <2>1. Waiting' = IF Queues(p.pc) THEN (Waiting \ {r}) \cup {r} ELSE Waiting \ {r}
    BY <1>1 DEF Waiting, Queues
  <2> QED
    BY <2>1 DEF QueueHoldsWaiters
<1>7. ASSUME NEW k \in Requests PROVE Fresh(k)'
  <2>1. CASE k = r
    BY <1>0, <1>1, <2>1 DEF Fresh
  <2>2. CASE k # r
    <3>1. req'[k] = req[k] /\ Fresh(k) /\ req[k].refused \in (1 .. minted) \cup {None}
      BY <1>1, <2>2 DEF IInv, TokensKnown, Known
    <3>2. req[k].refused # None => minted + 1 # req[k].refused /\ None # req[k].refused
      BY <1>0, <3>1
    <3> QED
      BY <3>1, <3>2 DEF Fresh
  <2> QED
    BY <2>1, <2>2
<1> QED
  BY <1>3, <1>4, <1>5, <1>6, <1>7 DEF IInv

\* What the invariant says of one request and of what no action of a request writes.
LEMMA Basics ==
  ASSUME IInv, NEW r \in Requests
  PROVE  /\ req \in [Requests -> Request] /\ req[r] \in Request /\ NoReq \in Request
         /\ req[r].carries \in (1 .. minted) \cup {None}
         /\ req[r].refused \in (1 .. minted) \cup {None}
         /\ token \in (1 .. minted) \cup {None} /\ (1 .. minted) \cup {None} \subseteq Tokens
         /\ minted \in 0 .. MaxSessions /\ MaxSessions \in Nat /\ unavail \in BOOLEAN
         /\ sessions \subseteq 1 .. minted /\ strayed \subseteq 1 .. minted
         /\ dropped \subseteq 1 .. minted
         /\ queue \in Seq(Requests) /\ Lists(queue, Waiting)
         /\ None \notin Nat /\ None \notin Requests /\ lock \in Requests \cup {None}
         /\ req[r].pc = "posting" => lock = r /\ token = None
         /\ lock = r => req[r].pc = "posting"
         /\ SessionsAccountedFor /\ Fresh(r)
<1>1. req \in [Requests -> Request] /\ TypeOK
  BY DEF IInv, TypeOK, Request
<1>2. None \notin Nat /\ None \notin Requests /\ MaxSessions \in Nat
  BY NoneAssumption, MaxAssumption
<1>3. (1 .. minted) \cup {None} \subseteq Tokens
  BY <1>1, <1>2 DEF TypeOK, Tokens, Ids
<1>4. NoReq \in Request
  BY DEF NoReq, Request, Tokens
<1> QED
  BY <1>1, <1>2, <1>3, <1>4
  DEF IInv, TypeOK, TokensKnown, Known, OneLogin, QueueHoldsWaiters

\* login() of r from its start: r leaves the lock's queue alone, or joins it.
LEMMA LoginKeeps ==
  ASSUME IInv, NEW r \in Requests, NEW q \in Request, NEW un, NEW waiting \in Seq(Requests),
         Login(r, q, token', un, waiting),
         Lists(waiting, Waiting \ {r}), req[r].pc # "posting",
         q.carries \in (1 .. minted) \cup {None}, q.refused \in (1 .. minted) \cup {None},
         q.second /\ q.refused # None => token' # q.refused,
         UNCHANGED bmc, unavail' \in BOOLEAN, token' \in {token, None},
         dropped' \subseteq 1 .. minted, SessionsAccountedFor'
  PROVE  IInv'
<1>0. /\ minted' = minted /\ sessions' = sessions /\ strayed' = strayed
      /\ creds' = creds /\ closed' = closed
  BY DEF bmc
<1>1. /\ token' \in (1 .. minted) \cup {None} /\ token' \in Tokens
      /\ minted' \in 0 .. MaxSessions /\ minted <= minted'
      /\ sessions' \subseteq 1 .. minted' /\ strayed' \subseteq 1 .. minted'
      /\ dropped' \subseteq 1 .. minted'
      /\ lock # r
  <2>1. /\ token \in (1 .. minted) \cup {None} /\ (1 .. minted) \cup {None} \subseteq Tokens
        /\ minted \in 0 .. MaxSessions /\ MaxSessions \in Nat
        /\ sessions \subseteq 1 .. minted /\ strayed \subseteq 1 .. minted
        /\ lock # r
    BY Basics
  <2>2. minted' \in 0 .. MaxSessions /\ minted <= minted'
    BY <1>0, <2>1
  <2>3. token' \in (1 .. minted) \cup {None} /\ token' \in Tokens
    BY <2>1
  <2> QED
    BY <1>0, <2>1, <2>2, <2>3
<1>2. CASE lock = None /\ waiting = <<>> /\ NeedsLogin(token', un)
  <2> DEFINE p == [q EXCEPT !.pc = "posting"]
  <2>1. /\ p \in Request /\ p.pc = "posting"
        /\ p.carries = q.carries /\ p.refused = q.refused /\ p.second = q.second
    BY DEF Request
  <2>2. req' = [req EXCEPT ![r] = p] /\ lock' = r /\ queue' = <<>> /\ token' = None
    BY <1>2 DEF Login, UnderLock, NeedsLogin
  <2> HIDE DEF p
  <2>3. Lists(queue', IF Queues(p.pc) THEN (Waiting \ {r}) \cup {r} ELSE Waiting \ {r})
        /\ queue' \in Seq(Requests)
    BY <1>2, <2>1, <2>2 DEF Queues
  <2>4. /\ p.carries \in (1 .. minted') \cup {None} /\ p.refused \in (1 .. minted) \cup {None}
        /\ p.second /\ p.refused # None =>
             /\ p.pc = "login" => token' # p.refused
             /\ p.pc = "sending" => p.carries # p.refused
    BY <1>0, <2>1
  <2> QED
    BY <1>0, <1>1, <1>2, <2>1, <2>2, <2>3, <2>4, RequestKeeps
<1>3. CASE lock = None /\ waiting = <<>> /\ ~NeedsLogin(token', un)
  <2> DEFINE p == Sent(q, token')
  <2>1. /\ p \in Request /\ p.pc = "sending"
        /\ p.carries = token' /\ p.refused = q.refused /\ p.second = q.second
    BY <1>1 DEF Request, Sent
  <2>2. req' = [req EXCEPT ![r] = p] /\ lock' = None /\ queue' = <<>>
    BY <1>3 DEF Login, UnderLock
  <2> HIDE DEF p
  <2>3. Lists(queue', IF Queues(p.pc) THEN (Waiting \ {r}) \cup {r} ELSE Waiting \ {r})
        /\ queue' \in Seq(Requests)
    BY <1>3, <2>1, <2>2 DEF Queues
  <2>4. /\ p.carries \in (1 .. minted') \cup {None} /\ p.refused \in (1 .. minted) \cup {None}
        /\ p.second /\ p.refused # None =>
             /\ p.pc = "login" => token' # p.refused
             /\ p.pc = "sending" => p.carries # p.refused
    BY <1>0, <1>1, <2>1
  <2> QED
    BY <1>0, <1>1, <1>3, <2>1, <2>2, <2>3, <2>4, RequestKeeps
<1>4. CASE ~(lock = None /\ waiting = <<>>)
  <2> DEFINE p == [q EXCEPT !.pc = "login"]
  <2>1. /\ p \in Request /\ p.pc = "login"
        /\ p.carries = q.carries /\ p.refused = q.refused /\ p.second = q.second
    BY DEF Request
  <2>2. req' = [req EXCEPT ![r] = p] /\ lock' = lock /\ queue' = Append(waiting, r)
    BY <1>4 DEF Login
  <2> HIDE DEF p
  <2>3. Lists(queue', (Waiting \ {r}) \cup {r}) /\ queue' \in Seq(Requests)
    BY <2>2, AppendLists, AppendProperties
  <2>4. Lists(queue', IF Queues(p.pc) THEN (Waiting \ {r}) \cup {r} ELSE Waiting \ {r})
    BY <2>1, <2>3 DEF Queues
  <2>5. /\ p.carries \in (1 .. minted') \cup {None} /\ p.refused \in (1 .. minted) \cup {None}
        /\ p.second /\ p.refused # None =>
             /\ p.pc = "login" => token' # p.refused
             /\ p.pc = "sending" => p.carries # p.refused
    BY <1>0, <2>1
  <2> QED
    BY <1>0, <1>1, <2>1, <2>2, <2>3, <2>4, <2>5, RequestKeeps
<1> QED
  BY <1>2, <1>3, <1>4

\* A step of r that leaves the lock's queue alone.
LEMMA AnswerKeeps ==
  ASSUME IInv, NEW r \in Requests, NEW p \in Request, req' = [req EXCEPT ![r] = p],
         ~Queues(req[r].pc), p.pc \in {"idle", "sending"}, queue' = queue,
         creds' = creds, closed' = closed, unavail' \in BOOLEAN,
         minted' \in 0 .. MaxSessions, minted <= minted',
         sessions' \subseteq 1 .. minted', strayed' \subseteq 1 .. minted',
         dropped' = dropped, SessionsAccountedFor',
         p.carries \in (1 .. minted') \cup {None}, p.refused \in (1 .. minted) \cup {None},
         \/ token' = token
         \/ token' = minted' /\ minted' = minted + 1 /\ lock = r,
         \/ lock' = lock /\ lock # r
         \/ lock' = None /\ lock \in {None, r},
         p.second /\ p.refused # None /\ p.pc = "sending" => p.carries # p.refused
  PROVE  IInv'
<1>1. /\ queue' \in Seq(Requests) /\ dropped' \subseteq 1 .. minted'
      /\ \/ token' \in {token, None}
         \/ token' = minted' /\ minted' = minted + 1 /\ lock = r
  <2>1. queue \in Seq(Requests) /\ dropped \subseteq 1 .. minted /\ minted \in 0 .. MaxSessions
    BY Basics
  <2> QED
    BY <2>1
<1>2. Lists(queue', IF Queues(p.pc) THEN (Waiting \ {r}) \cup {r} ELSE Waiting \ {r})
  <2>1. Lists(queue, Waiting)
    BY Basics
  <2>2. Waiting \ {r} = Waiting
    BY DEF Waiting, Queues
  <2> QED
    BY <2>1, <2>2 DEF Queues
<1>3. /\ \/ lock' = lock /\ lock # r /\ p.pc # "posting"
         \/ lock' = None /\ lock \in {None, r} /\ p.pc # "posting"
         \/ lock' = r /\ lock = None /\ p.pc = "posting" /\ token' = None
      /\ p.second /\ p.refused # None =>
           /\ p.pc = "login" => token' # p.refused
           /\ p.pc = "sending" => p.carries # p.refused
  OBVIOUS
<1> QED
  BY <1>1, <1>2, <1>3, RequestKeeps

\* What the BMC does to the session table when it opens a session.
LEMMA OpensKnown ==
  ASSUME IInv, NEW r \in Requests, Opens
  PROVE  /\ minted' = minted + 1 /\ minted' \in 0 .. MaxSessions /\ minted <= minted'
         /\ sessions' = sessions \cup {minted'} /\ sessions' \subseteq 1 .. minted'
         /\ strayed \cup {minted'} \subseteq 1 .. minted' /\ strayed \subseteq 1 .. minted'
         /\ (1 .. minted) \subseteq 1 .. minted' /\ minted' \in Tokens
         /\ minted' \notin (1 .. minted) \cup {None} /\ minted' \in 1 .. minted'
<1>1. /\ minted \in 0 .. MaxSessions /\ MaxSessions \in Nat /\ None \notin Nat
      /\ sessions \subseteq 1 .. minted /\ strayed \subseteq 1 .. minted
  BY Basics
<1>2. /\ minted' = minted + 1 /\ minted' \in 0 .. MaxSessions /\ minted <= minted'
      /\ sessions' = sessions \cup {minted'} /\ (1 .. minted) \subseteq 1 .. minted'
      /\ minted' \in 1 .. minted' /\ minted' \in Nat /\ minted' \notin 1 .. minted
      /\ minted' \in 1 .. MaxSessions
  BY <1>1 DEF Opens
<1> QED
  BY <1>1, <1>2 DEF Tokens, Ids

LEMMA BeginKeeps == ASSUME IInv, NEW r \in Requests, Begin(r) PROVE IInv'
<1>0. /\ UNCHANGED bmc /\ token' = token /\ unavail' = unavail /\ dropped' = dropped
      /\ minted' = minted /\ sessions' = sessions /\ strayed' = strayed
      /\ creds' = creds /\ closed' = closed /\ req[r].pc = "idle"
  BY DEF Begin, bmc
<1>1. /\ NoReq \in Request /\ NoReq.carries = None /\ NoReq.refused = None
      /\ NoReq.second = FALSE /\ req[r].pc # "posting" /\ ~Queues(req[r].pc)
  BY <1>0, Basics DEF NoReq, Queues
<1>2. /\ token \in (1 .. minted) \cup {None} /\ token \in Tokens
      /\ minted \in 0 .. MaxSessions /\ MaxSessions \in Nat /\ unavail \in BOOLEAN
      /\ sessions \subseteq 1 .. minted /\ strayed \subseteq 1 .. minted
      /\ dropped \subseteq 1 .. minted /\ queue \in Seq(Requests) /\ Lists(queue, Waiting)
      /\ lock # r /\ SessionsAccountedFor
  BY <1>1, Basics
<1>3. SessionsAccountedFor' /\ Lists(queue, Waiting \ {r})
  <2>1. Waiting \ {r} = Waiting
    BY <1>1 DEF Waiting, Queues
  <2> QED
    BY <1>0, <1>2, <2>1 DEF SessionsAccountedFor
<1>4. CASE token # None \/ unavail \/ creds = "none"
  <2> DEFINE p == Sent(NoReq, token)
  <2>1. /\ p \in Request /\ p.pc = "sending"
        /\ p.carries = token /\ p.refused = None /\ p.second = FALSE
    BY <1>1, <1>2 DEF Request, Sent
  <2>2. req' = [req EXCEPT ![r] = p] /\ lock' = lock /\ queue' = queue
    BY <1>4 DEF Begin
  <2> HIDE DEF p
  <2>3. /\ unavail' \in BOOLEAN /\ minted' \in 0 .. MaxSessions /\ minted <= minted'
        /\ sessions' \subseteq 1 .. minted' /\ strayed' \subseteq 1 .. minted'
        /\ p.carries \in (1 .. minted') \cup {None} /\ p.refused \in (1 .. minted) \cup {None}
    BY <1>0, <1>2, <2>1
  <2>4. p.second /\ p.refused # None /\ p.pc = "sending" => p.carries # p.refused
    BY <2>1
  <2> QED
    BY <1>0, <1>1, <1>2, <1>3, <2>1, <2>2, <2>3, <2>4, AnswerKeeps
<1>5. CASE ~(token # None \/ unavail \/ creds = "none")
  <2>1. Login(r, NoReq, token, unavail, queue)
    BY <1>5 DEF Begin
  <2>2. Login(r, NoReq, token', unavail, queue)
    BY <1>0, <2>1
  <2>3. /\ unavail' \in BOOLEAN /\ token' \in {token, None} /\ dropped' \subseteq 1 .. minted
        /\ NoReq.carries \in (1 .. minted) \cup {None}
        /\ NoReq.refused \in (1 .. minted) \cup {None}
        /\ NoReq.second /\ NoReq.refused # None => token' # NoReq.refused
    BY <1>0, <1>1, <1>2
  <2> QED
    BY <1>0, <1>1, <1>2, <1>3, <2>2, <2>3, LoginKeeps
<1> QED
  BY <1>4, <1>5

\* The lock is free for the first in its queue, who was waiting and is so no more.
LEMMA NextUp ==
  ASSUME IInv, NEW r \in Requests, NEW pc, IsNext(r, pc)
  PROVE  /\ Tail(queue) \in Seq(Requests) /\ Lists(Tail(queue), Waiting \ {r})
         /\ lock = None /\ req[r].pc = pc
<1>1. queue \in Seq(Requests) /\ Lists(queue, Waiting)
  BY Basics
<1> QED
  BY <1>1, TailLists DEF IsNext

LEMMA EnterKeeps == ASSUME IInv, NEW r \in Requests, Enter(r) PROVE IInv'
<1> DEFINE q == req[r]
<1>0. /\ token' = token /\ unavail' = unavail /\ dropped' = dropped
      /\ minted' = minted /\ sessions' = sessions /\ strayed' = strayed
      /\ creds' = creds /\ closed' = closed /\ queue' = Tail(queue)
      /\ IsNext(r, "login") /\ UnderLock(r, q, token, unavail)
  BY DEF Enter, bmc
<1>1. /\ queue' \in Seq(Requests) /\ Lists(queue', Waiting \ {r})
      /\ lock = None /\ q.pc = "login"
  BY <1>0, NextUp
<1>2. /\ token \in (1 .. minted) \cup {None} /\ token \in Tokens /\ q \in Request
      /\ q.carries \in (1 .. minted) \cup {None} /\ q.refused \in (1 .. minted) \cup {None}
      /\ minted \in 0 .. MaxSessions /\ MaxSessions \in Nat /\ unavail \in BOOLEAN
      /\ sessions \subseteq 1 .. minted /\ strayed \subseteq 1 .. minted
      /\ dropped \subseteq 1 .. minted /\ SessionsAccountedFor /\ Fresh(r) /\ lock # r
  BY <1>1, Basics
<1>3. q.second /\ q.refused # None => token # q.refused
  BY <1>1, <1>2 DEF Fresh
<1> HIDE DEF q
<1>4. /\ SessionsAccountedFor' /\ unavail' \in BOOLEAN /\ minted' \in 0 .. MaxSessions
      /\ minted <= minted' /\ sessions' \subseteq 1 .. minted' /\ strayed' \subseteq 1 .. minted'
      /\ dropped' \subseteq 1 .. minted' /\ token' \in {token, None}
  BY <1>0, <1>2 DEF SessionsAccountedFor
<1>5. CASE NeedsLogin(token, unavail)
  <2> DEFINE p == [q EXCEPT !.pc = "posting"]
  <2>1. /\ p \in Request /\ p.pc = "posting"
        /\ p.carries = q.carries /\ p.refused = q.refused /\ p.second = q.second
    BY <1>2 DEF Request
  <2>2. req' = [req EXCEPT ![r] = p] /\ lock' = r /\ token' = None
    BY <1>0, <1>5 DEF UnderLock, NeedsLogin
  <2> HIDE DEF p
  <2>3. Lists(queue', IF Queues(p.pc) THEN (Waiting \ {r}) \cup {r} ELSE Waiting \ {r})
    BY <1>1, <2>1 DEF Queues
  <2>4. /\ p.carries \in (1 .. minted') \cup {None} /\ p.refused \in (1 .. minted) \cup {None}
        /\ p.second /\ p.refused # None =>
             /\ p.pc = "login" => token' # p.refused
             /\ p.pc = "sending" => p.carries # p.refused
    BY <1>0, <1>2, <2>1
  <2> QED
    BY <1>0, <1>1, <1>4, <2>1, <2>2, <2>3, <2>4, RequestKeeps
<1>6. CASE ~NeedsLogin(token, unavail)
  <2> DEFINE p == Sent(q, token)
  <2>1. /\ p \in Request /\ p.pc = "sending"
        /\ p.carries = token /\ p.refused = q.refused /\ p.second = q.second
    BY <1>2 DEF Request, Sent
  <2>2. req' = [req EXCEPT ![r] = p] /\ lock' = None
    BY <1>0, <1>6 DEF UnderLock
  <2> HIDE DEF p
  <2>3. Lists(queue', IF Queues(p.pc) THEN (Waiting \ {r}) \cup {r} ELSE Waiting \ {r})
    BY <1>1, <2>1 DEF Queues
  <2>4. /\ p.carries \in (1 .. minted') \cup {None} /\ p.refused \in (1 .. minted) \cup {None}
        /\ p.second /\ p.refused # None =>
             /\ p.pc = "login" => token' # p.refused
             /\ p.pc = "sending" => p.carries # p.refused
    BY <1>0, <1>2, <1>3, <2>1
  <2> QED
    BY <1>0, <1>1, <1>4, <2>1, <2>2, <2>3, <2>4, RequestKeeps
<1> QED
  BY <1>5, <1>6

\* What all four answers to a login have in common.
LEMMA Posting ==
  ASSUME IInv, NEW r \in Requests, req[r].pc = "posting"
  PROVE  /\ lock = r /\ token = None /\ ~Queues(req[r].pc) /\ unavail \in BOOLEAN
         /\ req[r] \in Request /\ NoReq \in Request
         /\ req[r].refused \in (1 .. minted) \cup {None}
         /\ minted \in 0 .. MaxSessions /\ MaxSessions \in Nat /\ None \notin Nat
         /\ sessions \subseteq strayed \cup dropped
         /\ sessions \subseteq 1 .. minted /\ strayed \subseteq 1 .. minted
<1>1. /\ lock = r /\ token = None /\ ~Queues(req[r].pc) /\ unavail \in BOOLEAN
      /\ req[r] \in Request /\ NoReq \in Request
      /\ req[r].refused \in (1 .. minted) \cup {None}
      /\ minted \in 0 .. MaxSessions /\ MaxSessions \in Nat /\ None \notin Nat
      /\ sessions \subseteq 1 .. minted /\ strayed \subseteq 1 .. minted
      /\ SessionsAccountedFor
  BY Basics DEF Queues
<1>2. \A s \in sessions : s # None
  BY <1>1
<1> QED
  BY <1>1, <1>2 DEF SessionsAccountedFor

LEMMA SentFields ==
  ASSUME NEW q \in Request, NEW tok \in Tokens
  PROVE  /\ Sent(q, tok) \in Request /\ Sent(q, tok).pc = "sending"
         /\ Sent(q, tok).carries = tok /\ Sent(q, tok).refused = q.refused
         /\ Sent(q, tok).second = q.second
BY DEF Request, Sent

LEMMA NoReqFields ==
  /\ NoReq \in Request /\ NoReq.pc = "idle" /\ NoReq.carries = None
  /\ NoReq.refused = None /\ NoReq.second = FALSE
BY DEF NoReq, Request, Tokens

LEMMA LoggedInKeeps == ASSUME IInv, NEW r \in Requests, LoggedIn(r) PROVE IInv'
<1> DEFINE q == req[r]
           p == Sent(q, token')
<1>0. /\ q.pc = "posting" /\ Opens /\ token' = minted' /\ lock' = None
      /\ strayed' = strayed \/ strayed' = strayed \cup {minted'}
      /\ req' = [req EXCEPT ![r] = p]
      /\ creds' = creds /\ closed' = closed /\ unavail' = unavail /\ queue' = queue
      /\ dropped' = dropped
  BY DEF LoggedIn
<1>1. /\ lock = r /\ token = None /\ ~Queues(q.pc) /\ unavail \in BOOLEAN
      /\ q \in Request /\ q.refused \in (1 .. minted) \cup {None}
      /\ sessions \subseteq strayed \cup dropped
  BY <1>0, Posting
<1>2. /\ minted' = minted + 1 /\ minted' \in 0 .. MaxSessions /\ minted <= minted'
      /\ sessions' = sessions \cup {minted'} /\ sessions' \subseteq 1 .. minted'
      /\ strayed \cup {minted'} \subseteq 1 .. minted' /\ minted' \in Tokens
      /\ minted' \notin (1 .. minted) \cup {None} /\ minted' \in 1 .. minted'
  BY <1>0, OpensKnown
<1> HIDE DEF q
<1>3. /\ p \in Request /\ p.pc = "sending" /\ p.carries = minted' /\ p.refused = q.refused
  BY <1>0, <1>1, <1>2, SentFields
<1>4. SessionsAccountedFor' /\ strayed' \subseteq 1 .. minted'
  BY <1>0, <1>1, <1>2 DEF SessionsAccountedFor
<1> HIDE DEF p
<1>5. /\ p.pc \in {"idle", "sending"} /\ unavail' \in BOOLEAN
      /\ p.carries \in (1 .. minted') \cup {None} /\ p.refused \in (1 .. minted) \cup {None}
      /\ p.second /\ p.refused # None /\ p.pc = "sending" => p.carries # p.refused
  BY <1>0, <1>1, <1>2, <1>3
<1>6. /\ \/ token' = token
         \/ token' = minted' /\ minted' = minted + 1 /\ lock = r
      /\ \/ lock' = lock /\ lock # r
         \/ lock' = None /\ lock \in {None, r}
  BY <1>0, <1>1, <1>2
<1>7. ~Queues(req[r].pc)
  BY <1>1 DEF q
<1> QED
  BY <1>0, <1>2, <1>3, <1>4, <1>5, <1>6, <1>7, AnswerKeeps

LEMMA NoSessionServiceKeeps == ASSUME IInv, NEW r \in Requests, NoSessionService(r) PROVE IInv'
<1> DEFINE q == req[r]
           p == Sent(q, token)
<1>0. /\ q.pc = "posting" /\ unavail' = TRUE /\ lock' = None /\ token' = token
      /\ req' = [req EXCEPT ![r] = p]
      /\ creds' = creds /\ closed' = closed /\ queue' = queue /\ minted' = minted
      /\ sessions' = sessions /\ strayed' = strayed /\ dropped' = dropped
  BY DEF NoSessionService, bmc
<1>1. /\ lock = r /\ token = None /\ ~Queues(q.pc) /\ q \in Request
      /\ q.refused \in (1 .. minted) \cup {None} /\ sessions \subseteq strayed \cup dropped
      /\ minted \in 0 .. MaxSessions /\ MaxSessions \in Nat
      /\ sessions \subseteq 1 .. minted /\ strayed \subseteq 1 .. minted
  BY <1>0, Posting
<1> HIDE DEF q
<1>2. token \in Tokens
  BY <1>1 DEF Tokens
<1>3. /\ p \in Request /\ p.pc = "sending" /\ p.carries = None /\ p.refused = q.refused
  BY <1>1, <1>2, SentFields
<1> HIDE DEF p
<1>4. SessionsAccountedFor'
  BY <1>0, <1>1 DEF SessionsAccountedFor
<1>5. /\ p.pc \in {"idle", "sending"} /\ unavail' \in BOOLEAN
      /\ minted' \in 0 .. MaxSessions /\ minted <= minted'
      /\ sessions' \subseteq 1 .. minted' /\ strayed' \subseteq 1 .. minted'
      /\ p.carries \in (1 .. minted') \cup {None} /\ p.refused \in (1 .. minted) \cup {None}
      /\ p.second /\ p.refused # None /\ p.pc = "sending" => p.carries # p.refused
  BY <1>0, <1>1, <1>3
<1>6. ~Queues(req[r].pc)
  BY <1>1 DEF q
<1> QED
  BY <1>0, <1>1, <1>3, <1>4, <1>5, <1>6, AnswerKeeps

\* A login that fails, whatever the BMC made of it, and what becomes of the request.
LEMMA LostKeeps ==
  ASSUME IInv, NEW r \in Requests, req[r].pc = "posting", Lost,
         lock' = None, UNCHANGED <<token, unavail, queue, dropped>>,
         NEW p \in {Sent(req[r], token), NoReq}, req' = [req EXCEPT ![r] = p]
  PROVE  IInv'
<1>1. /\ lock = r /\ token = None /\ ~Queues(req[r].pc) /\ req[r] \in Request
      /\ req[r].refused \in (1 .. minted) \cup {None} /\ sessions \subseteq strayed \cup dropped
      /\ minted \in 0 .. MaxSessions /\ MaxSessions \in Nat /\ unavail \in BOOLEAN
      /\ sessions \subseteq 1 .. minted /\ strayed \subseteq 1 .. minted
  BY Posting
<1>2. /\ creds' = creds /\ closed' = closed /\ minted' \in 0 .. MaxSessions /\ minted <= minted'
      /\ sessions' \subseteq 1 .. minted' /\ strayed' \subseteq 1 .. minted'
      /\ SessionsAccountedFor'
  <2>1. CASE UNCHANGED bmc
    BY <1>1, <2>1 DEF bmc, SessionsAccountedFor
  <2>2. CASE Opens /\ strayed' = strayed \cup {minted'} /\ UNCHANGED <<creds, closed>>
    <3>1. /\ minted' \in 0 .. MaxSessions /\ minted <= minted'
          /\ sessions' = sessions \cup {minted'} /\ sessions' \subseteq 1 .. minted'
          /\ strayed \cup {minted'} \subseteq 1 .. minted'
      BY <2>2, OpensKnown
    <3> QED
      BY <1>1, <2>2, <3>1 DEF SessionsAccountedFor
  <2> QED
    BY <2>1, <2>2 DEF Lost
<1>3. token \in Tokens
  BY <1>1 DEF Tokens
<1>4. /\ p \in Request /\ p.pc \in {"idle", "sending"} /\ p.carries = None
      /\ p.refused \in {req[r].refused, None}
  BY <1>1, <1>3, SentFields, NoReqFields
<1>5. /\ p.carries \in (1 .. minted') \cup {None} /\ p.refused \in (1 .. minted) \cup {None}
      /\ p.second /\ p.refused # None /\ p.pc = "sending" => p.carries # p.refused
      /\ token' = token /\ queue' = queue /\ dropped' = dropped /\ unavail' \in BOOLEAN
      /\ lock' = None /\ lock \in {None, r}
  BY <1>1, <1>4
<1> QED
  BY <1>1, <1>2, <1>4, <1>5, AnswerKeeps

LEMMA LoginFailsKeeps == ASSUME IInv, NEW r \in Requests, LoginFails(r) PROVE IInv'
<1>1. req' = [req EXCEPT ![r] = Sent(req[r], token)]
  BY DEF LoginFails
<1> QED
  BY <1>1, LostKeeps DEF LoginFails

LEMMA LoginTimesOutKeeps == ASSUME IInv, NEW r \in Requests, LoginTimesOut(r) PROVE IInv'
BY LostKeeps DEF LoginTimesOut

\* A request that is over, with an answer or without.
LEMMA EndsKeeps ==
  ASSUME IInv, NEW r \in Requests, req[r].pc = "sending", req' = [req EXCEPT ![r] = NoReq],
         UNCHANGED <<bmc, token, unavail, lock, queue, dropped>>
  PROVE  IInv'
<1>1. /\ lock # r /\ minted \in 0 .. MaxSessions /\ unavail \in BOOLEAN
      /\ sessions \subseteq 1 .. minted /\ strayed \subseteq 1 .. minted
      /\ SessionsAccountedFor /\ ~Queues(req[r].pc)
  BY Basics DEF Queues
<1>2. /\ creds' = creds /\ closed' = closed /\ minted' \in 0 .. MaxSessions /\ minted <= minted'
      /\ sessions' \subseteq 1 .. minted' /\ strayed' \subseteq 1 .. minted'
      /\ SessionsAccountedFor' /\ unavail' \in BOOLEAN
      /\ token' = token /\ lock' = lock /\ queue' = queue /\ dropped' = dropped
  BY <1>1 DEF bmc, SessionsAccountedFor
<1>3. /\ NoReq.pc \in {"idle", "sending"} /\ NoReq.carries \in (1 .. minted') \cup {None}
      /\ NoReq.refused \in (1 .. minted) \cup {None}
      /\ NoReq.second /\ NoReq.refused # None /\ NoReq.pc = "sending" =>
           NoReq.carries # NoReq.refused
  BY NoReqFields
<1> QED
  BY <1>1, <1>2, <1>3, NoReqFields, AnswerKeeps

LEMMA AnsweredKeeps == ASSUME IInv, NEW r \in Requests, Answered(r) PROVE IInv'
BY EndsKeeps DEF Answered

LEMMA GiveUpKeeps == ASSUME IInv, NEW r \in Requests, GiveUp(r) PROVE IInv'
BY EndsKeeps DEF GiveUp, Unauthorized

\* The clear of the token forgets a live session only under its name.
LEMMA ForceReloginKeeps ==
  ASSUME IInv, NEW r \in Requests, NEW q \in Request, NEW waiting \in Seq(Requests),
         ForceRelogin(r, q, waiting), Lists(waiting, Waiting \ {r}), req[r].pc # "posting",
         q.carries \in (1 .. minted) \cup {None}, q.refused \in (1 .. minted) \cup {None}
  PROVE  IInv'
<1>1. /\ token' = None /\ unavail' = FALSE /\ UNCHANGED bmc
      /\ dropped' = IF token \in sessions THEN dropped \cup {token} ELSE dropped
      /\ Login(r, q, None, FALSE, waiting)
  BY DEF ForceRelogin
<1>2. Login(r, q, token', FALSE, waiting)
  BY <1>1
<1>3. sessions \subseteq 1 .. minted /\ dropped \subseteq 1 .. minted /\ SessionsAccountedFor
  BY Basics
<1>4. dropped' \subseteq 1 .. minted /\ SessionsAccountedFor'
  BY <1>1, <1>3 DEF SessionsAccountedFor, bmc
<1>5. /\ q.second /\ q.refused # None => token' # q.refused
      /\ unavail' \in BOOLEAN /\ token' \in {token, None}
  BY <1>1
<1> QED
  BY <1>1, <1>2, <1>4, <1>5, LoginKeeps

LEMMA RetryKeeps == ASSUME IInv, NEW r \in Requests, Retry(r) PROVE IInv'
<1> DEFINE q == [pc |-> "relogin", carries |-> None, refused |-> req[r].carries,
                 second |-> TRUE]
<1>1. /\ req[r] \in Request /\ req[r].carries \in (1 .. minted) \cup {None}
      /\ (1 .. minted) \cup {None} \subseteq Tokens /\ Lists(queue, Waiting)
      /\ minted \in 0 .. MaxSessions /\ unavail \in BOOLEAN /\ queue \in Seq(Requests)
      /\ sessions \subseteq 1 .. minted /\ strayed \subseteq 1 .. minted
      /\ dropped \subseteq 1 .. minted /\ SessionsAccountedFor
      /\ lock = r => req[r].pc = "posting"
  BY Basics
<1>2. req[r].pc = "sending" /\ ~Queues(req[r].pc) /\ lock # r /\ req[r].pc # "posting"
  BY <1>1 DEF Retry, Unauthorized, Queues
<1>3. Waiting \ {r} = Waiting /\ r \notin Waiting
  BY <1>2 DEF Waiting, Queues
<1>4. /\ q \in Request /\ q.pc = "relogin" /\ q.carries = None
      /\ q.refused = req[r].carries
  BY <1>1 DEF Request
<1>5. IF lock = None /\ queue = <<>>
        THEN ForceRelogin(r, q, <<>>)
        ELSE /\ req' = [req EXCEPT ![r] = q]
             /\ queue' = Append(queue, r)
             /\ UNCHANGED <<bmc, token, unavail, lock, dropped>>
  BY DEF Retry
<1> HIDE DEF q
<1>6. q.carries \in (1 .. minted) \cup {None} /\ q.refused \in (1 .. minted) \cup {None}
  BY <1>1, <1>4
<1>7. CASE lock = None /\ queue = <<>>
  <2>1. ForceRelogin(r, q, queue) /\ Lists(queue, Waiting \ {r})
    BY <1>1, <1>3, <1>5, <1>7
  <2> QED
    BY <1>1, <1>2, <1>4, <1>6, <2>1, ForceReloginKeeps
<1>8. CASE ~(lock = None /\ queue = <<>>)
  <2>1. /\ req' = [req EXCEPT ![r] = q] /\ queue' = Append(queue, r)
        /\ creds' = creds /\ closed' = closed /\ minted' = minted /\ sessions' = sessions
        /\ strayed' = strayed /\ token' = token /\ unavail' = unavail /\ lock' = lock
        /\ dropped' = dropped
    BY <1>5, <1>8 DEF bmc
  <2>2. Lists(queue', Waiting \cup {r}) /\ queue' \in Seq(Requests)
    BY <1>1, <1>3, <2>1, AppendLists, AppendProperties
  <2>3. Lists(queue', IF Queues(q.pc) THEN (Waiting \ {r}) \cup {r} ELSE Waiting \ {r})
    BY <1>3, <1>4, <2>2 DEF Queues
  <2>4. /\ unavail' \in BOOLEAN /\ minted' \in 0 .. MaxSessions /\ minted <= minted'
        /\ sessions' \subseteq 1 .. minted' /\ strayed' \subseteq 1 .. minted'
        /\ dropped' \subseteq 1 .. minted' /\ SessionsAccountedFor'
        /\ q.carries \in (1 .. minted') \cup {None} /\ token' \in {token, None}
    BY <1>1, <1>6, <2>1 DEF SessionsAccountedFor
  <2>5. /\ lock' = lock /\ lock # r /\ q.pc # "posting"
        /\ q.second /\ q.refused # None =>
             /\ q.pc = "login" => token' # q.refused
             /\ q.pc = "sending" => q.carries # q.refused
    BY <1>2, <1>4, <2>1
  <2> QED
    BY <1>4, <1>6, <2>1, <2>2, <2>3, <2>4, <2>5, RequestKeeps
<1> QED
  BY <1>7, <1>8

LEMMA EnterReloginKeeps == ASSUME IInv, NEW r \in Requests, EnterRelogin(r) PROVE IInv'
<1>1. /\ IsNext(r, "relogin") /\ ForceRelogin(r, req[r], Tail(queue))
  BY DEF EnterRelogin
<1>2. /\ Tail(queue) \in Seq(Requests) /\ Lists(Tail(queue), Waiting \ {r})
      /\ req[r].pc = "relogin"
  BY <1>1, NextUp
<1>3. /\ req[r] \in Request /\ req[r].carries \in (1 .. minted) \cup {None}
      /\ req[r].refused \in (1 .. minted) \cup {None} /\ req[r].pc # "posting"
  BY <1>2, Basics
<1> QED
  BY <1>1, <1>2, <1>3, ForceReloginKeeps

LEMMA CloseKeeps == ASSUME IInv, Close PROVE IInv'
<1>1. /\ \A r \in Requests : req[r].pc = "idle"
      /\ closed' = TRUE /\ token' = None
      /\ \/ sessions' \subseteq sessions /\ sessions \subseteq sessions' \cup {token}
            /\ strayed' = strayed /\ (token \in strayed \/ token \notin sessions')
         \/ token # None /\ strayed' = strayed \cup {token} /\ sessions' = sessions
      /\ creds' = creds /\ minted' = minted /\ unavail' = unavail /\ lock' = lock
      /\ queue' = queue /\ req' = req /\ dropped' = dropped
  BY DEF Close
<1>2. TypeOK /\ TokensKnown /\ OneLogin /\ QueueHoldsWaiters /\ SessionsAccountedFor
  BY DEF IInv
<1>3. TypeOK'
  BY <1>1, <1>2 DEF TypeOK, TokensKnown, Known, Tokens
<1>4. TokensKnown'
  BY <1>1, <1>2 DEF TokensKnown, Known
<1>5. OneLogin'
  BY <1>1, <1>2 DEF OneLogin, TypeOK
<1>6. QueueHoldsWaiters'
  BY <1>1, <1>2 DEF QueueHoldsWaiters, Waiting
<1>7. SessionsAccountedFor'
  BY <1>1, <1>2 DEF SessionsAccountedFor
<1>8. \A r \in Requests : Fresh(r)'
  BY <1>1 DEF Fresh
<1> QED
  BY <1>3, <1>4, <1>5, <1>6, <1>7, <1>8 DEF IInv

LEMMA EvictKeeps == ASSUME IInv, NEW s \in sessions, Evict(s) PROVE IInv'
<1>1. /\ sessions' \subseteq sessions
      /\ UNCHANGED <<creds, closed, minted, strayed, token, unavail, lock, queue, req, dropped>>
  BY DEF Evict
<1> QED
  BY <1>1 DEF IInv, TypeOK, TokensKnown, Known, OneLogin, QueueHoldsWaiters, Waiting,
              SessionsAccountedFor, Fresh

LEMMA InitEstablishes == Init => IInv
<1> SUFFICES ASSUME Init PROVE IInv
  OBVIOUS
<1>1. /\ req \in [Requests -> Request]
      /\ \A r \in Requests : req[r] = NoReq
  BY NoReqFields DEF Init
<1>2. TypeOK
  <2>1. /\ creds \in {"right", "wrong", "none"} /\ token \in Tokens /\ unavail \in BOOLEAN
        /\ closed \in BOOLEAN /\ lock \in Requests \cup {None}
    BY DEF Init, Tokens
  <2>2. minted \in 0 .. MaxSessions /\ queue \in Seq(Requests)
    BY MaxAssumption DEF Init
  <2>3. sessions = {} /\ strayed = {} /\ dropped = {}
    BY DEF Init
  <2> QED
    BY <1>1, <2>1, <2>2, <2>3 DEF TypeOK, Request
<1>3. TokensKnown
  BY <1>1, NoReqFields DEF Init, TokensKnown, Known
<1>4. OneLogin /\ SessionsAccountedFor /\ \A r \in Requests : Fresh(r)
  BY <1>1, NoReqFields DEF Init, OneLogin, SessionsAccountedFor, Fresh
<1>5. Waiting = {} /\ queue = <<>>
  BY <1>1, NoReqFields DEF Waiting, Init
<1>6. QueueHoldsWaiters
  BY <1>5, EmptyLists DEF QueueHoldsWaiters
<1> QED
  BY <1>2, <1>3, <1>4, <1>6 DEF IInv

LEMMA NextKeeps == IInv /\ [Next]_vars => IInv'
<1> SUFFICES ASSUME IInv, [Next]_vars PROVE IInv'
  OBVIOUS
<1>1. ASSUME NEW r \in Requests, Begin(r) \/ Wake(r) PROVE IInv'
  BY <1>1, BeginKeeps, EnterKeeps, EnterReloginKeeps DEF Wake
<1>2. ASSUME NEW r \in Requests, LoginAnswer(r) PROVE IInv'
  BY <1>2, LoggedInKeeps, NoSessionServiceKeeps, LoginFailsKeeps, LoginTimesOutKeeps
  DEF LoginAnswer
<1>3. ASSUME NEW r \in Requests, Answer(r) PROVE IInv'
  BY <1>3, AnsweredKeeps, GiveUpKeeps, RetryKeeps DEF Answer
<1>4. CASE UNCHANGED vars
  BY <1>4 DEF vars, bmc, IInv, TypeOK, TokensKnown, Known, OneLogin, QueueHoldsWaiters,
              Waiting, SessionsAccountedFor, Fresh
<1> QED
  BY <1>1, <1>2, <1>3, <1>4, CloseKeeps, EvictKeeps DEF Next

LEMMA Inductive == Spec => []IInv
BY InitEstablishes, NextKeeps, PTL DEF Spec

-----------------------------------------------------------------------------
(* The theorems.                                                           *)

\* However requests, logins and evictions interleave, every variable of the client
\* and of the BMC's session table stays in its domain, and no number is a session's
\* before the BMC has minted it.
THEOREM TypeCorrect == Spec => []TypeOK
<1>1. IInv => TypeOK
  BY DEF IInv
<1> QED
  BY <1>1, Inductive, PTL

\* A live session of the BMC is the client's own, one whose address the client was
\* never told, or one that the re-login of another request has thrown away: racing
\* first requests cost one session, not one each (redfish_client.py:139).
THEOREM NoSessionLost == Spec => []SessionsAccountedFor
<1>1. IInv => SessionsAccountedFor
  BY DEF IInv
<1> QED
  BY <1>1, Inductive, PTL

\* After a 401, _force_relogin clears the token before anyone may log in again, so a
\* repeated request never carries the token the BMC has just refused.
THEOREM RetriesAreFresh == Spec => []RetryIsFresh
<1>1. IInv => RetryIsFresh
  BY DEF IInv, Fresh, RetryIsFresh
<1> QED
  BY <1>1, Inductive, PTL

\* The double check under _login_lock: at most one request has a login under way,
\* it holds the lock and the client has no token then, so no login ever replaces a
\* session; and the lock is never held by a request that is doing anything else.
THEOREM LoginsAreSerial == Spec => []OneLogin
<1>1. IInv => OneLogin
  BY DEF IInv
<1> QED
  BY <1>1, Inductive, PTL

\* The lock's queue lists the requests that wait in login() or _force_relogin(), each
\* once and no other: nobody waits for a lock that will not be passed to it.
THEOREM NobodyWaitsUnlisted == Spec => []QueueHoldsWaiters
<1>1. IInv => QueueHoldsWaiters
  BY DEF IInv
<1> QED
  BY <1>1, Inductive, PTL

=============================================================================
