--------------------------- MODULE LoginSessions ----------------------------
(***************************************************************************)
(* Logging in to the console.  The session is a cookie: a request carries the *)
(* cookie as it was when it was sent, its answer replaces the cookie, and      *)
(* answers of one browser may arrive in any order.  A login at a provider is    *)
(* begun by one request and completed by another; in between the console keeps   *)
(* a transaction, for a limited time and for a limited number of logins.          *)
(***************************************************************************)
EXTENDS Integers, FiniteSetsExt, SequencesExt

CONSTANTS
  Browsers,
  Requests,     \* slots for requests under way
  Providers,    \* the configured providers
  Capacity,     \* oauthTransactionCapacity
  Ttl,          \* oauthTransactionTTL, in ticks
  MaxTime, MaxLogins, MaxRequests,  \* bounds on ticks, logins begun and requests sent
  None

VARIABLES
  now,
  items,        \* transactions kept, by state: [provider, expires]
  expiryQueue,  \* states in the order they were put
  begun,        \* states drawn so far, each with its browser and provider
  cookie,       \* per browser [principal, transaction]; the transaction is [provider, state]
  request,      \* per slot [browser, op, at, session, ...], or None
  sent,
  exchanged,    \* states in the order their codes were exchanged with the provider
  turnedAway,   \* logins refused while fewer than Capacity were pending
  raced         \* slots under way when the principal of their browser last changed

vars == <<now, items, expiryQueue, begun, cookie, request, sent, exchanged, turnedAway, raced>>

NewSession == [principal |-> None, transaction |-> None]

Init ==
  /\ now = 0
  /\ items = [s \in {} |-> None]
  /\ expiryQueue = <<>>
  /\ begun = <<>>
  /\ cookie = [b \in Browsers |-> NewSession]
  /\ request = [r \in Requests |-> None]
  /\ sent = 0
  /\ exchanged = <<>>
  /\ turnedAway = {}
  /\ raced = {}

-----------------------------------------------------------------------------
(* The store of transactions *)

Without(state) == [s \in DOMAIN items \ {state} |-> items[s]]

Pending == {s \in DOMAIN items : items[s].expires > now}

(* The front of the queue expires first: removal stops at the first that is still good. *)
Expired == {i \in DOMAIN expiryQueue : \A j \in 1..i : items[expiryQueue[j]].expires <= now}

(* The store after a login has been added, or is refused for want of room. *)
Put(state, provider) ==
  LET gone == Cardinality(Expired)
      queue == SubSeq(expiryQueue, gone + 1, Len(expiryQueue))
      kept == [s \in ToSet(queue) |-> items[s]]
  IN IF Len(queue) >= Capacity THEN [ok |-> FALSE, items |-> kept, queue |-> queue]
     ELSE [ok |-> TRUE, queue |-> Append(queue, state),
           items |-> [s \in ToSet(queue) \cup {state} |->
                        IF s = state THEN [provider |-> provider, expires |-> now + Ttl] ELSE items[s]]]

(* Seeded bug: the transaction stays in the store. *)
Consume_Kept(state) ==
  [ok |-> state \in DOMAIN items /\ items[state].expires > now, items |-> items, queue |-> expiryQueue]

(* A transaction is taken out, also when it is too old to be used. *)
Consume(state) ==
  [ok |-> state \in DOMAIN items /\ items[state].expires > now,
   items |-> Without(state),
   queue |-> SelectSeq(expiryQueue, LAMBDA s : s # state)]

-----------------------------------------------------------------------------
(* Requests: sent with the cookie, handled, answered *)

Send(b, op, provider, state) ==
  /\ sent < MaxRequests
  /\ \E r \in Requests :
       /\ request[r] = None
       /\ request' = [request EXCEPT ![r] = [browser |-> b, op |-> op, provider |-> provider,
                                             state |-> state, at |-> "sent", session |-> cookie[b]]]
       /\ raced' = raced \ {r}
  /\ sent' = sent + 1
  /\ UNCHANGED <<now, items, expiryQueue, begun, cookie, exchanged, turnedAway>>

SendLogin == \E b \in Browsers : Send(b, "login", None, None)
SendLogout == \E b \in Browsers : Send(b, "logout", None, None)
SendProviderLogin == \E b \in Browsers, p \in Providers : Send(b, "begin", p, None)
(* The provider sends the browser back with the state of a login it began; a reload does so    *)
(* again.                                                                                        *)
SendCallback ==
  \E i \in DOMAIN begun : Send(begun[i].browser, "callback", begun[i].provider, i)

Answered(r, session) == request' = [request EXCEPT ![r] = [@ EXCEPT !.at = "answered", !.session = session]]
Refused(r) == request' = [request EXCEPT ![r] = [@ EXCEPT !.at = "refused"]]
Handling(r, op) == request[r] # None /\ request[r].op = op /\ request[r].at = "sent"

(* What the handlers do to the session they were sent. *)
PutPrincipal(session, principal) == [session EXCEPT !.principal = principal]

PutOAuthTransaction(session, provider, state) ==
  [session EXCEPT !.transaction = [provider |-> provider, state |-> state]]

ConsumeOAuthTransaction(session) == [session EXCEPT !.transaction = None]

Login(r) ==
  /\ Handling(r, "login")
  /\ Refused(r) \/ Answered(r, PutPrincipal(request[r].session, <<"local", 0>>))
  /\ UNCHANGED <<now, items, expiryQueue, begun, cookie, sent, exchanged, turnedAway, raced>>

Logout(r) ==
  /\ Handling(r, "logout")
  /\ Answered(r, NewSession)
  /\ UNCHANGED <<now, items, expiryQueue, begun, cookie, sent, exchanged, turnedAway, raced>>

(* A new state is put into the store, if there is room. *)
Begin(browser, provider) ==
  LET state == Len(begun) + 1
      after == Put(state, provider)
  IN /\ items' = after.items /\ expiryQueue' = after.queue
     /\ begun' = Append(begun, [browser |-> browser, provider |-> provider])
     /\ turnedAway' = IF ~after.ok /\ Cardinality(Pending) < Capacity
                      THEN turnedAway \cup {state} ELSE turnedAway

(* The state of the login that was begun is named in the session. *)
ProviderLogin(r) ==
  /\ Handling(r, "begin") /\ Len(begun) < MaxLogins
  /\ Begin(request[r].browser, request[r].provider)
  /\ IF Len(begun') \in DOMAIN items'
     THEN Answered(r, PutOAuthTransaction(request[r].session, request[r].provider, Len(begun')))
     ELSE Refused(r)
  /\ UNCHANGED <<now, cookie, sent, exchanged, raced>>

(* The transaction must be that of the callback and still be in the store, where it is taken   *)
(* out before the code is exchanged.                                                             *)
Complete(r, transaction, session) ==
  LET q == request[r]
      after == Consume(q.state)
  IN IF transaction = [provider |-> q.provider, state |-> q.state]
     THEN /\ items' = after.items /\ expiryQueue' = after.queue
          /\ IF after.ok
             THEN /\ exchanged' = Append(exchanged, q.state)
                  /\ request' = [request EXCEPT ![r].at = "exchanging", ![r].session = session]
             ELSE Answered(r, session) /\ UNCHANGED exchanged
     ELSE Answered(r, session) /\ UNCHANGED <<items, expiryQueue, exchanged>>

(* The session's transaction is taken out of it whatever follows; without one the session is    *)
(* not saved.                                                                                     *)
ProviderCallback(r) ==
  /\ Handling(r, "callback")
  /\ LET session == request[r].session
     IN IF session.transaction = None
        THEN Refused(r) /\ UNCHANGED <<items, expiryQueue, exchanged>>
        ELSE Complete(r, session.transaction, ConsumeOAuthTransaction(session))
  /\ UNCHANGED <<now, begun, cookie, sent, turnedAway, raced>>

Exchanging(r) == request[r] # None /\ request[r].at = "exchanging"

(* The provider takes the code and names a principal. *)
Authenticate(r) ==
  /\ Exchanging(r)
  /\ Answered(r, PutPrincipal(request[r].session, <<request[r].provider, request[r].state>>))
  /\ UNCHANGED <<now, items, expiryQueue, begun, cookie, sent, exchanged, turnedAway, raced>>

(* The exchange, a check on the provider's answer or the reading of the profile fails. *)
AuthenticateFails(r) ==
  /\ Exchanging(r)
  /\ Answered(r, request[r].session)
  /\ UNCHANGED <<now, items, expiryQueue, begun, cookie, sent, exchanged, turnedAway, raced>>

(* The answer arrives; its cookie replaces the browser's. *)
Receive(r) ==
  /\ request[r] # None /\ request[r].at \in {"answered", "refused"}
  /\ LET b == request[r].browser
         others == {o \in Requests \ {r} : request[o] # None /\ request[o].browser = b}
     IN /\ cookie' = IF request[r].at = "answered" THEN [cookie EXCEPT ![b] = request[r].session] ELSE cookie
        /\ raced' = (IF cookie'[b].principal # cookie[b].principal THEN raced \cup others ELSE raced) \ {r}
  /\ request' = [request EXCEPT ![r] = None]
  /\ UNCHANGED <<now, items, expiryQueue, begun, sent, exchanged, turnedAway>>

Tick ==
  /\ now < MaxTime
  /\ now' = now + 1
  /\ UNCHANGED <<items, expiryQueue, begun, cookie, request, sent, exchanged, turnedAway, raced>>

Next ==
  \/ SendLogin \/ SendLogout \/ SendProviderLogin \/ SendCallback
  \/ \E r \in Requests : \/ Login(r) \/ Logout(r) \/ ProviderLogin(r)
                         \/ ProviderCallback(r) \/ Authenticate(r)
                         \/ AuthenticateFails(r) \/ Receive(r)
  \/ Tick

Spec == Init /\ [][Next]_vars

-----------------------------------------------------------------------------
(* Properties *)

TypeOK ==
  /\ now \in 0..MaxTime
  /\ DOMAIN items \subseteq 1..MaxLogins
  /\ Len(begun) <= MaxLogins
  /\ DOMAIN cookie = Browsers
  /\ raced \subseteq Requests

(* The map and the queue of the store (service.go:180-250) hold the same logins, no more than  *)
(* Capacity, and the queue is in the order of expiry, so that the purge of Put may stop at the  *)
(* first good one: nobody is turned away (429) while there is room.                               *)
RoomIsUsed ==
  /\ ToSet(expiryQueue) = DOMAIN items /\ IsInjective(expiryQueue)
  /\ Len(expiryQueue) <= Capacity
  /\ \A i, j \in DOMAIN expiryQueue : i < j => items[expiryQueue[i]].expires <= items[expiryQueue[j]].expires
  /\ turnedAway = {}

(* A login is completed once, and by the browser and at the provider that it was begun with    *)
(* (Complete, service.go:137-159), although a callback that is sent again still carries the     *)
(* transaction in its cookie.                                                                     *)
LoginCompletesOnce ==
  /\ IsInjective(exchanged)
  /\ \A b \in Browsers : LET p == cookie[b].principal IN
       p # None /\ p[1] \in Providers =>
         /\ p[2] \in ToSet(exchanged)
         /\ begun[p[2]] = [browser |-> b, provider |-> p[1]]

(* Who is logged in changes only by a request that asks for it, or by one that was sent before *)
(* the last such change and answered after it: it brings its own cookie back, with the old       *)
(* principal or with none (handler/auth.go:58-149; the session is the cookie alone).              *)
SessionChangesWhenAsked ==
  \A b \in Browsers, r \in Requests :
    /\ cookie'[b].principal # cookie[b].principal
    /\ request[r] # None /\ request'[r] = None /\ request[r].browser = b
    => request[r].op \in {"login", "logout", "callback"} \/ r \in raced
=============================================================================
