------------------------------ MODULE Sessions ------------------------------
(***************************************************************************)
(* simulator/session_manager.go and the part of simulator.go that gives a  *)
(* SOAP request its session.  SessionManager embeds nopLocker, so WithLock *)
(* does not serialize its methods: only sessionMutex does, and only for    *)
(* the length of one getSession, findSession, anySession, putSession or    *)
(* delSession.  Each of these calls is one step here, and a request is a   *)
(* process that takes several of them with what it read in hand.           *)
(***************************************************************************)
EXTENDS Naturals, FiniteSets

CONSTANTS
    Client,             \* pollers, tools and the scenario manager
    Key, NoKey,         \* the uuids that are handed out; their number is a bound
    User, NoUser,       \* user names and token subjects
    Account,            \* the user names Authenticate accepts
    MaxWatched          \* bound on the sessions with an idle timeout at one time

ASSUME SessionAssumption ==
    /\ NoKey \notin Key /\ NoUser \notin User
    /\ Account \subseteq User
    /\ MaxWatched \in Nat

VARIABLES
    sessions,           \* SessionManager.sessions: session key -> user name
    req,                \* client -> its SOAP request in progress
    jar,                \* client -> the session cookie it was given last
    issued,             \* the keys drawn so far
    watch               \* key -> its SessionIdleWatch: off, or used or unused
                        \* since the timer last went off, or about to delete it

(* History variables, read by the properties only.                         *)
VARIABLES
    authenticated,      \* the users that proved who they are at some time
    sawEmpty,           \* client -> was the table empty while it looked for a session?
    ended,              \* keys removed while no other request held a copy
    given,              \* keys given up: logged out with their own cookie,
                        \* named to TerminateSession or CloneSession, or idle
    stray               \* has a Logout run in a session its cookie does not name?

real == <<sessions, req, jar, issued, watch>>
history == <<authenticated, sawEmpty, ended, given, stray>>
vars == <<real, history>>

-----------------------------------------------------------------------------
(* Requests.  Which method a request calls does not matter until it has    *)
(* its session: the method and its argument are chosen when it is called.  *)

Idle == [pc |-> "idle", cookie |-> NoKey, key |-> NoKey, user |-> NoUser, arg |-> NoKey]

Goto(c, pc) == req' = [req EXCEPT ![c].pc = pc]

\* A faulty variant: the session is found but its user is not copied.
HoldingKeyOnly(c, k) ==
    req' = [req EXCEPT ![c] = [@ EXCEPT !.pc = "setSession", !.key = k]]

Holding(c, k) ==
    req' = [req EXCEPT ![c] = [@ EXCEPT !.pc = "setSession", !.key = k, !.user = sessions[k]]]

Done(c) == req' = [req EXCEPT ![c] = Idle]

At(c) == req[c].pc = "call"

Authenticated(c) == req[c].key # NoKey

-----------------------------------------------------------------------------
(* The table of sessions.                                                  *)

Live == DOMAIN sessions

putSession(k, u) == sessions' = [j \in Live \union {k} |-> IF j = k THEN u ELSE sessions[j]]

delSession(k) == sessions' = [j \in Live \ {k} |-> sessions[j]]

Looking(c) == req[c].pc \in {"mapSession", "anySession"}

\* The requests that hold a copy of session k and may still write it back, or
\* that have looked k up and will act on having found it.
Copies(k) ==
    {c \in Client : \/ req[c].pc = "setSession" /\ req[c].key = k
                    \/ req[c].pc = "cloning" /\ req[c].arg = k}

\* A removal of k by request c, as the history variables see it.
Removed(c, k) ==
    /\ delSession(k)
    /\ ended' = IF Copies(k) \subseteq {c} THEN ended \union {k} ELSE ended
    /\ sawEmpty' = [d \in Client |-> sawEmpty[d] \/ (Looking(d) /\ Live \subseteq {k})]

Init ==
    /\ sessions = [k \in {} |-> NoUser]
    /\ req = [c \in Client |-> Idle]
    /\ jar = [c \in Client |-> NoKey]
    /\ issued = {}
    /\ watch = [k \in Key |-> "off"]
    /\ authenticated = {}
    /\ sawEmpty = [c \in Client |-> FALSE]
    /\ ended = {} /\ given = {} /\ stray = FALSE

-----------------------------------------------------------------------------
(* ServeSDK: a request arrives, with its cookie or without, and mapSession *)
(* finds it a session.                                                     *)

\* A cookie may be lost on the way ("Java pollers that may not reliably send
\* back the vmware_soap_session cookie").
Arrive(c, cookie) ==
    /\ req[c].pc = "idle"
    /\ req' = [req EXCEPT ![c] = [@ EXCEPT !.pc = "mapSession", !.cookie = cookie]]
    /\ sawEmpty' = [sawEmpty EXCEPT ![c] = (Live = {})]
    /\ UNCHANGED <<sessions, jar, issued, watch, authenticated, ended, given, stray>>

\* A faulty variant: a cookie that matches no session gets no session.
NoFallback(c) ==
    /\ req[c].pc = "mapSession"
    /\ \/ req[c].cookie \in Live /\ Holding(c, req[c].cookie)
       \/ req[c].cookie \notin Live /\ Goto(c, "call")
    /\ UNCHANGED <<sessions, jar, issued, watch, history>>

\* A cookie that matches no session is not looked at again.
getSession(c) ==
    /\ req[c].pc = "mapSession"
    /\ \/ req[c].cookie \in Live /\ Holding(c, req[c].cookie)
       \/ /\ req[c].cookie \notin Live
          /\ req' = [req EXCEPT ![c] = [@ EXCEPT !.pc = "anySession", !.cookie = NoKey]]
    /\ UNCHANGED <<sessions, jar, issued, watch, history>>

\* The first session of a Go map's iteration: any of them.
anySession(c) ==
    /\ req[c].pc = "anySession"
    /\ \/ Live = {} /\ Goto(c, "call")
       \/ \E k \in Live : Holding(c, k)
    /\ UNCHANGED <<sessions, jar, issued, watch, history>>

\* SetSession(val, false): the copy is written back with a new LastActiveTime,
\* whether or not its session is still there.
SetSession(c) ==
    /\ req[c].pc = "setSession"
    /\ putSession(req[c].key, req[c].user)
    /\ watch' = [watch EXCEPT ![req[c].key] = IF @ = "unused" THEN "used" ELSE @]
    /\ sawEmpty' = [sawEmpty EXCEPT ![c] = FALSE]
    /\ Goto(c, "call")
    /\ UNCHANGED <<jar, issued, authenticated, ended, given, stray>>

-----------------------------------------------------------------------------
(* Service.call and the handlers.                                          *)

\* A method that is not about sessions, or that fails: with NotAuthenticated
\* when it is not in the whitelist and there is no session, with InvalidLogin,
\* InvalidArgument or NotFound in the handlers below.  Logout, which is in the
\* whitelist, then dereferences the nil session: net/http recovers the panic and
\* there is no answer.  In all of these nothing happens to the sessions.
Serve(c) ==
    /\ At(c)
    /\ Done(c)
    /\ UNCHANGED <<sessions, jar, issued, watch, history>>

\* SetSession(session, true) with a new key: the client is sent the cookie, and
\* SessionIdleWatch starts if config.vmacore.soap.sessionTimeout is set, as it
\* is not by default and as any client may do at any time.
SetNewSession(c, u) ==
    \E k \in Key \ issued :
        /\ putSession(k, u)
        /\ issued' = issued \union {k}
        /\ jar' = [jar EXCEPT ![c] = k]
        /\ \/ watch' = watch
           \/ /\ Cardinality({j \in Key : watch[j] # "off"}) < MaxWatched
              /\ watch' = [watch EXCEPT ![k] = "unused"]

createSession(c, u) ==
    /\ SetNewSession(c, u)
    /\ authenticated' = authenticated \union {u}
    /\ Done(c)
    /\ UNCHANGED <<sawEmpty, ended, given, stray>>

Login(c, u) ==
    /\ At(c)
    /\ u \in Account
    /\ createSession(c, u)

\* LoginByToken and LoginExtensionByCertificate refuse a request that has a
\* session, its own or one it was lent.
LoginByToken(c, u) ==
    /\ At(c) /\ ~Authenticated(c)
    /\ createSession(c, u)

Logout(c) ==
    /\ At(c) /\ Authenticated(c)
    /\ Removed(c, req[c].key)
    /\ given' = given \union ({req[c].cookie} \ {NoKey})
    /\ stray' = (stray \/ req[c].cookie # req[c].key)
    /\ Done(c)
    /\ UNCHANGED <<jar, issued, watch, authenticated>>

\* Naming one's own session is an InvalidArgument, an unknown one NotFound.
TerminateSession(c, k) ==
    /\ At(c) /\ Authenticated(c)
    /\ k # req[c].key /\ k \in Live
    /\ req' = [req EXCEPT ![c] = [@ EXCEPT !.pc = "terminate", !.arg = k]]
    /\ UNCHANGED <<sessions, jar, issued, watch, history>>

TerminateFound(c) ==
    /\ req[c].pc = "terminate"
    /\ Removed(c, req[c].arg)
    /\ given' = given \union {req[c].arg}
    /\ Done(c)
    /\ UNCHANGED <<jar, issued, watch, authenticated, stray>>

\* The ticket is a session like any other, under a key of its own, that no
\* cookie names and no idle watch ends.
AcquireCloneTicket(c) ==
    /\ At(c) /\ Authenticated(c)
    /\ \E k \in Key \ issued :
         /\ putSession(k, req[c].user)
         /\ issued' = issued \union {k}
    /\ Done(c)
    /\ UNCHANGED <<jar, watch, history>>

\* Any session key will do for a ticket; an unknown one is an InvalidLogin.
CloneSession(c, k) ==
    /\ At(c)
    /\ k \in Live /\ Key # issued
    /\ req' = [req EXCEPT ![c] = [@ EXCEPT !.pc = "cloning", !.arg = k, !.user = sessions[k]]]
    /\ UNCHANGED <<sessions, jar, issued, watch, history>>

\* A faulty variant: the session of the caller goes in place of the ticket.
CloneDeletesOwn(c) ==
    /\ req[c].pc = "cloning"
    /\ Removed(c, req[c].key)
    /\ given' = given \union {req[c].arg}
    /\ Goto(c, "cloned")
    /\ UNCHANGED <<jar, issued, watch, authenticated, stray>>

\* "A clone ticket can only be used once."
CloneDeletesTicket(c) ==
    /\ req[c].pc = "cloning"
    /\ Removed(c, req[c].arg)
    /\ given' = given \union {req[c].arg}
    /\ Goto(c, "cloned")
    /\ UNCHANGED <<jar, issued, watch, authenticated, stray>>

\* A faulty variant: the clone keeps the key of the ticket.
CloneKeepsKey(c) ==
    /\ req[c].pc = "cloned" /\ req[c].arg # NoKey
    /\ putSession(req[c].arg, req[c].user)
    /\ Done(c)
    /\ UNCHANGED <<jar, issued, watch, history>>

\* The new session of CloneSession and of ImpersonateUser.
SetClone(c) ==
    /\ req[c].pc = "cloned"
    /\ SetNewSession(c, req[c].user)
    /\ Done(c)
    /\ UNCHANGED history

\* A faulty variant: no session of the user is looked for.
ImpersonateAnyone(c, u) ==
    /\ At(c) /\ Authenticated(c)
    /\ Key # issued
    /\ req' = [req EXCEPT ![c] = [@ EXCEPT !.pc = "cloned", !.user = u]]
    /\ UNCHANGED <<sessions, jar, issued, watch, history>>

\* A faulty variant: the session of the caller gets the user.
ImpersonateInPlace(c, u) ==
    /\ At(c) /\ Authenticated(c)
    /\ req[c].key \in Live /\ \E k \in Live : sessions[k] = u
    /\ putSession(req[c].key, u)
    /\ Done(c)
    /\ UNCHANGED <<jar, issued, watch, history>>

\* findSession(user): some session of that user, or an InvalidLogin.
ImpersonateUser(c, u) ==
    /\ At(c) /\ Authenticated(c)
    /\ Key # issued
    /\ \E k \in Live : sessions[k] = u
    /\ req' = [req EXCEPT ![c] = [@ EXCEPT !.pc = "cloned", !.user = u]]
    /\ UNCHANGED <<sessions, jar, issued, watch, history>>

-----------------------------------------------------------------------------
(* SessionIdleWatch: the timer of one session goes off at every timeout.   *)

\* expiredSession looks: the session is gone and the goroutine ends, or it was
\* used since the last time and the timer is reset, or it is to be deleted.
Timer(k) ==
    /\ watch[k] \in {"used", "unused"}
    /\ watch' = [watch EXCEPT ![k] = IF k \notin Live THEN "off"
                                     ELSE IF @ = "used" THEN "unused" ELSE "expired"]
    /\ UNCHANGED <<sessions, req, jar, issued, history>>

\* It deletes what it found idle, though it may have been used since.
expiredSession(k) ==
    /\ watch[k] = "expired"
    /\ delSession(k)
    /\ watch' = [watch EXCEPT ![k] = "off"]
    /\ ended' = IF Copies(k) = {} THEN ended \union {k} ELSE ended
    /\ sawEmpty' = [d \in Client |-> sawEmpty[d] \/ (Looking(d) /\ Live \subseteq {k})]
    /\ given' = given \union {k}
    /\ UNCHANGED <<req, jar, issued, authenticated, stray>>

-----------------------------------------------------------------------------

Step(c) ==
    \/ getSession(c) \/ anySession(c) \/ SetSession(c) \/ Serve(c)
    \/ \E u \in User : Login(c, u) \/ LoginByToken(c, u) \/ ImpersonateUser(c, u)
    \/ Logout(c) \/ TerminateFound(c) \/ AcquireCloneTicket(c)
    \/ \E k \in issued : TerminateSession(c, k) \/ CloneSession(c, k)
    \/ CloneDeletesTicket(c) \/ SetClone(c)

Next ==
    \/ \E c \in Client : \E cookie \in {jar[c], NoKey} : Arrive(c, cookie)
    \/ \E c \in Client : Step(c)
    \/ \E k \in Key : Timer(k) \/ expiredSession(k)

Spec == Init /\ [][Next]_vars

-----------------------------------------------------------------------------
(* Properties.                                                             *)

Pc == {"idle", "mapSession", "anySession", "setSession", "call", "terminate",
       "cloning", "cloned"}

Request ==
    LET MaybeKey == issued \union {NoKey}
    IN  [pc : Pc, cookie : MaybeKey, key : MaybeKey, user : User \union {NoUser}, arg : MaybeKey]

\* Sessions have drawn keys and known users, and so have the copies requests
\* hold; a request that is past its lookup has a whole session or none, and one
\* that names a session to end has its key.
TypeOK ==
    /\ Live \subseteq issued /\ \A k \in Live : sessions[k] \in User
    /\ issued \subseteq Key
    /\ req \in [Client -> Request]
    /\ jar \in [Client -> issued \union {NoKey}]
    /\ watch \in [Key -> {"off", "used", "unused", "expired"}]
    /\ sawEmpty \in [Client -> BOOLEAN]
    /\ \A c \in Client :
         /\ req[c].pc \in {"setSession", "terminate"} => req[c].key # NoKey
         /\ req[c].pc \in {"cloning", "terminate"} => req[c].arg # NoKey
         /\ req[c].key # NoKey \/ req[c].pc \in {"cloning", "cloned"} => req[c].user # NoUser

\* Every session, and every copy a request could still write, belongs to a user
\* who logged in or showed a token at some time: neither clone tickets, nor
\* impersonation, nor the write-back of a stale copy makes up a user.
UsersAuthenticated ==
    /\ \A k \in Live : sessions[k] \in authenticated
    /\ \A c \in Client : req[c].user # NoUser => req[c].user \in authenticated

\* mapSession leaves a request without a session, to be refused, to log in by
\* token or to panic in Logout, only if there was none at some instant of the
\* request: a cookie that is lost or stale costs a poller its access only when
\* nobody is logged in, and the manager that started vcsim may be nobody too
\* once its session has been terminated, has idled out or was picked by a
\* Logout with an unknown cookie.
NoSessionMeansNone ==
    \A c \in Client : req[c].pc = "call" /\ ~Authenticated(c) => sawEmpty[c]

\* A session that ended while no other request had a copy of it never comes
\* back, and a clone ticket used up alone is used up: only a request that
\* read the session before the end and writes it back after can revive it.
EndedForGood == ended \intersect Live = {}

\* session_manager.go:283: "A clone ticket can only be used once".  Of two
\* requests that clone from one ticket, not both have found and deleted it.
\* getSession and delSession are critical sections of their own.
TicketsUsedOnce ==
    \A c, d \in Client :
        /\ {req[c].pc, req[d].pc} = {"cloned"}
        /\ req[c].arg = req[d].arg /\ req[c].arg # NoKey
        => c = d

\* A client keeps the session it was given until it is given up (logged out
\* with its own cookie, named to TerminateSession or CloneSession, or idle),
\* unless a Logout ran in a session that its cookie did not name.
KeptUnlessStray ==
    \A c \in Client :
        jar[c] # NoKey /\ jar[c] \notin given /\ ~stray => jar[c] \in Live

(* The table as that of SessionTable: a session that requests hold copies  *)
(* of still has its user when it has left the table.                       *)
Copied == {c \in Client : req[c].pc = "setSession"}

Owned == {<<k, sessions[k]>> : k \in Live} \union {<<req[c].key, req[c].user>> : c \in Copied}

Table == INSTANCE SessionTable WITH
    owned <- Owned,
    open  <- Live,
    drawn <- issued,
    known <- authenticated

\* Requests that find, copy and write back sessions in critical sections of
\* their own change the table as if they did it at once: no key is drawn twice,
\* no session ever changes its user, not even one that a stale copy brings back,
\* and one of which there is no copy is never brought back.
ImplementsTable == Table!TableSpec
=============================================================================
