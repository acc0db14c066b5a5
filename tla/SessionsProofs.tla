---------------------------- MODULE SessionsProofs ----------------------------
(***************************************************************************)
(* Proofs about Sessions.tla, for any clients, keys, users and accounts.   *)
(***************************************************************************)
EXTENDS Sessions, TLAPS

\* Before the first request there is no session and no key.
LEMMA TypeInit == Init => TypeOK
BY SessionAssumption DEF Init, TypeOK, Live, Request, Idle, Pc

\* A step that only replaces one request by a whole one keeps the types.
LEMMA RequestType ==
  ASSUME TypeOK, NEW c \in Client, NEW r \in Request,
         req' = [req EXCEPT ![c] = r],
         r.pc \in {"setSession", "terminate"} => r.key # NoKey,
         r.pc \in {"cloning", "terminate"} => r.arg # NoKey,
         r.key # NoKey \/ r.pc \in {"cloning", "cloned"} => r.user # NoUser,
         UNCHANGED <<sessions, jar, issued, watch>>,
         sawEmpty' \in [Client -> BOOLEAN]
  PROVE  TypeOK'
BY DEF TypeOK, Live, Request

\* The copy of a session that was found has the key and the user of a session.
LEMMA HoldingType ==
  ASSUME TypeOK, NEW c \in Client, NEW k \in Live, Holding(c, k),
         UNCHANGED <<sessions, jar, issued, watch, sawEmpty>>
  PROVE  TypeOK'
<1> DEFINE r == [req[c] EXCEPT !.pc = "setSession", !.key = k, !.user = sessions[k]]
<1>0. req[c] \in Request /\ k \in issued /\ sessions[k] \in User
  BY DEF TypeOK
<1>1. r \in Request /\ r.pc = "setSession" /\ r.key = k /\ r.user = sessions[k]
  BY <1>0 DEF Request, Pc
<1>2. req' = [req EXCEPT ![c] = r]
  BY DEF Holding
<1>3. k # NoKey /\ sessions[k] # NoUser /\ sawEmpty' \in [Client -> BOOLEAN]
  BY SessionAssumption DEF TypeOK
<1> HIDE DEF r
<1> QED
  BY <1>1, <1>2, <1>3, RequestType

\* Every step of every request and timer keeps keys, users and copies whole.
LEMMA TypeNext == TypeOK /\ [Next]_vars => TypeOK'
<1> SUFFICES ASSUME TypeOK, [Next]_vars PROVE TypeOK'
  OBVIOUS
<1> USE SessionAssumption
<1>1. ASSUME NEW c \in Client, NEW k \in {jar[c], NoKey}, Arrive(c, k) PROVE TypeOK'
  <2> DEFINE r == [req[c] EXCEPT !.pc = "mapSession", !.cookie = k]
  <2>0. req[c] \in Request /\ k \in issued \union {NoKey} /\ "mapSession" \in Pc
    BY <1>1 DEF TypeOK, Pc
  <2>1. r \in Request /\ r.pc = "mapSession" /\ r.key = req[c].key /\ r.user = req[c].user
    BY <2>0 DEF Request
  <2>2. req' = [req EXCEPT ![c] = r]
    BY <1>1 DEF Arrive
  <2>3. UNCHANGED <<sessions, jar, issued, watch>> /\ sawEmpty' \in [Client -> BOOLEAN]
    BY <1>1 DEF TypeOK, Arrive, history
  <2>4. req[c].key # NoKey => req[c].user # NoUser
    BY <1>1 DEF TypeOK, Arrive, Request
  <2> HIDE DEF r
  <2> QED
    BY <2>1, <2>2, <2>3, <2>4, RequestType
<1>2. ASSUME NEW c \in Client, getSession(c) PROVE TypeOK'
  <2>1. CASE req[c].cookie \in Live /\ Holding(c, req[c].cookie)
    BY <1>2, <2>1, HoldingType DEF TypeOK, getSession, history
  <2>2. CASE req[c].cookie \notin Live
    <3> DEFINE r == [req[c] EXCEPT !.pc = "anySession", !.cookie = NoKey]
    <3>0. req[c] \in Request /\ "anySession" \in Pc
      BY DEF TypeOK, Pc
    <3>1. r \in Request /\ r.pc = "anySession" /\ r.key = req[c].key /\ r.user = req[c].user
      BY <3>0 DEF Request
    <3>2. req' = [req EXCEPT ![c] = r]
      BY <1>2, <2>2 DEF getSession
    <3>3. UNCHANGED <<sessions, jar, issued, watch>> /\ sawEmpty' \in [Client -> BOOLEAN]
      BY <1>2 DEF TypeOK, getSession, history
    <3>4. req[c].key # NoKey => req[c].user # NoUser
      BY <1>2 DEF TypeOK, getSession, Request
    <3> HIDE DEF r
    <3> QED
      BY <3>1, <3>2, <3>3, <3>4, RequestType
  <2> QED
    BY <1>2, <2>1, <2>2 DEF getSession
<1>3. ASSUME NEW c \in Client, anySession(c) PROVE TypeOK'
  <2>1. CASE Goto(c, "call")
    BY <1>3, <2>1 DEF TypeOK, anySession, Goto, Live, Request, Pc, history
  <2>2. CASE \E k \in Live : Holding(c, k)
    BY <1>3, <2>2, HoldingType DEF TypeOK, anySession, history
  <2> QED
    BY <1>3, <2>1, <2>2 DEF anySession
<1>4. ASSUME NEW c \in Client, SetSession(c) PROVE TypeOK'
  <2>1. req' \in [Client -> Request]
    BY <1>4 DEF TypeOK, SetSession, Goto, Request, Pc
  <2>2. req[c].key \in issued /\ req[c].user \in User
    BY <1>4 DEF TypeOK, SetSession, Request
  <2> QED
    BY <1>4, <2>1, <2>2 DEF TypeOK, SetSession, putSession, Goto, Live, Request
<1>5. ASSUME NEW c \in Client, Serve(c) PROVE TypeOK'
  BY <1>5 DEF TypeOK, Serve, At, Done, Idle, Live, Request, Pc, history
<1>6. ASSUME NEW c \in Client, NEW u \in User, Login(c, u) \/ LoginByToken(c, u)
      PROVE  TypeOK'
  <2>1. createSession(c, u)
    BY <1>6 DEF Login, LoginByToken
  <2>2. PICK k \in Key \ issued :
          /\ putSession(k, u)
          /\ issued' = issued \union {k}
          /\ jar' = [jar EXCEPT ![c] = k]
          /\ watch' = watch \/ watch' = [watch EXCEPT ![k] = "unused"]
    BY <2>1 DEF createSession, SetNewSession
  <2> QED
    BY <2>1, <2>2 DEF TypeOK, createSession, putSession, Done, Idle, Live, Request, Pc
<1>7. ASSUME NEW c \in Client, NEW u \in User, ImpersonateUser(c, u) PROVE TypeOK'
  <2> DEFINE r == [req[c] EXCEPT !.pc = "cloned", !.user = u]
  <2>0. req[c] \in Request /\ u \in User
    BY <1>7 DEF TypeOK
  <2>1. r \in Request /\ r.pc = "cloned" /\ r.key = req[c].key /\ r.user = u
    BY <2>0 DEF Request, Pc
  <2>2. req' = [req EXCEPT ![c] = r]
    BY <1>7 DEF ImpersonateUser
  <2>3. UNCHANGED <<sessions, jar, issued, watch>> /\ sawEmpty' \in [Client -> BOOLEAN]
    BY <1>7 DEF TypeOK, ImpersonateUser, history
  <2>4. u # NoUser
    BY <1>7 DEF TypeOK, ImpersonateUser, Request
  <2> HIDE DEF r
  <2> QED
    BY <2>1, <2>2, <2>3, <2>4, RequestType
<1>8. ASSUME NEW c \in Client, Logout(c) PROVE TypeOK'
  BY <1>8 DEF TypeOK, Logout, At, Authenticated, Removed, delSession, Done, Idle, Live,
              Request, Pc
<1>9. ASSUME NEW c \in Client, TerminateFound(c) PROVE TypeOK'
  <2>1. req' \in [Client -> Request]
    BY <1>9 DEF TypeOK, TerminateFound, Done, Idle, Request, Pc
  <2> QED
    BY <1>9, <2>1 DEF TypeOK, TerminateFound, Removed, delSession, Done, Idle, Live, Request
<1>10. ASSUME NEW c \in Client, AcquireCloneTicket(c) PROVE TypeOK'
  BY <1>10 DEF TypeOK, AcquireCloneTicket, At, Authenticated, putSession, Done, Idle, Live,
               Request, Pc, history
<1>11. ASSUME NEW c \in Client, NEW k \in issued, TerminateSession(c, k) PROVE TypeOK'
  <2> DEFINE r == [req[c] EXCEPT !.pc = "terminate", !.arg = k]
  <2>0. req[c] \in Request /\ k \in issued
    BY <1>11 DEF TypeOK
  <2>1. r \in Request /\ r.pc = "terminate" /\ r.arg = k /\ r.key = req[c].key /\ r.user = req[c].user
    BY <2>0 DEF Request, Pc
  <2>2. req' = [req EXCEPT ![c] = r]
    BY <1>11 DEF TerminateSession
  <2>3. UNCHANGED <<sessions, jar, issued, watch>> /\ sawEmpty' \in [Client -> BOOLEAN]
    BY <1>11 DEF TypeOK, TerminateSession, history
  <2>4. k # NoKey /\ req[c].key # NoKey /\ req[c].user # NoUser
    BY <1>11 DEF TypeOK, TerminateSession, Authenticated, Request
  <2> HIDE DEF r
  <2> QED
    BY <2>1, <2>2, <2>3, <2>4, RequestType
<1>12. ASSUME NEW c \in Client, NEW k \in issued, CloneSession(c, k) PROVE TypeOK'
  <2> DEFINE r == [req[c] EXCEPT !.pc = "cloning", !.arg = k, !.user = sessions[k]]
  <2>0. req[c] \in Request /\ k \in issued /\ sessions[k] \in User
    BY <1>12 DEF TypeOK, CloneSession
  <2>1. r \in Request /\ r.pc = "cloning" /\ r.arg = k /\ r.user = sessions[k]
    BY <2>0 DEF Request, Pc
  <2>2. req' = [req EXCEPT ![c] = r]
    BY <1>12 DEF CloneSession
  <2>3. UNCHANGED <<sessions, jar, issued, watch>> /\ sawEmpty' \in [Client -> BOOLEAN]
    BY <1>12 DEF TypeOK, CloneSession, history
  <2>4. k # NoKey /\ sessions[k] # NoUser
    BY <1>12 DEF TypeOK, CloneSession, Live, Request
  <2> HIDE DEF r
  <2> QED
    BY <2>1, <2>2, <2>3, <2>4, RequestType
<1>13. ASSUME NEW c \in Client, CloneDeletesTicket(c) PROVE TypeOK'
  <2>1. req' \in [Client -> Request]
    BY <1>13 DEF TypeOK, CloneDeletesTicket, Goto, Request, Pc
  <2> QED
    BY <1>13, <2>1 DEF TypeOK, CloneDeletesTicket, Removed, delSession, Goto, Live, Request
<1>14. ASSUME NEW c \in Client, SetClone(c) PROVE TypeOK'
  <2>1. PICK k \in Key \ issued :
          /\ putSession(k, req[c].user)
          /\ issued' = issued \union {k}
          /\ jar' = [jar EXCEPT ![c] = k]
          /\ watch' = watch \/ watch' = [watch EXCEPT ![k] = "unused"]
    BY <1>14 DEF SetClone, SetNewSession
  <2> QED
    BY <1>14, <2>1 DEF TypeOK, SetClone, putSession, Done, Idle, Live, Request, Pc, history
<1>15. ASSUME NEW k \in Key, Timer(k) PROVE TypeOK'
  BY <1>15 DEF TypeOK, Timer, Live, Request, Pc, history
<1>16. ASSUME NEW k \in Key, expiredSession(k) PROVE TypeOK'
  BY <1>16 DEF TypeOK, expiredSession, delSession, Live, Request, Pc
<1>17. CASE UNCHANGED vars
  BY <1>17 DEF TypeOK, vars, real, history, Live, Request
<1> QED
  BY <1>1, <1>2, <1>3, <1>4, <1>5, <1>6, <1>7, <1>8, <1>9, <1>10, <1>11, <1>12, <1>13,
     <1>14, <1>15, <1>16, <1>17 DEF Next, Step

\* Sessions, cookies and the copies that requests hold keep their types.
THEOREM SessionsTypeOK == Spec => []TypeOK
BY TypeInit, TypeNext, PTL DEF Spec

-----------------------------------------------------------------------------
(* What the steps that change several fields of a request leave in it.     *)

\* The request after a step that goes on to another point of its handler.
LEMMA GotoFields ==
  ASSUME TypeOK, NEW c \in Client, NEW pc, Goto(c, pc)
  PROVE  /\ req'[c].pc = pc /\ req'[c].cookie = req[c].cookie /\ req'[c].key = req[c].key
         /\ req'[c].user = req[c].user /\ req'[c].arg = req[c].arg
         /\ \A d \in Client \ {c} : req'[d] = req[d]
BY DEF TypeOK, Goto, Request

\* A request that has its answer holds nothing.
LEMMA DoneFields ==
  ASSUME TypeOK, NEW c \in Client, Done(c)
  PROVE  /\ req'[c].pc = "idle" /\ req'[c].key = NoKey /\ req'[c].user = NoUser
         /\ \A d \in Client \ {c} : req'[d] = req[d]
BY DEF TypeOK, Done, Idle

\* A request that found session k holds its key and its user.
LEMMA HoldingFields ==
  ASSUME TypeOK, NEW c \in Client, NEW k, Holding(c, k)
  PROVE  /\ req'[c].pc = "setSession" /\ req'[c].key = k /\ req'[c].user = sessions[k]
         /\ \A d \in Client \ {c} : req'[d] = req[d]
<1> DEFINE r == [req[c] EXCEPT !.pc = "setSession", !.key = k, !.user = sessions[k]]
<1>1. req[c] \in Request /\ DOMAIN req = Client
  BY DEF TypeOK
<1>2. r.pc = "setSession" /\ r.key = k /\ r.user = sessions[k]
  BY <1>1 DEF Request
<1>3. req' = [req EXCEPT ![c] = r]
  BY DEF Holding
<1> HIDE DEF r
<1> QED
  BY <1>1, <1>2, <1>3

\* A request that arrives looks for its session.
LEMMA ArriveFields ==
  ASSUME TypeOK, NEW c \in Client, NEW k, Arrive(c, k)
  PROVE  /\ req'[c].pc = "mapSession" /\ req'[c].user = req[c].user
         /\ \A d \in Client \ {c} : req'[d] = req[d]
<1> DEFINE r == [req[c] EXCEPT !.pc = "mapSession", !.cookie = k]
<1>1. req[c] \in Request /\ DOMAIN req = Client
  BY DEF TypeOK
<1>2. r.pc = "mapSession" /\ r.user = req[c].user
  BY <1>1 DEF Request
<1>3. req' = [req EXCEPT ![c] = r]
  BY DEF Arrive
<1> HIDE DEF r
<1> QED
  BY <1>1, <1>2, <1>3

\* A request whose cookie names no session goes on to look for any.
LEMMA MissFields ==
  ASSUME TypeOK, NEW c \in Client, getSession(c), req[c].cookie \notin Live
  PROVE  /\ req'[c].pc = "anySession" /\ req'[c].user = req[c].user
         /\ \A d \in Client \ {c} : req'[d] = req[d]
<1> DEFINE r == [req[c] EXCEPT !.pc = "anySession", !.cookie = NoKey]
<1>1. req[c] \in Request /\ DOMAIN req = Client
  BY DEF TypeOK
<1>2. r.pc = "anySession" /\ r.user = req[c].user
  BY <1>1 DEF Request
<1>3. req' = [req EXCEPT ![c] = r]
  BY DEF getSession
<1> HIDE DEF r
<1> QED
  BY <1>1, <1>2, <1>3

\* An impersonation takes the user it found on to the new session.
LEMMA ImpersonateFields ==
  ASSUME TypeOK, NEW c \in Client, NEW u, ImpersonateUser(c, u)
  PROVE  /\ req'[c].pc = "cloned" /\ req'[c].user = u
         /\ \A d \in Client \ {c} : req'[d] = req[d]
<1> DEFINE r == [req[c] EXCEPT !.pc = "cloned", !.user = u]
<1>1. req[c] \in Request /\ DOMAIN req = Client
  BY DEF TypeOK
<1>2. r.pc = "cloned" /\ r.user = u
  BY <1>1 DEF Request
<1>3. req' = [req EXCEPT ![c] = r]
  BY DEF ImpersonateUser
<1> HIDE DEF r
<1> QED
  BY <1>1, <1>2, <1>3

\* A termination takes the key it found on to the removal.
LEMMA TerminateFields ==
  ASSUME TypeOK, NEW c \in Client, NEW k, TerminateSession(c, k)
  PROVE  /\ req'[c].pc = "terminate" /\ req'[c].user = req[c].user
         /\ \A d \in Client \ {c} : req'[d] = req[d]
<1> DEFINE r == [req[c] EXCEPT !.pc = "terminate", !.arg = k]
<1>1. req[c] \in Request /\ DOMAIN req = Client
  BY DEF TypeOK
<1>2. r.pc = "terminate" /\ r.user = req[c].user
  BY <1>1 DEF Request
<1>3. req' = [req EXCEPT ![c] = r]
  BY DEF TerminateSession
<1> HIDE DEF r
<1> QED
  BY <1>1, <1>2, <1>3

\* A clone takes the key and the user of the ticket on to its removal.
LEMMA CloneFields ==
  ASSUME TypeOK, NEW c \in Client, NEW k, CloneSession(c, k)
  PROVE  /\ req'[c].pc = "cloning" /\ req'[c].arg = k /\ req'[c].user = sessions[k]
         /\ \A d \in Client \ {c} : req'[d] = req[d]
<1> DEFINE r == [req[c] EXCEPT !.pc = "cloning", !.arg = k, !.user = sessions[k]]
<1>1. req[c] \in Request /\ DOMAIN req = Client
  BY DEF TypeOK
<1>2. r.pc = "cloning" /\ r.arg = k /\ r.user = sessions[k]
  BY <1>1 DEF Request
<1>3. req' = [req EXCEPT ![c] = r]
  BY DEF CloneSession
<1> HIDE DEF r
<1> QED
  BY <1>1, <1>2, <1>3

-----------------------------------------------------------------------------
(* Users.                                                                  *)

\* A new session, for a user that is authenticated in the next state.
LEMMA NewSessionUser ==
  ASSUME TypeOK, UsersAuthenticated, NEW c \in Client, NEW u, SetNewSession(c, u), Done(c),
         authenticated \subseteq authenticated', u \in authenticated'
  PROVE  UsersAuthenticated'
<1>1. PICK k \in Key \ issued : putSession(k, u)
  BY DEF SetNewSession
<1> QED
  BY <1>1, DoneFields DEF UsersAuthenticated, putSession, Live

\* No step makes up a user.
LEMMA UsersNext == TypeOK /\ UsersAuthenticated /\ [Next]_vars => UsersAuthenticated'
<1> SUFFICES ASSUME TypeOK, UsersAuthenticated, [Next]_vars PROVE UsersAuthenticated'
  OBVIOUS
<1>1. ASSUME NEW c \in Client, NEW k \in {jar[c], NoKey}, Arrive(c, k) PROVE UsersAuthenticated'
  <2>1. UNCHANGED <<sessions, authenticated>>
    BY <1>1 DEF Arrive
  <2> QED
    BY <1>1, <2>1, ArriveFields DEF UsersAuthenticated, Live
<1>2. ASSUME NEW c \in Client, getSession(c) PROVE UsersAuthenticated'
  <2>1. UNCHANGED <<sessions, authenticated>>
    BY <1>2 DEF getSession, history
  <2>2. CASE req[c].cookie \in Live /\ Holding(c, req[c].cookie)
    BY <2>1, <2>2, HoldingFields DEF UsersAuthenticated, Live
  <2>3. CASE req[c].cookie \notin Live
    BY <1>2, <2>1, <2>3, MissFields DEF UsersAuthenticated, Live
  <2> QED
    BY <1>2, <2>2, <2>3 DEF getSession
<1>3. ASSUME NEW c \in Client, anySession(c) PROVE UsersAuthenticated'
  <2>1. UNCHANGED <<sessions, authenticated>>
    BY <1>3 DEF anySession, history
  <2>2. CASE Goto(c, "call")
    BY <2>1, <2>2, GotoFields DEF UsersAuthenticated, Live
  <2>3. CASE \E k \in Live : Holding(c, k)
    BY <2>1, <2>3, HoldingFields DEF UsersAuthenticated, Live
  <2> QED
    BY <1>3, <2>2, <2>3 DEF anySession
<1>4. ASSUME NEW c \in Client, SetSession(c) PROVE UsersAuthenticated'
  <2>1. req[c].user \in authenticated
    BY <1>4 DEF TypeOK, UsersAuthenticated, SetSession
  <2>2. Goto(c, "call") /\ putSession(req[c].key, req[c].user) /\ authenticated' = authenticated
    BY <1>4 DEF SetSession
  <2> QED
    BY <2>1, <2>2, GotoFields DEF UsersAuthenticated, putSession, Live
<1>5. ASSUME NEW c \in Client, Serve(c) PROVE UsersAuthenticated'
  BY <1>5, DoneFields DEF UsersAuthenticated, Serve, Live, history
<1>6. ASSUME NEW c \in Client, NEW u \in User, Login(c, u) \/ LoginByToken(c, u)
      PROVE  UsersAuthenticated'
  BY <1>6, NewSessionUser DEF Login, LoginByToken, createSession
<1>7. ASSUME NEW c \in Client, NEW u \in User, ImpersonateUser(c, u) PROVE UsersAuthenticated'
  <2>1. UNCHANGED <<sessions, authenticated>> /\ \E k \in Live : sessions[k] = u
    BY <1>7 DEF ImpersonateUser, history
  <2> QED
    BY <1>7, <2>1, ImpersonateFields DEF UsersAuthenticated, Live
<1>8. ASSUME NEW c \in Client, Logout(c) \/ TerminateFound(c) PROVE UsersAuthenticated'
  BY <1>8, DoneFields DEF UsersAuthenticated, Logout, TerminateFound, Removed, delSession, Live
<1>9. ASSUME NEW c \in Client, AcquireCloneTicket(c) PROVE UsersAuthenticated'
  <2>1. req[c].user \in authenticated
    BY <1>9 DEF TypeOK, UsersAuthenticated, AcquireCloneTicket, Authenticated
  <2> QED
    BY <1>9, <2>1, DoneFields
    DEF UsersAuthenticated, AcquireCloneTicket, putSession, Live, history
<1>10. ASSUME NEW c \in Client, NEW k \in issued, TerminateSession(c, k)
       PROVE  UsersAuthenticated'
  <2>1. UNCHANGED <<sessions, authenticated>>
    BY <1>10 DEF TerminateSession, history
  <2> QED
    BY <1>10, <2>1, TerminateFields DEF UsersAuthenticated, Live
<1>11. ASSUME NEW c \in Client, NEW k \in issued, CloneSession(c, k) PROVE UsersAuthenticated'
  <2>1. UNCHANGED <<sessions, authenticated>> /\ k \in Live
    BY <1>11 DEF CloneSession, history
  <2> QED
    BY <1>11, <2>1, CloneFields DEF UsersAuthenticated, Live
<1>12. ASSUME NEW c \in Client, CloneDeletesTicket(c) PROVE UsersAuthenticated'
  BY <1>12, GotoFields DEF UsersAuthenticated, CloneDeletesTicket, Removed, delSession, Live
<1>13. ASSUME NEW c \in Client, SetClone(c) PROVE UsersAuthenticated'
  <2>1. req[c].user \in authenticated
    BY <1>13 DEF TypeOK, UsersAuthenticated, SetClone
  <2> QED
    BY <1>13, <2>1, NewSessionUser DEF SetClone, history
<1>14. ASSUME NEW k \in Key, Timer(k) \/ expiredSession(k) PROVE UsersAuthenticated'
  BY <1>14 DEF UsersAuthenticated, Timer, expiredSession, delSession, Live, history
<1>15. CASE UNCHANGED vars
  BY <1>15 DEF UsersAuthenticated, vars, real, history, Live
<1> QED
  BY <1>1, <1>2, <1>3, <1>4, <1>5, <1>6, <1>7, <1>8, <1>9, <1>10, <1>11, <1>12, <1>13,
     <1>14, <1>15 DEF Next, Step

\* Every session, clone ticket and copy belongs to a user who logged in.
THEOREM SessionsUsersAuthenticated == Spec => []UsersAuthenticated
<1>1. Init => UsersAuthenticated
  BY DEF Init, UsersAuthenticated, Live, Idle
<1> QED
  BY <1>1, TypeInit, TypeNext, UsersNext, PTL DEF Spec

-----------------------------------------------------------------------------
(* Ended sessions.  EndedForGood is not inductive: that no request can     *)
(* write an ended session back is part of the invariant, and so is that    *)
(* its key is not drawn again.                                             *)

EndedInv ==
    /\ \A k \in ended : k \in issued /\ k \notin Live /\ Copies(k) = {}
    /\ \A k \in Key : watch[k] # "off" => k \in issued

\* A step that ends nothing, after which no session and no request's copy is
\* of a key that was neither in the table, nor drawn anew, nor copied before.
LEMMA NothingEnded ==
  ASSUME EndedInv, ended' = ended, issued \subseteq issued',
         Live' \subseteq Live \union (Key \ issued) \union {k \in issued : Copies(k) # {}},
         \A k \in ended : Copies(k)' \subseteq Copies(k),
         \A k \in Key : watch'[k] # "off" => watch[k] # "off" \/ k \in issued'
  PROVE  EndedInv'
BY DEF EndedInv

\* A removal ends a session only if no other request has a copy of it, and the
\* request that removes it forgets its own.
LEMMA RemovedEnded ==
  ASSUME EndedInv, NEW c \in Client, NEW k \in issued, Removed(c, k), UNCHANGED <<issued, watch>>,
         \A j \in issued : Copies(j)' = Copies(j) \ {c}
  PROVE  EndedInv'
BY DEF EndedInv, Removed, delSession, Live

\* The new session of a login or of a clone has a key that was never used.
LEMMA NewSessionEnded ==
  ASSUME TypeOK, EndedInv, NEW c \in Client, NEW u, SetNewSession(c, u), Done(c), ended' = ended
  PROVE  EndedInv'
<1>1. PICK k \in Key \ issued :
        /\ putSession(k, u)
        /\ issued' = issued \union {k}
        /\ watch' = watch \/ watch' = [watch EXCEPT ![k] = "unused"]
  BY DEF SetNewSession
<1>2. \A j : Copies(j)' \subseteq Copies(j)
  BY DoneFields DEF Copies
<1>3. Live' = Live \union {k}
  BY <1>1 DEF putSession, Live
<1>4. \A j \in Key : watch'[j] # "off" => watch[j] # "off" \/ j \in issued'
  BY <1>1 DEF TypeOK
<1> QED
  BY <1>1, <1>2, <1>3, <1>4, NothingEnded

\* No step brings an ended session back, or a copy of one.
LEMMA EndedNext == TypeOK /\ EndedInv /\ [Next]_vars => EndedInv'
<1> SUFFICES ASSUME TypeOK, EndedInv, [Next]_vars PROVE EndedInv'
  OBVIOUS
<1>1. ASSUME NEW c \in Client, NEW k \in {jar[c], NoKey}, Arrive(c, k) PROVE EndedInv'
  <2>1. UNCHANGED <<sessions, issued, watch, ended>>
    BY <1>1 DEF Arrive
  <2>2. \A j : Copies(j)' \subseteq Copies(j)
    BY <1>1, ArriveFields DEF Copies
  <2> QED
    BY <2>1, <2>2, NothingEnded DEF Live
<1>2. ASSUME NEW c \in Client, getSession(c) \/ anySession(c) PROVE EndedInv'
  <2>1. UNCHANGED <<sessions, issued, watch, ended>>
    BY <1>2 DEF getSession, anySession, history
  <2>2. CASE \E k \in Live : Holding(c, k)
    <3>1. \A j \in ended : Copies(j)' \subseteq Copies(j)
      BY <2>2, HoldingFields DEF Copies, EndedInv
    <3> QED
      BY <2>1, <3>1, NothingEnded DEF Live
  <2>3. CASE getSession(c) /\ req[c].cookie \notin Live
    <3>1. \A j : Copies(j)' \subseteq Copies(j)
      BY <2>3, MissFields DEF Copies
    <3> QED
      BY <2>1, <3>1, NothingEnded DEF Live
  <2>4. CASE Goto(c, "call")
    <3>1. \A j : Copies(j)' \subseteq Copies(j)
      BY <2>4, GotoFields DEF Copies
    <3> QED
      BY <2>1, <3>1, NothingEnded DEF Live
  <2> QED
    BY <1>2, <2>2, <2>3, <2>4 DEF getSession, anySession
<1>3. ASSUME NEW c \in Client, SetSession(c) PROVE EndedInv'
  <2>1. UNCHANGED <<issued, ended>> /\ Goto(c, "call")
    BY <1>3 DEF SetSession
  <2>2. \A j : Copies(j)' \subseteq Copies(j)
    BY <2>1, GotoFields DEF Copies
  <2>3. req[c].key \in issued /\ c \in Copies(req[c].key)
    BY <1>3 DEF TypeOK, SetSession, Request, Copies
  <2>4. Live' = Live \union {req[c].key}
    BY <1>3 DEF SetSession, putSession, Live
  <2>5. \A j \in Key : watch'[j] # "off" => watch[j] # "off"
    BY <1>3 DEF TypeOK, SetSession
  <2> QED
    BY <2>1, <2>2, <2>3, <2>4, <2>5, NothingEnded
<1>4. ASSUME NEW c \in Client, Serve(c) PROVE EndedInv'
  <2>1. \A j : Copies(j)' \subseteq Copies(j)
    BY <1>4, DoneFields DEF Copies, Serve
  <2> QED
    BY <1>4, <2>1, NothingEnded DEF Serve, Live, history
<1>5. ASSUME NEW c \in Client, NEW u \in User, Login(c, u) \/ LoginByToken(c, u) PROVE EndedInv'
  BY <1>5, NewSessionEnded DEF Login, LoginByToken, createSession
<1>6. ASSUME NEW c \in Client, NEW u \in User, ImpersonateUser(c, u) PROVE EndedInv'
  <2>1. UNCHANGED <<sessions, issued, watch, ended>>
    BY <1>6 DEF ImpersonateUser, history
  <2>2. \A j : Copies(j)' \subseteq Copies(j)
    BY <1>6, ImpersonateFields DEF Copies
  <2> QED
    BY <2>1, <2>2, NothingEnded DEF Live
<1>7. ASSUME NEW c \in Client, Logout(c) PROVE EndedInv'
  <2>1. req[c].key \in issued /\ Removed(c, req[c].key) /\ UNCHANGED <<issued, watch>>
    BY <1>7 DEF TypeOK, Logout, Authenticated, Request
  <2>2. \A j \in issued : Copies(j)' = Copies(j) \ {c}
    BY <1>7, DoneFields DEF Copies, Logout
  <2> QED
    BY <2>1, <2>2, RemovedEnded
<1>8. ASSUME NEW c \in Client, TerminateFound(c) PROVE EndedInv'
  <2>1. req[c].arg \in issued /\ Removed(c, req[c].arg) /\ UNCHANGED <<issued, watch>>
    BY <1>8 DEF TypeOK, TerminateFound, Request
  <2>2. \A j \in issued : Copies(j)' = Copies(j) \ {c}
    BY <1>8, DoneFields DEF Copies, TerminateFound
  <2> QED
    BY <2>1, <2>2, RemovedEnded
<1>9. ASSUME NEW c \in Client, AcquireCloneTicket(c) PROVE EndedInv'
  <2>1. PICK k \in Key \ issued : putSession(k, req[c].user) /\ issued' = issued \union {k}
    BY <1>9 DEF AcquireCloneTicket
  <2>2. Live' = Live \union {k}
    BY <2>1 DEF putSession, Live
  <2>3. \A j : Copies(j)' \subseteq Copies(j)
    BY <1>9, DoneFields DEF Copies, AcquireCloneTicket
  <2> QED
    BY <1>9, <2>1, <2>2, <2>3, NothingEnded DEF AcquireCloneTicket, history
<1>10. ASSUME NEW c \in Client, NEW k \in issued, TerminateSession(c, k) PROVE EndedInv'
  <2>1. UNCHANGED <<sessions, issued, watch, ended>>
    BY <1>10 DEF TerminateSession, history
  <2>2. \A j : Copies(j)' \subseteq Copies(j)
    BY <1>10, TerminateFields DEF Copies
  <2> QED
    BY <2>1, <2>2, NothingEnded DEF Live
<1>11. ASSUME NEW c \in Client, NEW k \in issued, CloneSession(c, k) PROVE EndedInv'
  <2>1. UNCHANGED <<sessions, issued, watch, ended>> /\ k \in Live
    BY <1>11 DEF CloneSession, history
  <2>2. \A j \in ended : Copies(j)' \subseteq Copies(j)
    BY <1>11, <2>1, CloneFields DEF Copies, EndedInv
  <2> QED
    BY <2>1, <2>2, NothingEnded DEF Live
<1>12. ASSUME NEW c \in Client, CloneDeletesTicket(c) PROVE EndedInv'
  <2>1. req[c].arg \in issued /\ Removed(c, req[c].arg) /\ UNCHANGED <<issued, watch>>
    BY <1>12 DEF TypeOK, CloneDeletesTicket, Request
  <2>2. Goto(c, "cloned")
    BY <1>12 DEF CloneDeletesTicket
  <2>3. \A j \in issued : Copies(j)' = Copies(j) \ {c}
    BY <2>2, GotoFields DEF Copies
  <2> QED
    BY <2>1, <2>3, RemovedEnded
<1>13. ASSUME NEW c \in Client, SetClone(c) PROVE EndedInv'
  BY <1>13, NewSessionEnded DEF SetClone, history
<1>14. ASSUME NEW k \in Key, Timer(k) PROVE EndedInv'
  BY <1>14 DEF TypeOK, EndedInv, Timer, Copies, Live, history
<1>15. ASSUME NEW k \in Key, expiredSession(k) PROVE EndedInv'
  BY <1>15 DEF TypeOK, EndedInv, expiredSession, delSession, Copies, Live
<1>16. CASE UNCHANGED vars
  BY <1>16 DEF EndedInv, vars, real, history, Live, Copies
<1> QED
  BY <1>1, <1>2, <1>3, <1>4, <1>5, <1>6, <1>7, <1>8, <1>9, <1>10, <1>11, <1>12, <1>13,
     <1>14, <1>15, <1>16 DEF Next, Step

\* A session that ended while no other request had a copy never comes back.
THEOREM SessionsEndedForGood == Spec => []EndedForGood
<1>1. Init => EndedInv
  BY DEF Init, EndedInv
<1>2. EndedInv => EndedForGood
  BY DEF EndedInv, EndedForGood
<1> QED
  BY <1>1, <1>2, TypeInit, TypeNext, EndedNext, PTL DEF Spec

-----------------------------------------------------------------------------
(* Requests without a session.  What a request saw while it looked has to  *)
(* be part of the invariant: the table may fill up again before it is      *)
(* called.                                                                 *)

SeenInv ==
    /\ \A c \in Client : Looking(c) /\ Live = {} => sawEmpty[c]
    /\ NoSessionMeansNone

\* A step that leaves the table and the lookups alone and puts no request that
\* has no session at its call.
LEMMA NothingSeen ==
  ASSUME SeenInv, NEW c \in Client, \A d \in Client \ {c} : req'[d] = req[d] /\ sawEmpty'[d] = sawEmpty[d],
         Live' = {} => Live = {},
         Looking(c)' /\ Live' = {} => sawEmpty'[c],
         req'[c].pc = "call" /\ req'[c].key = NoKey => sawEmpty'[c]
  PROVE  SeenInv'
BY DEF SeenInv, Looking, NoSessionMeansNone, At, Authenticated

\* A removal tells every request that is looking when it empties the table.
LEMMA RemovedSeen ==
  ASSUME TypeOK, SeenInv, NEW c \in Client, NEW k, Removed(c, k),
         \A d \in Client \ {c} : req'[d] = req[d],
         ~Looking(c)', req'[c].pc # "call"
  PROVE  SeenInv'
<1>1. \A d \in Client : sawEmpty'[d] = (sawEmpty[d] \/ (Looking(d) /\ Live \subseteq {k}))
  BY DEF Removed
<1>2. Live' = Live \ {k}
  BY DEF Removed, delSession, Live
<1> QED
  BY <1>1, <1>2 DEF SeenInv, Looking, NoSessionMeansNone, Authenticated

\* Every step keeps what the requests that look for a session have seen.
LEMMA SeenNext == TypeOK /\ SeenInv /\ [Next]_vars => SeenInv'
<1> SUFFICES ASSUME TypeOK, SeenInv, [Next]_vars PROVE SeenInv'
  OBVIOUS
<1>1. ASSUME NEW c \in Client, NEW k \in {jar[c], NoKey}, Arrive(c, k) PROVE SeenInv'
  <2>1. sessions' = sessions /\ sawEmpty' = [sawEmpty EXCEPT ![c] = (Live = {})]
    BY <1>1 DEF Arrive
  <2>2. sawEmpty'[c] = (Live = {}) /\ \A d \in Client \ {c} : sawEmpty'[d] = sawEmpty[d]
    BY <2>1 DEF TypeOK
  <2> QED
    BY <1>1, <2>1, <2>2, ArriveFields, NothingSeen DEF Live
<1>2. ASSUME NEW c \in Client, getSession(c) PROVE SeenInv'
  <2>1. UNCHANGED <<sessions, sawEmpty>> /\ Looking(c)
    BY <1>2 DEF getSession, Looking, history
  <2>2. CASE req[c].cookie \in Live /\ Holding(c, req[c].cookie)
    BY <2>1, <2>2, HoldingFields, NothingSeen DEF Live, Looking
  <2>3. CASE req[c].cookie \notin Live
    BY <1>2, <2>1, <2>3, MissFields, NothingSeen DEF Live, SeenInv
  <2> QED
    BY <1>2, <2>2, <2>3 DEF getSession
<1>3. ASSUME NEW c \in Client, anySession(c) PROVE SeenInv'
  <2>1. UNCHANGED <<sessions, sawEmpty>> /\ Looking(c)
    BY <1>3 DEF anySession, Looking, history
  <2>2. CASE Live = {} /\ Goto(c, "call")
    <3>1. sawEmpty[c]
      BY <2>1, <2>2 DEF SeenInv
    <3> QED
      BY <2>1, <2>2, <3>1, GotoFields, NothingSeen DEF Live
  <2>3. CASE \E k \in Live : Holding(c, k)
    BY <2>1, <2>3, HoldingFields, NothingSeen DEF Live, Looking
  <2> QED
    BY <1>3, <2>2, <2>3 DEF anySession
<1>4. ASSUME NEW c \in Client, SetSession(c) PROVE SeenInv'
  <2>1. Goto(c, "call") /\ req[c].key # NoKey
    BY <1>4 DEF TypeOK, SetSession
  <2>2. Live' = Live \union {req[c].key}
    BY <1>4 DEF SetSession, putSession, Live
  <2>3. \A d \in Client \ {c} : sawEmpty'[d] = sawEmpty[d]
    BY <1>4 DEF TypeOK, SetSession
  <2> QED
    BY <2>1, <2>2, <2>3, GotoFields, NothingSeen DEF Looking
<1>5. ASSUME NEW c \in Client, Serve(c) PROVE SeenInv'
  BY <1>5, DoneFields, NothingSeen DEF Serve, Looking, Live, history
<1>6. ASSUME NEW c \in Client, NEW u, SetNewSession(c, u), Done(c), sawEmpty' = sawEmpty
      PROVE  SeenInv'
  <2>1. Live' # {}
    BY <1>6 DEF SetNewSession, putSession, Live
  <2> QED
    BY <1>6, <2>1, DoneFields, NothingSeen DEF Looking
<1>7. ASSUME NEW c \in Client, NEW u \in User, ImpersonateUser(c, u) PROVE SeenInv'
  <2>1. UNCHANGED <<sessions, sawEmpty>>
    BY <1>7 DEF ImpersonateUser, history
  <2> QED
    BY <1>7, <2>1, ImpersonateFields, NothingSeen DEF Looking, Live
<1>8. ASSUME NEW c \in Client, Logout(c) \/ TerminateFound(c) PROVE SeenInv'
  <2>1. Done(c) /\ \E k : Removed(c, k)
    BY <1>8 DEF Logout, TerminateFound
  <2> QED
    BY <2>1, DoneFields, RemovedSeen DEF Looking
<1>9. ASSUME NEW c \in Client, AcquireCloneTicket(c) PROVE SeenInv'
  <2>1. Live' # {} /\ Done(c) /\ sawEmpty' = sawEmpty
    BY <1>9 DEF AcquireCloneTicket, putSession, Live, history
  <2> QED
    BY <2>1, DoneFields, NothingSeen DEF Looking
<1>10. ASSUME NEW c \in Client, NEW k \in issued, TerminateSession(c, k) PROVE SeenInv'
  <2>1. UNCHANGED <<sessions, sawEmpty>>
    BY <1>10 DEF TerminateSession, history
  <2> QED
    BY <1>10, <2>1, TerminateFields, NothingSeen DEF Looking, Live
<1>11. ASSUME NEW c \in Client, NEW k \in issued, CloneSession(c, k) PROVE SeenInv'
  <2>1. UNCHANGED <<sessions, sawEmpty>>
    BY <1>11 DEF CloneSession, history
  <2> QED
    BY <1>11, <2>1, CloneFields, NothingSeen DEF Looking, Live
<1>12. ASSUME NEW c \in Client, CloneDeletesTicket(c) PROVE SeenInv'
  <2>1. Goto(c, "cloned") /\ \E k : Removed(c, k)
    BY <1>12 DEF CloneDeletesTicket
  <2> QED
    BY <2>1, GotoFields, RemovedSeen DEF Looking
<1>13. ASSUME NEW k \in Key, Timer(k) PROVE SeenInv'
  BY <1>13 DEF SeenInv, Looking, NoSessionMeansNone, Authenticated, Timer, Live, history
<1>14. ASSUME NEW k \in Key, expiredSession(k) PROVE SeenInv'
  <2>1. \A d \in Client : sawEmpty'[d] = (sawEmpty[d] \/ (Looking(d) /\ Live \subseteq {k}))
    BY <1>14 DEF expiredSession
  <2>2. Live' = Live \ {k} /\ req' = req
    BY <1>14 DEF expiredSession, delSession, Live
  <2> QED
    BY <2>1, <2>2 DEF SeenInv, Looking, NoSessionMeansNone, Authenticated
<1>15. CASE UNCHANGED vars
  BY <1>15 DEF SeenInv, Looking, NoSessionMeansNone, Authenticated, vars, real, history, Live
<1> QED
  BY <1>1, <1>2, <1>3, <1>4, <1>5, <1>6, <1>7, <1>8, <1>9, <1>10, <1>11, <1>12, <1>13,
     <1>14, <1>15 DEF Next, Step, Login, LoginByToken, createSession, SetClone, history

\* A request runs without a session only if there was none while it looked.
THEOREM SessionsNoSessionMeansNone == Spec => []NoSessionMeansNone
<1>1. Init => SeenInv
  BY DEF Init, SeenInv, Looking, NoSessionMeansNone, Idle
<1>2. SeenInv => NoSessionMeansNone
  BY DEF SeenInv
<1> QED
  BY <1>1, <1>2, TypeInit, TypeNext, SeenNext, PTL DEF Spec

-----------------------------------------------------------------------------
(* Sessions that are kept.                                                 *)

\* A step that gives no cookie out and removes no session that is not given up.
LEMMA NothingLost ==
  ASSUME KeptUnlessStray, jar' = jar, given \subseteq given', stray => stray',
         stray' \/ Live \ given' \subseteq Live'
  PROVE  KeptUnlessStray'
BY DEF KeptUnlessStray

\* The cookie of a new session names it.
LEMMA NewSessionKept ==
  ASSUME TypeOK, KeptUnlessStray, NEW c \in Client, NEW u, SetNewSession(c, u),
         UNCHANGED <<given, stray>>
  PROVE  KeptUnlessStray'
<1>1. PICK k \in Key \ issued : putSession(k, u) /\ jar' = [jar EXCEPT ![c] = k]
  BY DEF SetNewSession
<1>2. Live' = Live \union {k}
  BY <1>1 DEF putSession, Live
<1> QED
  BY <1>1, <1>2 DEF TypeOK, KeptUnlessStray

\* Only a Logout in a session its cookie does not name takes a session away.
LEMMA KeptNext == TypeOK /\ KeptUnlessStray /\ [Next]_vars => KeptUnlessStray'
<1> SUFFICES ASSUME TypeOK, KeptUnlessStray, [Next]_vars PROVE KeptUnlessStray'
  OBVIOUS
<1>1. ASSUME UNCHANGED <<sessions, jar, given, stray>> PROVE KeptUnlessStray'
  BY <1>1 DEF KeptUnlessStray, Live
<1>2. ASSUME NEW c \in Client, SetSession(c) PROVE KeptUnlessStray'
  BY <1>2, NothingLost DEF SetSession, putSession, Live
<1>3. ASSUME NEW c \in Client, NEW u, SetNewSession(c, u), UNCHANGED <<given, stray>>
      PROVE  KeptUnlessStray'
  BY <1>3, NewSessionKept
<1>4. ASSUME NEW c \in Client, Logout(c) PROVE KeptUnlessStray'
  <2>1. jar' = jar /\ given \subseteq given' /\ (stray => stray')
    BY <1>4 DEF Logout
  <2>2. Live' = Live \ {req[c].key}
    BY <1>4 DEF Logout, Removed, delSession, Live
  <2>3. stray' \/ req[c].key \in given'
    BY <1>4 DEF Logout, Authenticated
  <2> QED
    BY <2>1, <2>2, <2>3, NothingLost
<1>5. ASSUME NEW c \in Client, TerminateFound(c) \/ CloneDeletesTicket(c) PROVE KeptUnlessStray'
  <2>1. jar' = jar /\ given' = given \union {req[c].arg} /\ stray' = stray
    BY <1>5 DEF TerminateFound, CloneDeletesTicket
  <2>2. Live' = Live \ {req[c].arg}
    BY <1>5 DEF TerminateFound, CloneDeletesTicket, Removed, delSession, Live
  <2> QED
    BY <2>1, <2>2, NothingLost
<1>6. ASSUME NEW c \in Client, AcquireCloneTicket(c) PROVE KeptUnlessStray'
  BY <1>6, NothingLost DEF AcquireCloneTicket, putSession, Live, history
<1>7. ASSUME NEW k \in Key, expiredSession(k) PROVE KeptUnlessStray'
  BY <1>7, NothingLost DEF expiredSession, delSession, Live
<1>8. ASSUME NEW c \in Client, Step(c) PROVE KeptUnlessStray'
  <2>1. \/ UNCHANGED <<sessions, jar, given, stray>>
        \/ SetSession(c) \/ Logout(c) \/ TerminateFound(c) \/ CloneDeletesTicket(c)
        \/ AcquireCloneTicket(c)
        \/ \E u : SetNewSession(c, u) /\ UNCHANGED <<given, stray>>
    BY <1>8 DEF Step, getSession, anySession, Serve, Login, LoginByToken, createSession,
                ImpersonateUser, TerminateSession, CloneSession, SetClone, history
  <2> QED
    BY <2>1, <1>1, <1>2, <1>3, <1>4, <1>5, <1>6
<1>9. CASE \E c \in Client : \E k \in {jar[c], NoKey} : Arrive(c, k)
  BY <1>1, <1>9 DEF Arrive
<1>10. CASE \E k \in Key : Timer(k)
  BY <1>1, <1>10 DEF Timer, history
<1>11. CASE UNCHANGED vars
  BY <1>1, <1>11 DEF vars, real, history
<1> QED
  BY <1>7, <1>8, <1>9, <1>10, <1>11 DEF Next

\* A client keeps its session until it is given up, strays apart.
THEOREM SessionsKeptUnlessStray == Spec => []KeptUnlessStray
<1>1. Init => KeptUnlessStray
  BY DEF Init, KeptUnlessStray
<1> QED
  BY <1>1, TypeInit, TypeNext, KeptNext, PTL DEF Spec

-----------------------------------------------------------------------------
(* The table as SessionTable describes it.  A write-back changes nothing   *)
(* but the keys that are open because all copies of a session agree with   *)
(* each other and with the table, which is what OwnedInv says.             *)

Tabled == {<<k, sessions[k]>> : k \in Live}

CopiedBut(c) == {<<req[d].key, req[d].user>> : d \in Copied \ {c}}

CopyOf(c) == IF req[c].pc = "setSession" THEN {<<req[c].key, req[c].user>>} ELSE {}

OwnedInv ==
    /\ Owned \subseteq issued \X User /\ authenticated \subseteq User
    /\ \A p, q \in Owned : p[1] = q[1] => p = q

\* What is owned, seen from one request ...
LEMMA OwnedParts ==
  ASSUME NEW c \in Client
  PROVE  Owned = Tabled \union CopiedBut(c) \union CopyOf(c)
BY DEF Owned, Tabled, CopiedBut, CopyOf, Copied

\* ... and after a step of that request.
LEMMA OwnedNext ==
  ASSUME NEW c \in Client, \A d \in Client \ {c} : req'[d] = req[d]
  PROVE  Owned' = Tabled' \union CopiedBut(c) \union CopyOf(c)'
<1>1. CopiedBut(c)' = CopiedBut(c)
  BY DEF CopiedBut, Copied
<1>2. Owned' = Tabled' \union CopiedBut(c)' \union CopyOf(c)'
  BY DEF Owned, Tabled, CopiedBut, CopyOf, Copied
<1> QED
  BY <1>1, <1>2

\* Before the first request nothing is owned.
LEMMA TableInitHolds == Init => Table!TableInit /\ OwnedInv
BY DEF Init, Table!TableInit, OwnedInv, Owned, Live, Copied, Idle

\* The types say whose the pairs are.
LEMMA OwnedTyped ==
  ASSUME TypeOK, NEW c \in Copied
  PROVE  req[c].key \in issued /\ req[c].user \in User
BY SessionAssumption DEF TypeOK, Request, Copied

\* A step that touches neither the table nor a copy.
LEMMA TableSame ==
  ASSUME NEW c \in Client, \A d \in Client \ {c} : req'[d] = req[d],
         req[c].pc # "setSession", req'[c].pc # "setSession",
         UNCHANGED <<sessions, issued, authenticated>>
  PROVE  UNCHANGED Table!tableVars
<1>1. Tabled' = Tabled /\ Live' = Live
  BY DEF Tabled, Live
<1>2. CopyOf(c) = {} /\ CopyOf(c)' = {}
  BY DEF CopyOf
<1>3. Owned' = Owned
  BY <1>1, <1>2, OwnedParts, OwnedNext
<1> QED
  BY <1>1, <1>3 DEF Table!tableVars

\* A copy that was just taken is of a session in the table.
LEMMA TableLent ==
  ASSUME TypeOK, NEW c \in Client, req[c].pc # "setSession", NEW k \in Live, Holding(c, k),
         UNCHANGED <<sessions, issued, authenticated>>
  PROVE  UNCHANGED Table!tableVars
<1>1. Tabled' = Tabled /\ Live' = Live /\ <<k, sessions[k]>> \in Tabled
  BY DEF Tabled, Live
<1>2. CopyOf(c) = {} /\ CopyOf(c)' = {<<k, sessions[k]>>}
  BY HoldingFields DEF CopyOf
<1>3. \A d \in Client \ {c} : req'[d] = req[d]
  BY HoldingFields
<1>4. Owned' = Owned
  BY <1>1, <1>2, <1>3, OwnedParts, OwnedNext
<1> QED
  BY <1>1, <1>4 DEF Table!tableVars

\* A write-back finds the session as it left it, or resumes it.
LEMMA TableResume ==
  ASSUME TypeOK, OwnedInv, NEW c \in Client, SetSession(c)
  PROVE  [Table!TableNext]_(Table!tableVars)
<1> DEFINE k == req[c].key
           u == req[c].user
<1>1. c \in Copied /\ k \in issued /\ u \in User /\ issued \subseteq Key
  BY OwnedTyped DEF SetSession, Copied, TypeOK
<1>2. putSession(k, u) /\ UNCHANGED <<issued, authenticated>> /\ Goto(c, "call")
  BY DEF SetSession
<1>3. CopyOf(c) = {<<k, u>>} /\ CopyOf(c)' = {} /\ <<k, u>> \in Owned
  BY <1>1, <1>2, GotoFields DEF CopyOf, Owned, Copied
<1>4. \A d \in Client \ {c} : req'[d] = req[d]
  BY <1>2, GotoFields
<1> HIDE DEF k, u
<1>5. Live' = Live \union {k}
  BY <1>2 DEF putSession, Live
<1>6. Tabled' = {p \in Tabled : p[1] # k} \union {<<k, u>>}
  BY <1>2 DEF putSession, Live, Tabled
<1>7. \A p \in Tabled : p[1] = k => p = <<k, u>>
  BY <1>3, OwnedParts DEF OwnedInv
<1>8. Owned' = Owned
  <2>1. Owned = Tabled \union CopiedBut(c) \union {<<k, u>>}
    BY <1>3, OwnedParts
  <2>2. Owned' = Tabled' \union CopiedBut(c)
    BY <1>3, <1>4, OwnedNext
  <2>3. Tabled' = Tabled \union {<<k, u>>}
    BY <1>6, <1>7
  <2> QED
    BY <2>1, <2>2, <2>3
<1>9. CASE k \in Live
  BY <1>2, <1>5, <1>8, <1>9 DEF Table!tableVars
<1>10. CASE k \notin Live
  <2>1. Table!Resume(k)
    BY <1>1, <1>2, <1>3, <1>5, <1>8, <1>10 DEF Table!Resume
  <2> QED
    BY <1>1, <2>1 DEF Table!TableNext
<1> QED
  BY <1>9, <1>10

\* A new session has a key that was not drawn before, and a user that is known.
LEMMA TableOpens ==
  ASSUME TypeOK, NEW c \in Client, req[c].pc # "setSession", NEW k \in Key \ issued, NEW u \in User,
         putSession(k, u), issued' = issued \union {k}, Done(c),
         \/ authenticated' = authenticated \union {u}
         \/ authenticated' = authenticated /\ u \in authenticated
  PROVE  Table!TableNext
<1>1. Live' = Live \union {k} /\ k \notin Live
  BY DEF putSession, Live, TypeOK
<1>2. Tabled' = Tabled \union {<<k, u>>}
  BY <1>1 DEF putSession, Live, Tabled
<1>3. CopyOf(c) = {} /\ CopyOf(c)' = {}
  BY DoneFields DEF CopyOf
<1>4. \A d \in Client \ {c} : req'[d] = req[d]
  BY DoneFields
<1>5. Owned' = Owned \union {<<k, u>>}
  BY <1>2, <1>3, <1>4, OwnedParts, OwnedNext
<1>6. Table!Draw(k) /\ Table!Open(k, u)
  BY <1>1, <1>5 DEF Table!Draw, Table!Open
<1>7. Table!Login(k) \/ Table!Share(k)
  BY <1>6 DEF Table!Login, Table!Share
<1> QED
  BY <1>7 DEF Table!TableNext

\* A removal suspends a session that is copied and ends one that is not.
LEMMA TableCloses ==
  ASSUME TypeOK, OwnedInv, NEW k \in Key, delSession(k),
         UNCHANGED <<issued, authenticated>>,
         {<<req'[c].key, req'[c].user>> : c \in Copied'} = {<<req[c].key, req[c].user>> : c \in Copied}
  PROVE  [Table!TableNext]_(Table!tableVars)
<1> DEFINE copies == {<<req[c].key, req[c].user>> : c \in Copied}
<1>1. Live' = Live \ {k}
  BY DEF delSession, Live
<1>2. Tabled' = {p \in Tabled : p[1] # k}
  BY DEF delSession, Live, Tabled
<1>3. Owned = Tabled \union copies /\ Owned' = Tabled' \union copies
  BY DEF Owned, Tabled
<1> HIDE DEF copies
<1>4. CASE k \notin Live
  <2>1. Tabled' = Tabled /\ Live' = Live
    BY <1>1, <1>2, <1>4 DEF Tabled
  <2> QED
    BY <1>3, <2>1 DEF Table!tableVars
<1>5. CASE k \in Live /\ \E p \in copies : p[1] = k
  <2>1. \A p \in Tabled : p[1] = k => p \in copies
    BY <1>3, <1>5 DEF OwnedInv
  <2>2. Owned' = Owned
    BY <1>2, <1>3, <2>1
  <2>3. Table!Suspend(k)
    BY <1>1, <1>5, <2>2 DEF Table!Suspend, Table!Leave
  <2> QED
    BY <2>3 DEF Table!TableNext
<1>6. CASE k \in Live /\ \A p \in copies : p[1] # k
  <2>1. Owned' = {p \in Owned : p[1] # k}
    BY <1>2, <1>3, <1>6
  <2>2. Owned' = Owned \ ({k} \X User)
    BY <2>1 DEF OwnedInv
  <2>3. Table!End(k)
    BY <1>1, <1>6, <2>2 DEF Table!End, Table!Leave
  <2> QED
    BY <2>3 DEF Table!TableNext
<1> QED
  BY <1>4, <1>5, <1>6

\* Every step of every request and timer is one of the table or none.
LEMMA TableStep ==
  TypeOK /\ UsersAuthenticated /\ OwnedInv /\ [Next]_vars => [Table!TableNext]_(Table!tableVars)
<1> SUFFICES ASSUME TypeOK, UsersAuthenticated, OwnedInv, [Next]_vars
             PROVE  [Table!TableNext]_(Table!tableVars)
  OBVIOUS
<1>1. ASSUME NEW c \in Client, NEW k \in {jar[c], NoKey}, Arrive(c, k)
      PROVE  UNCHANGED Table!tableVars
  <2>1. req[c].pc # "setSession" /\ UNCHANGED <<sessions, issued, authenticated>>
    BY <1>1 DEF Arrive
  <2> QED
    BY <1>1, <2>1, ArriveFields, TableSame
<1>2. ASSUME NEW c \in Client, getSession(c) \/ anySession(c) PROVE UNCHANGED Table!tableVars
  <2>1. req[c].pc # "setSession" /\ UNCHANGED <<sessions, issued, authenticated>>
    BY <1>2 DEF getSession, anySession, history
  <2>2. CASE \E k \in Live : Holding(c, k)
    BY <2>1, <2>2, TableLent
  <2>3. CASE getSession(c) /\ req[c].cookie \notin Live
    BY <2>1, <2>3, MissFields, TableSame
  <2>4. CASE Goto(c, "call")
    BY <2>1, <2>4, GotoFields, TableSame
  <2> QED
    BY <1>2, <2>2, <2>3, <2>4 DEF getSession, anySession
<1>3. ASSUME NEW c \in Client, Serve(c) PROVE UNCHANGED Table!tableVars
  BY <1>3, DoneFields, TableSame DEF Serve, At, history
<1>4. ASSUME NEW c \in Client, NEW u \in User, Login(c, u) \/ LoginByToken(c, u)
      PROVE  Table!TableNext
  <2>1. At(c) /\ SetNewSession(c, u) /\ authenticated' = authenticated \union {u} /\ Done(c)
    BY <1>4 DEF Login, LoginByToken, createSession
  <2> QED
    BY <2>1, TableOpens DEF SetNewSession, At
<1>5. ASSUME NEW c \in Client, NEW u \in User, ImpersonateUser(c, u)
      PROVE  UNCHANGED Table!tableVars
  <2>1. req[c].pc # "setSession" /\ UNCHANGED <<sessions, issued, authenticated>>
    BY <1>5 DEF ImpersonateUser, At, history
  <2> QED
    BY <1>5, <2>1, ImpersonateFields, TableSame
<1>6. ASSUME NEW c \in Client, Logout(c) \/ TerminateFound(c) \/ CloneDeletesTicket(c)
      PROVE  [Table!TableNext]_(Table!tableVars)
  <2>1. PICK k \in Key : delSession(k)
    BY <1>6 DEF TypeOK, Logout, TerminateFound, CloneDeletesTicket, Removed, Authenticated, Request
  <2>2. req[c].pc # "setSession" /\ UNCHANGED <<issued, authenticated>> /\ (Done(c) \/ Goto(c, "cloned"))
    BY <1>6 DEF Logout, TerminateFound, CloneDeletesTicket, At
  <2>3. req'[c].pc # "setSession" /\ \A d \in Client \ {c} : req'[d] = req[d]
    BY <2>2, DoneFields, GotoFields
  <2>4. Copied' = Copied /\ \A d \in Copied : req'[d] = req[d]
    BY <2>2, <2>3 DEF Copied
  <2> QED
    BY <2>1, <2>2, <2>4, TableCloses
<1>7. ASSUME NEW c \in Client, AcquireCloneTicket(c) PROVE Table!TableNext
  <2>1. req[c].user \in authenticated /\ req[c].user \in User /\ At(c) /\ Done(c)
    BY <1>7 DEF TypeOK, Request, UsersAuthenticated, AcquireCloneTicket, Authenticated
  <2>2. authenticated' = authenticated
    BY <1>7 DEF AcquireCloneTicket, history
  <2> QED
    BY <1>7, <2>1, <2>2, TableOpens DEF AcquireCloneTicket, At
<1>8. ASSUME NEW c \in Client, NEW k \in issued, TerminateSession(c, k)
      PROVE  UNCHANGED Table!tableVars
  <2>1. req[c].pc # "setSession" /\ UNCHANGED <<sessions, issued, authenticated>>
    BY <1>8 DEF TerminateSession, At, history
  <2> QED
    BY <1>8, <2>1, TerminateFields, TableSame
<1>9. ASSUME NEW c \in Client, NEW k \in issued, CloneSession(c, k)
      PROVE  UNCHANGED Table!tableVars
  <2>1. req[c].pc # "setSession" /\ UNCHANGED <<sessions, issued, authenticated>>
    BY <1>9 DEF CloneSession, At, history
  <2> QED
    BY <1>9, <2>1, CloneFields, TableSame
<1>10. ASSUME NEW c \in Client, SetClone(c) PROVE Table!TableNext
  <2>1. req[c].user \in authenticated /\ req[c].user \in User /\ req[c].pc # "setSession" /\ Done(c)
    BY <1>10 DEF TypeOK, Request, UsersAuthenticated, SetClone
  <2>2. authenticated' = authenticated /\ SetNewSession(c, req[c].user)
    BY <1>10 DEF SetClone, history
  <2> QED
    BY <2>1, <2>2, TableOpens DEF SetNewSession
<1>11. ASSUME NEW k \in Key, Timer(k) PROVE UNCHANGED Table!tableVars
  BY <1>11 DEF Timer, Table!tableVars, Owned, Copied, Live, history
<1>12. ASSUME NEW k \in Key, expiredSession(k) PROVE [Table!TableNext]_(Table!tableVars)
  <2>1. delSession(k) /\ UNCHANGED <<req, issued, authenticated>>
    BY <1>12 DEF expiredSession
  <2> QED
    BY <2>1, TableCloses DEF Copied
<1>13. CASE UNCHANGED vars
  BY <1>13 DEF vars, real, history, Table!tableVars, Owned, Copied, Live
<1> QED
  BY <1>1, <1>2, <1>3, <1>4, <1>5, <1>6, <1>7, <1>8, <1>9, <1>10, <1>11, <1>12, <1>13,
     TableResume DEF Next, Step

\* A step of the table gives no session a second user.
LEMMA OwnedKept ==
  OwnedInv /\ [Table!TableNext]_(Table!tableVars) => OwnedInv'
<1> SUFFICES ASSUME OwnedInv, [Table!TableNext]_(Table!tableVars) PROVE OwnedInv'
  OBVIOUS
<1>1. ASSUME Owned' \subseteq Owned, UNCHANGED <<issued, authenticated>> PROVE OwnedInv'
  BY <1>1 DEF OwnedInv
<1>2. ASSUME NEW k, Table!Login(k) \/ Table!Share(k) PROVE OwnedInv'
  <2>1. PICK u \in User : Table!Open(k, u) /\ Table!Draw(k)
    BY <1>2 DEF OwnedInv, Table!Login, Table!Share
  <2>2. Owned' = Owned \union {<<k, u>>} /\ issued' = issued \union {k} /\ k \notin issued
    BY <2>1 DEF Table!Open, Table!Draw
  <2>3. authenticated' \subseteq User
    BY <1>2 DEF OwnedInv, Table!Login, Table!Share
  <2>4. \A p, q \in Owned' : p[1] = q[1] => p = q
    BY <2>2 DEF OwnedInv
  <2> QED
    BY <2>2, <2>3, <2>4 DEF OwnedInv
<1>3. ASSUME NEW k, Table!End(k) \/ Table!Suspend(k) \/ Table!Resume(k) PROVE OwnedInv'
  BY <1>1, <1>3 DEF Table!End, Table!Suspend, Table!Resume
<1>4. CASE UNCHANGED Table!tableVars
  BY <1>1, <1>4 DEF Table!tableVars
<1> QED
  BY <1>2, <1>3, <1>4 DEF Table!TableNext

\* Lookups, copies and write-backs in critical sections of their own are as good
\* as a table that is changed at once.
THEOREM SessionsImplementTable == Spec => ImplementsTable
<1>1. Init => UsersAuthenticated
  BY DEF Init, UsersAuthenticated, Live, Idle
<1> QED
  BY <1>1, TypeInit, TypeNext, UsersNext, TableInitHolds, TableStep, OwnedKept, PTL
  DEF Spec, ImplementsTable, Table!TableSpec

\* A session never changes its user, not while it is in the table and not when
\* a stale copy brings it back.
THEOREM SessionsUserForGood ==
  Spec => [][\A p \in Owned, q \in Owned' : p[1] = q[1] => p = q]_vars
<1> DEFINE Same == \A p \in Owned, q \in Owned' : p[1] = q[1] => p = q
<1>1. OwnedInv /\ [Table!TableNext]_(Table!tableVars) => Same
  <2> SUFFICES ASSUME OwnedInv, [Table!TableNext]_(Table!tableVars) PROVE Same
    OBVIOUS
  <2>1. ASSUME Owned' \subseteq Owned PROVE Same
    BY <2>1 DEF OwnedInv
  <2>2. ASSUME NEW k, Table!Login(k) \/ Table!Share(k) PROVE Same
    <3>1. PICK u : Owned' = Owned \union {<<k, u>>} /\ k \notin issued
      BY <2>2 DEF Table!Login, Table!Share, Table!Open, Table!Draw
    <3> QED
      BY <3>1 DEF OwnedInv
  <2>3. ASSUME NEW k, Table!End(k) \/ Table!Suspend(k) \/ Table!Resume(k) PROVE Same
    BY <2>1, <2>3 DEF Table!End, Table!Suspend, Table!Resume
  <2>4. CASE UNCHANGED Table!tableVars
    BY <2>1, <2>4 DEF Table!tableVars
  <2> QED
    BY <2>2, <2>3, <2>4 DEF Table!TableNext
<1>2. Init => UsersAuthenticated
  BY DEF Init, UsersAuthenticated, Live, Idle
<1> QED
  BY <1>1, <1>2, TypeInit, TypeNext, UsersNext, TableInitHolds, TableStep, OwnedKept, PTL DEF Spec
=============================================================================
