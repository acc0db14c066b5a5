----------------------------- MODULE SessionTable -----------------------------
(***************************************************************************)
(* What the session manager promises: a session is opened once, under a    *)
(* key of its own, for a user that has proved who it is, and has that user *)
(* for good.  When it ends it is gone, unless a request that found it      *)
(* earlier is still at work: then it may come back, once that request      *)
(* writes its copy, and under no other user.  Sessions.tla, where requests *)
(* work with copies, is shown to implement this module.                    *)
(***************************************************************************)
CONSTANTS Key, User

VARIABLES
    owned,              \* <<k, u>>: session k, open or suspended, is of user u
    open,               \* the keys of the sessions that requests can find
    drawn,              \* the keys of all sessions there have been
    known               \* the users that have logged in

tableVars == <<open, drawn, known, owned>>

TableInit ==
    /\ owned = {} /\ open = {}
    /\ drawn = {} /\ known = {}

\* A key is drawn, and never again.
Draw(k) ==
    /\ k \notin drawn
    /\ drawn' = drawn \union {k}

Open(k, u) ==
    /\ open' = open \union {k}
    /\ owned' = owned \union {<<k, u>>}

\* With a password, a token or a certificate.
Login(k) == Draw(k) /\ \E u \in User : Open(k, u) /\ known' = known \union {u}

\* A clone ticket, a clone or an impersonation.
Share(k) == Draw(k) /\ known' = known /\ \E u \in known : Open(k, u)

Leave(k) ==
    /\ k \in open
    /\ open' = open \ {k}

\* A session ends for good ...
End(k) ==
    /\ Leave(k)
    /\ owned' = owned \ ({k} \X User)
    /\ UNCHANGED <<drawn, known>>

\* ... or a request holds a copy of it, and may write that back.
Suspend(k) ==
    /\ Leave(k)
    /\ UNCHANGED <<owned, drawn, known>>

Resume(k) ==
    /\ k \notin open /\ open' = open \union {k}
    /\ \E u \in User : <<k, u>> \in owned
    /\ UNCHANGED <<owned, drawn, known>>

TableNext == \E k \in Key : Login(k) \/ Share(k) \/ End(k) \/ Suspend(k) \/ Resume(k)

TableSpec == TableInit /\ [][TableNext]_tableVars
=============================================================================
