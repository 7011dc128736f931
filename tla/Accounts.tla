------------------------------ MODULE Accounts ------------------------------
(* Users, sessions and who is online: SessionManager with its memory storage,   *)
(* and the handlers for /register, /login, /user/logout and the pages that ask  *)
(* for the session (/menu, /pvp, /ws, /aiBot/...).  The server has one I/O      *)
(* thread, so a handler is one step.  A browser is a cookie jar.  What /login   *)
(* and /register do to the tables is decided by MySQL, which may fail.          *)
EXTENDS Integers, FiniteSets

CONSTANTS User, Browser, NoUser,
          MaxSessions   \* bound: session ids generated
ASSUME AccountsAssumption == NoUser \notin User /\ MaxSessions \in Nat

VARIABLES
    users,        \* rows of the table users
    sessions,     \* sessions_: id -> [user, isLoggedIn, expired]
    nextId,       \* ids are random: each one generated is new
    cookie,       \* browser -> its sessionId, 0 without one
    onlineUsers,  \* onlineUsers_
    aiGames       \* keys of aiGames_

accVars == <<users, sessions, nextId, cookie, onlineUsers, aiGames>>

NewSession == [user |-> NoUser, isLoggedIn |-> FALSE, expired |-> FALSE]

AccInit ==
    /\ users = {} /\ sessions = [i \in {} |-> NewSession] /\ nextId = 1
    /\ cookie = [b \in Browser |-> 0]
    /\ onlineUsers = {} /\ aiGames = {}

-----------------------------------------------------------------------------
(* SessionManager. *)

With(id, s) == [i \in DOMAIN sessions \cup {id} |-> IF i = id THEN s ELSE sessions[i]]
Without(id) == [i \in DOMAIN sessions \ {id} |-> sessions[i]]

\* MemorySessionStorage::load finds the session of the cookie, not expired.
load(b) == cookie[b] \in DOMAIN sessions /\ ~sessions[cookie[b]].expired

\* The session of a request: the one of its cookie, or a new one.  An expired
\* one is erased by load, under its old id.
SessionId(b) == IF load(b) THEN cookie[b] ELSE nextId
SessionOf(b) == IF load(b) THEN sessions[cookie[b]] ELSE NewSession

\* getSession, together with what the handler then does to the session: it is
\* stored as s, its time of expiry refreshed, and the cookie is set.
getSession(b, s) ==
    /\ load(b) \/ nextId <= MaxSessions
    /\ nextId' = IF load(b) THEN nextId ELSE nextId + 1
    /\ cookie' = [cookie EXCEPT ![b] = SessionId(b)]
    /\ sessions' = [i \in (DOMAIN sessions \ (IF load(b) THEN {} ELSE {cookie[b]})) \cup {SessionId(b)} |->
                      IF i = SessionId(b) THEN [s EXCEPT !.expired = FALSE] ELSE sessions[i]]

\* Session::isExpired: nothing refreshed it for maxAge_ seconds.
Expire(id) ==
    /\ id \in DOMAIN sessions /\ ~sessions[id].expired
    /\ sessions' = [sessions EXCEPT ![id].expired = TRUE]
    /\ UNCHANGED <<users, nextId, cookie, onlineUsers, aiGames>>

ForgetCookie(b) ==
    /\ cookie[b] # 0
    /\ cookie' = [cookie EXCEPT ![b] = 0]
    /\ UNCHANGED <<users, sessions, nextId, onlineUsers, aiGames>>

-----------------------------------------------------------------------------
(* Handlers. *)

\* RegisterHandler: a name that exists is refused; a failing query throws.
Register(u) ==
    /\ u \notin users
    /\ users' = users \cup {u}
    /\ UNCHANGED <<sessions, nextId, cookie, onlineUsers, aiGames>>

\* Mutant of MayLogin: the list of users online is not consulted.
AnyMayLogin(u) == u \in users

MayLogin(u) == u \in users /\ u \notin onlineUsers

\* LoginHandler with the right password.  The session may belong to another
\* user who has not logged out; it now belongs to this one.
Login(b, u) ==
    /\ MayLogin(u)
    /\ getSession(b, [SessionOf(b) EXCEPT !.user = u, !.isLoggedIn = TRUE])
    /\ onlineUsers' = onlineUsers \cup {u}
    /\ UNCHANGED <<users, aiGames>>

\* Session::clear and destroySession.
Destroyed(id) == Without(id)

\* LogoutHandler.  The session is destroyed before the body is parsed: with a
\* body that does not parse nothing else happens.  Leaving the rooms and the
\* queue for "pvp" is an action of GameWs.
Logout(b, body) ==
    /\ load(b) /\ SessionOf(b).user # NoUser
    /\ sessions' = Destroyed(cookie[b])
    /\ onlineUsers' = IF body = "malformed" THEN onlineUsers ELSE onlineUsers \ {SessionOf(b).user}
    /\ aiGames' = IF body = "ai" THEN aiGames \ {SessionOf(b).user} ELSE aiGames
    /\ UNCHANGED <<users, nextId, cookie>>

\* A page, or a logout of somebody not logged in (stoi throws): the session is
\* refreshed or a new one made.
Visit(b) ==
    /\ getSession(b, SessionOf(b))
    /\ UNCHANGED <<users, onlineUsers, aiGames>>

\* /aiBot/start, restart and move make an AI game for the user of the session;
\* the move that ends the game erases it.
PlayAi(b, ends) ==
    /\ SessionOf(b).isLoggedIn
    /\ getSession(b, SessionOf(b))
    /\ aiGames' = IF ends THEN aiGames \ {SessionOf(b).user} ELSE aiGames \cup {SessionOf(b).user}
    /\ UNCHANGED <<users, onlineUsers>>

\* The process ends and starts again: everything but the table is in memory.
Restart ==
    /\ sessions' = [i \in {} |-> NewSession]
    /\ onlineUsers' = {} /\ aiGames' = {}
    /\ UNCHANGED <<users, nextId, cookie>>

AccNext ==
    \/ \E u \in User : Register(u)
    \/ \E b \in Browser :
         \/ ForgetCookie(b) \/ Visit(b)
         \/ \E u \in User : Login(b, u)
         \/ \E body \in {"ai", "pvp", "malformed"} : Logout(b, body)
         \/ \E ends \in BOOLEAN : PlayAi(b, ends)
    \/ \E id \in 1..MaxSessions : Expire(id)
    \/ Restart

AccSpec == AccInit /\ [][AccNext]_accVars

-----------------------------------------------------------------------------
\* Sessions, cookies and the tables of GomokuServer have their types.
AccTypeOK ==
    /\ users \subseteq User /\ onlineUsers \subseteq User /\ aiGames \subseteq User
    /\ sessions \in [DOMAIN sessions -> [user : User \cup {NoUser}, isLoggedIn : BOOLEAN, expired : BOOLEAN]]
    /\ DOMAIN sessions \subseteq 1..MaxSessions /\ nextId \in 1..(MaxSessions + 1)
    /\ cookie \in [Browser -> 0..MaxSessions]

\* The sessions with which a request of user u would be served now.
LiveSessions(u) == {i \in DOMAIN sessions : sessions[i].isLoggedIn /\ sessions[i].user = u /\ ~sessions[i].expired}

\* An account is logged in at one place at a time, and whoever is served as u
\* counts as online (LoginHandler refuses the second login by onlineUsers_, the
\* pages admit by the session: two records, changed by different handlers).
OneSessionPerUser ==
    /\ AccTypeOK
    /\ \A u \in User :
          /\ Cardinality(LiveSessions(u)) <= 1
          /\ LiveSessions(u) # {} => u \in onlineUsers
=============================================================================
