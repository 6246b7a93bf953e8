-------------------------------- MODULE Sessions --------------------------------
(***************************************************************************)
(* AuthController, AuthService and TokensService, and the dashboard's      *)
(* request(), which refreshes the session behind a call that got a 401.    *)
(* The calls are those of the tabs of one browser: they overlap, and share *)
(* a cookie jar.  An access token is good until it expires, whatever       *)
(* becomes of its user; a refresh token is a row that is found, revoked    *)
(* and succeeded by another in steps of their own.                         *)
(***************************************************************************)
CONSTANTS
  Users, NoUser,
  New,              \* users who have yet to register
  Tokens, NoToken,  \* rows of refresh_tokens, as many as can be held at once
  Calls             \* calls the tabs have in flight at once

ASSUME SessionsAssumption == NoUser \notin Users /\ New \subseteq Users /\ NoToken \notin Tokens

VARIABLES
  users,       \* absent, active or inactive
  tokens,      \* refresh_tokens
  jar,         \* the cookies: the user of the access token, the refresh token
  call         \* the calls in flight

sessionVars == <<users, tokens, jar, call>>

Kind == {"data", "logout", "login"}
Pc == {"idle", "send", "refresh", "find", "revoke", "user", "create", "issue", "deliver",
       "revokeAll", "clear"}

(* Rows. *)
UserState == {"absent", "active", "inactive"}
TokenRow == [state : {"unused", "live", "revoked", "expired"}, owner : Users \cup {NoUser}]

NoRow == [state |-> "unused", owner |-> NoUser]
NoCookies == [access |-> NoUser, refresh |-> NoToken]
Idle == [pc |-> "idle", kind |-> "data", retry |-> TRUE, user |-> NoUser,
         token |-> NoToken, issued |-> NoToken]

(* A row whose token neither the browser nor a call holds is left out. *)
Known == {jar.refresh} \cup UNION {{call[c].token, call[c].issued} : c \in Calls}
KeepKnown == tokens' = [t \in Tokens |-> IF t \in Known' THEN tokens[t] ELSE NoRow]

Goto(c, pc) == call' = [call EXCEPT ![c].pc = pc]
End(c) == call' = [call EXCEPT ![c] = Idle]

--------------------------------------------------------------------------------
(* api.ts request(): the fetch carries the cookie of the moment, and       *)
(* JwtAuthGuard asks no more than that it has not expired.  A 401 is       *)
(* followed by a refresh, once, unless the path is one of /auth, as those  *)
(* of me and logout are.  The mutant forgets that it has refreshed.        *)
Start(c, kind, auth) ==
  /\ call[c] = Idle
  /\ call' = [call EXCEPT ![c] = [Idle EXCEPT !.pc = "send", !.kind = kind, !.retry = ~auth]]
  /\ UNCHANGED <<users, tokens, jar>>

Accepted(c) ==
  /\ call[c].pc = "send" /\ jar.access # NoUser
  /\ IF call[c].kind = "logout"
     THEN call' = [call EXCEPT ![c].pc = "revokeAll", ![c].user = jar.access]
     ELSE End(c)
  /\ UNCHANGED <<users, jar>> /\ KeepKnown

UnauthorizedAgain(c) ==
  /\ call[c].pc = "send" /\ jar.access = NoUser
  /\ IF call[c].kind = "data" THEN Goto(c, "refresh") ELSE End(c)
  /\ UNCHANGED <<users, jar>> /\ KeepKnown

Unauthorized(c) ==
  /\ call[c].pc = "send" /\ jar.access = NoUser
  /\ IF call[c].retry
     THEN call' = [call EXCEPT ![c].pc = "refresh", ![c].retry = FALSE]
     ELSE End(c)
  /\ UNCHANGED <<users, jar>> /\ KeepKnown

(* Any call of the dashboard, the one its provider makes when the page is  *)
(* opened, and the button.                                                 *)
Api(c) == Start(c, "data", FALSE)
Me(c) == Start(c, "data", TRUE)
Logout(c) == Start(c, "logout", TRUE)

(* POST /auth/refresh, with the cookie of this moment, if there is one.    *)
(* The mutant does not look whether there is.                              *)
SendRefreshAnyway(c) ==
  /\ call[c].pc = "refresh"
  /\ call' = [call EXCEPT ![c].pc = "find", ![c].token = jar.refresh]
  /\ UNCHANGED <<users, jar>> /\ KeepKnown

SendRefresh(c) ==
  /\ call[c].pc = "refresh"
  /\ IF jar.refresh = NoToken THEN End(c)
     ELSE call' = [call EXCEPT ![c].pc = "find", ![c].token = jar.refresh]
  /\ UNCHANGED <<users, jar>> /\ KeepKnown

--------------------------------------------------------------------------------
(* TokensService.consumeRefreshToken: two queries.  The mutant leaves the  *)
(* token as it is.                                                         *)
FindTokenOnly(c) ==
  LET t == call[c].token IN
  /\ call[c].pc = "find"
  /\ IF tokens[t].state = "live"
     THEN call' = [call EXCEPT ![c].pc = "user", ![c].user = tokens[t].owner]
     ELSE End(c)
  /\ UNCHANGED <<users, jar>> /\ KeepKnown

FindToken(c) ==
  LET t == call[c].token IN
  /\ call[c].pc = "find"
  /\ IF tokens[t].state = "live"
     THEN call' = [call EXCEPT ![c].pc = "revoke", ![c].user = tokens[t].owner]
     ELSE End(c)
  /\ UNCHANGED <<users, jar>> /\ KeepKnown

Revoked(S) == [t \in Tokens |-> IF t \in S THEN [tokens[t] EXCEPT !.state = "revoked"]
                                ELSE tokens[t]]
LiveOf(u) == {t \in Tokens : tokens[t].owner = u /\ tokens[t].state = "live"}

RevokeToken(c) ==
  /\ call[c].pc = "revoke"
  /\ tokens' = Revoked({call[c].token})
  /\ Goto(c, "user")
  /\ UNCHANGED <<users, jar>>

(* AuthService.refresh and login read the user.  The mutant does not ask   *)
(* whether they are active.                                                *)
ReadUserOnly(c) ==
  /\ call[c].pc = "user"
  /\ IF users[call[c].user] # "absent" THEN Goto(c, "issue") ELSE End(c)
  /\ UNCHANGED <<users, jar>> /\ KeepKnown

ReadUser(c) ==
  /\ call[c].pc = "user"
  /\ IF users[call[c].user] = "active" THEN Goto(c, "issue") ELSE End(c)
  /\ UNCHANGED <<users, jar>> /\ KeepKnown

Login(c, u) ==
  /\ call[c] = Idle
  /\ call' = [call EXCEPT ![c] = [Idle EXCEPT !.pc = "user", !.kind = "login", !.user = u]]
  /\ UNCHANGED <<users, tokens, jar>>

(* AuthService.register: the address is unknown when it is looked up, and  *)
(* unique when it is inserted.                                             *)
Register(c, u) ==
  /\ call[c] = Idle /\ users[u] = "absent"
  /\ call' = [call EXCEPT ![c] = [Idle EXCEPT !.pc = "create", !.kind = "login", !.user = u]]
  /\ UNCHANGED <<users, tokens, jar>>

CreateUser(c) ==
  LET u == call[c].user IN
  /\ call[c].pc = "create"
  /\ IF users[u] = "absent"
     THEN users' = [users EXCEPT ![u] = "active"] /\ Goto(c, "issue")
     ELSE UNCHANGED users /\ End(c)
  /\ UNCHANGED <<tokens, jar>>

--------------------------------------------------------------------------------
(* issueSession: a JWT that nobody stores, and a row. *)
Issue(c) ==
  LET t == CHOOSE x \in Tokens : x \notin Known IN
  /\ call[c].pc = "issue"
  /\ ~(Tokens \subseteq Known)
  /\ tokens' = [s \in Tokens |-> IF s = t THEN [state |-> "live", owner |-> call[c].user]
                                 ELSE tokens[s]]
  /\ call' = [call EXCEPT ![c].pc = "deliver", ![c].issued = t]
  /\ UNCHANGED <<users, jar>>

(* The response sets both cookies; behind it request() tries again.  The   *)
(* mutant sets the refresh cookie for a login only.                        *)
DeliverAccess(c) ==
  LET d == call[c] IN
  /\ d.pc = "deliver"
  /\ jar' = IF d.kind = "data" THEN [jar EXCEPT !.access = d.user]
            ELSE [access |-> d.user, refresh |-> d.issued]
  /\ IF d.kind = "data"
     THEN call' = [call EXCEPT ![c] = [Idle EXCEPT !.pc = "send", !.retry = d.retry]]
     ELSE End(c)
  /\ UNCHANGED users /\ KeepKnown

Deliver(c) ==
  LET d == call[c] IN
  /\ d.pc = "deliver"
  /\ jar' = [access |-> d.user, refresh |-> d.issued]
  /\ IF d.kind = "data"
     THEN call' = [call EXCEPT ![c] = [Idle EXCEPT !.pc = "send", !.retry = d.retry]]
     ELSE End(c)
  /\ UNCHANGED users /\ KeepKnown

(* AuthController.logout, and its response.  The cookies were set with     *)
(* COOKIE_DOMAIN and are cleared without a domain: where that names the    *)
(* host alone, as localhost does, the browser drops them, and where it is  *)
(* a real domain it takes them for others and keeps them.                  *)
RevokeAll(c) ==
  /\ call[c].pc = "revokeAll"
  /\ tokens' = Revoked(LiveOf(call[c].user))
  /\ Goto(c, "clear")
  /\ UNCHANGED <<users, jar>>

ClearCookies(c) ==
  /\ call[c].pc = "clear"
  /\ jar' \in {jar, NoCookies}
  /\ End(c)
  /\ UNCHANGED users /\ KeepKnown

(* A query fails, the process dies, or the response is lost: the call ends *)
(* with an error and what is done is done.                                 *)
Fail(c) ==
  /\ call[c] # Idle
  /\ End(c)
  /\ UNCHANGED <<users, jar>> /\ KeepKnown

--------------------------------------------------------------------------------
(* Time, and administrators.                                               *)
ExpireAccess ==
  /\ jar.access # NoUser
  /\ jar' = [jar EXCEPT !.access = NoUser]
  /\ UNCHANGED <<users, tokens, call>>

ExpireRefresh(t) ==
  /\ tokens[t].state = "live"
  /\ tokens' = [tokens EXCEPT ![t] = IF \E c \in Calls : t \in {call[c].token, call[c].issued}
                                     THEN [@ EXCEPT !.state = "expired"] ELSE NoRow]
  /\ jar' = IF jar.refresh = t THEN [jar EXCEPT !.refresh = NoToken] ELSE jar
  /\ UNCHANGED <<users, call>>

(* UsersService.create and update, without a session. *)
AddUser(u) ==
  /\ users[u] = "absent"
  /\ users' = [users EXCEPT ![u] = "active"]
  /\ UNCHANGED <<tokens, jar, call>>

UpdateUser(u, state) ==
  /\ users[u] # "absent"
  /\ users' = [users EXCEPT ![u] = state]
  /\ UNCHANGED <<tokens, jar, call>>

Administer(u) == AddUser(u) \/ \E state \in {"active", "inactive"} : UpdateUser(u, state)

--------------------------------------------------------------------------------
Init ==
  /\ users = [u \in Users |-> IF u \in New THEN "absent" ELSE "active"]
  /\ tokens = [t \in Tokens |-> NoRow]
  /\ jar = NoCookies
  /\ call = [c \in Calls |-> Idle]

Step(c) ==
  \/ Accepted(c) \/ Unauthorized(c) \/ SendRefresh(c)
  \/ FindToken(c) \/ RevokeToken(c) \/ ReadUser(c) \/ CreateUser(c) \/ Issue(c) \/ Deliver(c)
  \/ RevokeAll(c) \/ ClearCookies(c)

Next ==
  \/ \E c \in Calls :
       \/ Step(c) \/ Fail(c)
       \/ Api(c) \/ Me(c) \/ Logout(c)
       \/ \E u \in Users : Login(c, u) \/ Register(c, u)
  \/ ExpireAccess
  \/ \E t \in Tokens : ExpireRefresh(t)
  \/ \E u \in Users : Administer(u)

Spec == Init /\ [][Next]_sessionVars
================================================================================
