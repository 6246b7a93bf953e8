----------------------------- MODULE SessionsProofs -----------------------------
(***************************************************************************)
(* Proofs about Sessions, for any number of users, tokens and calls: the   *)
(* tables keep their shape, a refresh token that buys a session is dead by *)
(* then, and only a fault, half a logout or a deactivation leaves the      *)
(* browser with one that does not work.                                    *)
(***************************************************************************)
EXTENDS SessionsRequirements, TLAPS

CallRow == [pc : Pc, kind : Kind, retry : BOOLEAN, user : Users \cup {NoUser},
            token : Tokens \cup {NoToken}, issued : Tokens \cup {NoToken}]

(* A call knows what its next step needs. *)
CallOK(r) ==
  /\ r \in CallRow
  /\ r.pc \in {"find", "revoke"} => r.token # NoToken
  /\ r.pc = "create" => r.token = NoToken
  /\ r.pc \in {"revoke", "user", "create", "issue", "deliver", "revokeAll"} => r.user \in Users
  /\ r.pc = "deliver" => r.issued \in Tokens

TokensOK(rows) ==
  /\ rows \in [Tokens -> TokenRow]
  /\ \A t \in Tokens : rows[t].state = "live" => rows[t].owner \in Users

(* The type invariant without its last part, which speaks of rows. *)
Shape ==
  /\ users \in [Users -> UserState]
  /\ TokensOK(tokens)
  /\ jar \in [access : Users \cup {NoUser}, refresh : Tokens \cup {NoToken}]
  /\ call \in [Calls -> CallRow] /\ \A c \in Calls : CallOK(call[c])

RowsAreKnown == \A t \in Known \ {NoToken} : tokens[t] # NoRow

(* A call that has spent a refresh token holds one that is revoked.        *)
Spent(c) ==
  call[c].pc \in {"user", "issue", "deliver"} /\ call[c].token # NoToken =>
    tokens[call[c].token].state = "revoked"

SessionsInv == Shape /\ RowsAreKnown /\ \A c \in Calls : Spent(c)

--------------------------------------------------------------------------------
(***************************************************************************)
(* What the steps have in common.                                          *)
(***************************************************************************)
LEMMA RowFacts == NoRow \in TokenRow /\ NoRow.state = "unused"
  BY DEF NoRow, TokenRow

(* A row is left out only if nobody knows it any more. *)
LEMMA Kept ==
  ASSUME Shape, KeepKnown
  PROVE  /\ TokensOK(tokens')
         /\ \A t \in Tokens : t \in Known' => tokens'[t] = tokens[t]
  BY RowFacts DEF KeepKnown, Shape, TokensOK

LEMMA RevokedRows ==
  ASSUME Shape, NEW S \in SUBSET Tokens, tokens' = Revoked(S)
  PROVE  /\ TokensOK(tokens')
         /\ \A t \in Tokens : /\ t \in S => tokens'[t].state = "revoked"
                              /\ t \notin S => tokens'[t] = tokens[t]
                              /\ tokens'[t] = NoRow => tokens[t] = NoRow
<1> DEFINE row(t) == [tokens[t] EXCEPT !.state = "revoked"]
<1>1. \A t \in Tokens : row(t) \in TokenRow /\ row(t).state = "revoked"
  BY DEF Shape, TokensOK, TokenRow
<1>2. \A t \in Tokens : tokens'[t] = IF t \in S THEN row(t) ELSE tokens[t]
  BY DEF Revoked
<1>3. \A t \in Tokens : tokens'[t] = NoRow => t \notin S
  BY <1>1, <1>2, RowFacts
<1>4. tokens' \in [Tokens -> TokenRow]
  BY <1>1 DEF Revoked, Shape, TokensOK
<1> QED
  BY <1>1, <1>2, <1>3, <1>4 DEF Shape, TokensOK

(* A step of call c turns its record into r and leaves the other calls be. *)
LEMMA OwnCall ==
  ASSUME Shape, NEW c \in Calls, NEW r, CallOK(r), call' = [call EXCEPT ![c] = r],
         users' \in [Users -> UserState], TokensOK(tokens'),
         jar' \in [access : Users \cup {NoUser}, refresh : Tokens \cup {NoToken}]
  PROVE  Shape' /\ \A d \in Calls : call'[d] = IF d = c THEN r ELSE call[d]
  BY DEF Shape, CallOK

LEMMA IdleOK == CallOK(Idle)
  BY DEF CallOK, CallRow, Idle, Pc, Kind

LEMMA KnownFacts ==
  /\ jar.refresh \in Known
  /\ \A c \in Calls : call[c].token \in Known /\ call[c].issued \in Known
  /\ \A t \in Known : t = jar.refresh \/ \E c \in Calls : t = call[c].token \/ t = call[c].issued
  BY DEF Known

LEMMA KnownNext ==
  /\ jar'.refresh \in Known'
  /\ \A c \in Calls : call'[c].token \in Known' /\ call'[c].issued \in Known'
  /\ \A t \in Known' :
       t = jar'.refresh \/ \E c \in Calls : t = call'[c].token \/ t = call'[c].issued
  BY DEF Known

(* A step of call c that only passes on tokens it has. *)
LEMMA PassOn ==
  ASSUME SessionsInv, NEW c \in Calls, NEW r, CallOK(r), call' = [call EXCEPT ![c] = r],
         KeepKnown \/ tokens' = tokens,
         users' \in [Users -> UserState],
         jar' \in [access : Users \cup {NoUser}, refresh : Tokens \cup {NoToken}],
         {r.token, r.issued, jar'.refresh} \subseteq Known \cup {NoToken},
         r.pc \in {"user", "issue", "deliver"} /\ r.token # NoToken =>
           tokens[r.token].state = "revoked"
  PROVE  SessionsInv'
<1> USE DEF SessionsInv
<1>1. TokensOK(tokens') /\ \A t \in Tokens : t \in Known' => tokens'[t] = tokens[t]
  BY Kept DEF Shape
<1>2. Shape' /\ \A d \in Calls : call'[d] = IF d = c THEN r ELSE call[d]
  BY <1>1, OwnCall DEF Shape
<1>3. Known' \subseteq Known \cup {NoToken}
  BY <1>2, KnownFacts, KnownNext
<1>4. Known' \subseteq Tokens \cup {NoToken}
  BY <1>2, KnownNext DEF Shape, CallRow
<1>5. RowsAreKnown'
  BY <1>1, <1>3, <1>4 DEF RowsAreKnown
<1>6. ASSUME NEW d \in Calls PROVE Spent(d)'
  <2>1. call'[d].token \in Known' /\ call'[d].token \in Tokens \cup {NoToken}
    BY <1>4, KnownNext
  <2> QED
    BY <1>1, <1>2, <2>1 DEF Spent
<1> QED
  BY <1>2, <1>5, <1>6

(* So does one that revokes tokens on its way. *)
LEMMA PassOnRevoking ==
  ASSUME SessionsInv, NEW c \in Calls, NEW r, CallOK(r), call' = [call EXCEPT ![c] = r],
         NEW S \in SUBSET Tokens, tokens' = Revoked(S), UNCHANGED <<users, jar>>,
         {r.token, r.issued} \subseteq Known \cup {NoToken},
         r.pc \in {"user", "issue", "deliver"} /\ r.token # NoToken => r.token \in S
  PROVE  SessionsInv'
<1> USE DEF SessionsInv
<1>1. /\ TokensOK(tokens')
      /\ \A t \in Tokens : /\ t \in S => tokens'[t].state = "revoked"
                           /\ t \notin S => tokens'[t] = tokens[t]
                           /\ tokens'[t] = NoRow => tokens[t] = NoRow
  BY RevokedRows
<1>2. Shape' /\ \A d \in Calls : call'[d] = IF d = c THEN r ELSE call[d]
  BY <1>1, OwnCall DEF Shape
<1>3. Known' \subseteq Known \cup {NoToken}
  BY <1>2, KnownFacts, KnownNext
<1>4. Known' \subseteq Tokens \cup {NoToken}
  BY <1>2, KnownNext DEF Shape, CallRow
<1>5. RowsAreKnown'
  BY <1>1, <1>3, <1>4 DEF RowsAreKnown
<1>6. ASSUME NEW d \in Calls PROVE Spent(d)'
  <2>1. call'[d].token \in Tokens \cup {NoToken}
    BY <1>4, KnownNext
  <2> QED
    BY <1>1, <1>2, <2>1 DEF Spent
<1> QED
  BY <1>2, <1>5, <1>6

--------------------------------------------------------------------------------
(***************************************************************************)
(* The invariant, step by step.                                            *)
(***************************************************************************)
LEMMA SessionsInitially == Init => SessionsInv
<1> SUFFICES ASSUME Init PROVE SessionsInv
  OBVIOUS
<1>1. /\ users \in [Users -> UserState] /\ jar = NoCookies
      /\ tokens = [t \in Tokens |-> NoRow]
      /\ \A c \in Calls : call[c] = Idle
      /\ call \in [Calls -> CallRow]
  BY IdleOK DEF Init, UserState, CallOK
<1>2. Shape
  BY <1>1, RowFacts, IdleOK DEF Shape, TokensOK, NoCookies
<1>3. \A t \in Known : t = NoToken
  BY <1>1, KnownFacts DEF NoCookies, Idle
<1>4. \A c \in Calls : Spent(c)
  BY <1>1 DEF Idle, Spent
<1> QED
  BY <1>2, <1>3, <1>4 DEF SessionsInv, RowsAreKnown

LEMMA Beginnings ==
  ASSUME SessionsInv, NEW c \in Calls,
         Api(c) \/ Me(c) \/ Logout(c) \/ \E u \in Users : Login(c, u) \/ Register(c, u)
  PROVE  SessionsInv'
<1>1. ASSUME NEW k \in Kind, NEW auth \in BOOLEAN, Start(c, k, auth)
      PROVE  SessionsInv'
  <2> DEFINE r == [Idle EXCEPT !.pc = "send", !.kind = k, !.retry = ~auth]
  <2>1. CallOK(r) /\ r.pc = "send" /\ r.token = NoToken /\ r.issued = NoToken
    BY DEF CallOK, CallRow, Idle, Pc, Kind
  <2>2. call' = [call EXCEPT ![c] = r] /\ UNCHANGED <<users, tokens, jar>>
    BY <1>1 DEF Start
  <2>3. {r.token, r.issued, jar'.refresh} \subseteq Known \cup {NoToken}
    BY <2>1, <2>2, KnownFacts
  <2> HIDE DEF r
  <2> QED
    BY <2>1, <2>2, <2>3, PassOn DEF SessionsInv, Shape
<1>2. ASSUME NEW u \in Users, Login(c, u) \/ Register(c, u)
      PROVE  SessionsInv'
  <2>1. PICK pc \in {"user", "create"} :
          /\ call' = [call EXCEPT ![c] = [Idle EXCEPT !.pc = pc, !.kind = "login", !.user = u]]
          /\ UNCHANGED <<users, tokens, jar>>
    BY <1>2 DEF Login, Register
  <2> DEFINE r == [Idle EXCEPT !.pc = pc, !.kind = "login", !.user = u]
  <2>2. CallOK(r) /\ r.token = NoToken /\ r.issued = NoToken
    BY DEF CallOK, CallRow, Idle, Pc, Kind
  <2>3. call' = [call EXCEPT ![c] = r]
    BY <2>1
  <2>4. {r.token, r.issued, jar'.refresh} \subseteq Known \cup {NoToken}
    BY <2>1, <2>2, KnownFacts
  <2> HIDE DEF r
  <2> QED
    BY <2>1, <2>2, <2>3, <2>4, PassOn DEF SessionsInv, Shape
<1> QED
  BY <1>1, <1>2 DEF Api, Me, Logout, Kind

(* A call that ends leaves nothing behind. *)
LEMMA Ends ==
  ASSUME SessionsInv, NEW c \in Calls, End(c), KeepKnown \/ tokens' = tokens,
         users' \in [Users -> UserState],
         jar' \in [access : Users \cup {NoUser}, refresh : Tokens \cup {NoToken}],
         jar'.refresh \in Known \cup {NoToken}
  PROVE  SessionsInv'
<1>1. Idle.pc = "idle" /\ Idle.token = NoToken /\ Idle.issued = NoToken
  BY DEF Idle
<1>2. {Idle.token, Idle.issued, jar'.refresh} \subseteq Known \cup {NoToken}
  BY <1>1
<1>3. CallOK(Idle) /\ call' = [call EXCEPT ![c] = Idle]
  BY IdleOK DEF End
<1> QED
  BY <1>1, <1>2, <1>3, PassOn

(* What the record of a call says about it. *)
LEMMA CallFacts ==
  ASSUME SessionsInv, NEW c \in Calls
  PROVE  /\ call[c] \in CallRow /\ CallOK(call[c]) /\ Spent(c)
         /\ call[c].token \in Known /\ call[c].issued \in Known
         /\ jar \in [access : Users \cup {NoUser}, refresh : Tokens \cup {NoToken}]
         /\ jar.refresh \in Known
         /\ users \in [Users -> UserState]
  BY KnownFacts DEF SessionsInv, Shape

(* A call that goes on with the tokens it has, or with the one in the jar. *)
LEMMA GoesOn ==
  ASSUME SessionsInv, NEW c \in Calls, NEW r, CallOK(r), call' = [call EXCEPT ![c] = r],
         r.issued = call[c].issued, r.token = call[c].token \/ r.token = jar.refresh,
         KeepKnown \/ tokens' = tokens,
         users' \in [Users -> UserState], jar' = jar,
         r.pc \in {"user", "issue", "deliver"} /\ r.token # NoToken =>
           tokens[r.token].state = "revoked"
  PROVE  SessionsInv'
<1>1. {r.token, r.issued, jar'.refresh} \subseteq Known \cup {NoToken}
  BY CallFacts
<1>2. jar' \in [access : Users \cup {NoUser}, refresh : Tokens \cup {NoToken}]
  BY CallFacts
<1> QED
  BY <1>1, <1>2, PassOn

LEMMA Requests ==
  ASSUME SessionsInv, NEW c \in Calls, Accepted(c) \/ Unauthorized(c) \/ SendRefresh(c) \/ Fail(c)
  PROVE  SessionsInv'
<1>1. CASE End(c) /\ UNCHANGED <<users, jar>> /\ KeepKnown
  BY <1>1, Ends, CallFacts
<1>2. CASE /\ Accepted(c) /\ jar.access \in Users
           /\ call' = [call EXCEPT ![c].pc = "revokeAll", ![c].user = jar.access]
  <2> DEFINE r == [call[c] EXCEPT !.pc = "revokeAll", !.user = jar.access]
  <2>1. CallOK(r) /\ r.pc = "revokeAll" /\ r.issued = call[c].issued /\ r.token = call[c].token
    BY <1>2, CallFacts DEF CallOK, CallRow, Pc
  <2>2. call' = [call EXCEPT ![c] = r]
    BY <1>2
  <2>3. KeepKnown /\ jar' = jar /\ users' \in [Users -> UserState]
    BY <1>2, CallFacts DEF Accepted
  <2> HIDE DEF r
  <2> QED
    BY <2>1, <2>2, <2>3, GoesOn
<1>3. CASE /\ Unauthorized(c)
           /\ call' = [call EXCEPT ![c].pc = "refresh", ![c].retry = FALSE]
  <2> DEFINE r == [call[c] EXCEPT !.pc = "refresh", !.retry = FALSE]
  <2>1. CallOK(r) /\ r.pc = "refresh" /\ r.issued = call[c].issued /\ r.token = call[c].token
    BY <1>3, CallFacts DEF CallOK, CallRow, Pc
  <2>2. call' = [call EXCEPT ![c] = r]
    BY <1>3
  <2>3. KeepKnown /\ jar' = jar /\ users' \in [Users -> UserState]
    BY <1>3, CallFacts DEF Unauthorized
  <2> HIDE DEF r
  <2> QED
    BY <2>1, <2>2, <2>3, GoesOn
<1>4. CASE /\ SendRefresh(c) /\ jar.refresh # NoToken
           /\ call' = [call EXCEPT ![c].pc = "find", ![c].token = jar.refresh]
  <2> DEFINE r == [call[c] EXCEPT !.pc = "find", !.token = jar.refresh]
  <2>1. CallOK(r) /\ r.pc = "find" /\ r.issued = call[c].issued /\ r.token = jar.refresh
    BY <1>4, CallFacts DEF CallOK, CallRow, Pc
  <2>2. call' = [call EXCEPT ![c] = r]
    BY <1>4
  <2>3. KeepKnown /\ jar' = jar /\ users' \in [Users -> UserState]
    BY <1>4, CallFacts DEF SendRefresh
  <2> HIDE DEF r
  <2> QED
    BY <2>1, <2>2, <2>3, GoesOn
<1> QED
  BY <1>1, <1>2, <1>3, <1>4, CallFacts DEF Accepted, Unauthorized, SendRefresh, Fail

LEMMA Exchanges ==
  ASSUME SessionsInv, NEW c \in Calls,
         FindToken(c) \/ RevokeToken(c) \/ ReadUser(c) \/ CreateUser(c)
  PROVE  SessionsInv'
<1>1. CASE End(c) /\ UNCHANGED <<users, jar>> /\ (KeepKnown \/ tokens' = tokens)
  BY <1>1, Ends, CallFacts
<1>2. CASE FindToken(c) /\ tokens[call[c].token].state = "live"
  <2> DEFINE u == tokens[call[c].token].owner
  <2> DEFINE r == [call[c] EXCEPT !.pc = "revoke", !.user = u]
  <2>1. call[c].token \in Tokens /\ u \in Users
    BY <1>2, CallFacts DEF FindToken, CallOK, CallRow, SessionsInv, Shape, TokensOK
  <2>2. CallOK(r) /\ r.pc = "revoke" /\ r.issued = call[c].issued /\ r.token = call[c].token
    BY <1>2, <2>1, CallFacts DEF FindToken, CallOK, CallRow, Pc
  <2>3. call' = [call EXCEPT ![c] = r]
    BY <1>2 DEF FindToken
  <2>4. KeepKnown /\ jar' = jar /\ users' \in [Users -> UserState]
    BY <1>2, CallFacts DEF FindToken
  <2> HIDE DEF r
  <2> QED
    BY <2>2, <2>3, <2>4, GoesOn
<1>3. CASE RevokeToken(c)
  <2> DEFINE r == [call[c] EXCEPT !.pc = "user"]
  <2>1. /\ CallOK(r) /\ r.issued = call[c].issued /\ r.token = call[c].token
        /\ call[c].token \in Tokens
    BY <1>3, CallFacts DEF RevokeToken, CallOK, CallRow, Pc
  <2>2. call' = [call EXCEPT ![c] = r] /\ UNCHANGED <<users, jar>>
        /\ tokens' = Revoked({call[c].token})
    BY <1>3 DEF RevokeToken, Goto
  <2>3. {r.token, r.issued} \subseteq Known \cup {NoToken}
    BY <2>1, CallFacts
  <2> HIDE DEF r
  <2> QED
    BY <2>1, <2>2, <2>3, PassOnRevoking
<1>4. CASE ReadUser(c) /\ Goto(c, "issue")
  <2> DEFINE r == [call[c] EXCEPT !.pc = "issue"]
  <2>1. /\ CallOK(r) /\ r.pc = "issue" /\ r.issued = call[c].issued /\ r.token = call[c].token
        /\ call[c].pc = "user"
    BY <1>4, CallFacts DEF ReadUser, CallOK, CallRow, Pc
  <2>2. call' = [call EXCEPT ![c] = r] /\ KeepKnown /\ UNCHANGED <<users, jar>>
    BY <1>4 DEF ReadUser, Goto
  <2>3. r.token # NoToken => tokens[r.token].state = "revoked"
    BY <2>1, CallFacts DEF Spent
  <2>4. users' \in [Users -> UserState]
    BY <2>2, CallFacts
  <2> HIDE DEF r
  <2> QED
    BY <2>1, <2>2, <2>3, <2>4, GoesOn
<1>5. CASE CreateUser(c) /\ Goto(c, "issue")
  <2> DEFINE r == [call[c] EXCEPT !.pc = "issue"]
  <2>1. /\ CallOK(r) /\ r.pc = "issue" /\ r.issued = call[c].issued /\ r.token = call[c].token
        /\ r.token = NoToken
    BY <1>5, CallFacts DEF CreateUser, CallOK, CallRow, Pc
  <2>2. call' = [call EXCEPT ![c] = r] /\ UNCHANGED <<tokens, jar>>
    BY <1>5 DEF CreateUser, Goto
  <2>3. users' \in [Users -> UserState]
    BY <1>5, CallFacts DEF CreateUser, UserState
  <2> HIDE DEF r
  <2> QED
    BY <2>1, <2>2, <2>3, GoesOn
<1> QED
  BY <1>1, <1>2, <1>3, <1>4, <1>5, CallFacts DEF FindToken, ReadUser, CreateUser

LEMMA Logouts ==
  ASSUME SessionsInv, NEW c \in Calls, RevokeAll(c) \/ ClearCookies(c)
  PROVE  SessionsInv'
<1>1. CASE RevokeAll(c)
  <2> DEFINE r == [call[c] EXCEPT !.pc = "clear"]
  <2>1. CallOK(r) /\ r.pc = "clear" /\ r.issued = call[c].issued /\ r.token = call[c].token
    BY <1>1, CallFacts DEF CallOK, CallRow, Pc
  <2>2. call' = [call EXCEPT ![c] = r] /\ UNCHANGED <<users, jar>>
        /\ tokens' = Revoked(LiveOf(call[c].user))
    BY <1>1 DEF RevokeAll, Goto
  <2>3. {r.token, r.issued} \subseteq Known \cup {NoToken}
    BY <2>1, CallFacts
  <2>4. LiveOf(call[c].user) \in SUBSET Tokens
    BY DEF LiveOf
  <2> HIDE DEF r
  <2> QED
    BY <2>1, <2>2, <2>3, <2>4, PassOnRevoking
<1>2. CASE ClearCookies(c)
  BY <1>2, Ends, CallFacts DEF ClearCookies, NoCookies
<1> QED
  BY <1>1, <1>2

(* A new row: its token is nobody's yet, so nothing known is overwritten.  *)
LEMMA Issues ==
  ASSUME SessionsInv, NEW c \in Calls, Issue(c)
  PROVE  /\ SessionsInv'
         /\ call[c].token # NoToken => tokens'[call[c].token].state = "revoked"
<1> DEFINE t == CHOOSE x \in Tokens : x \notin Known
           row == [state |-> "live", owner |-> call[c].user]
           r == [call[c] EXCEPT !.pc = "deliver", !.issued = t]
<1>1. t \in Tokens /\ t \notin Known
  BY DEF Issue
<1>2. /\ CallOK(r) /\ r.pc = "deliver" /\ r.issued = t /\ r.token = call[c].token
      /\ row \in TokenRow /\ row.owner \in Users /\ row # NoRow /\ row.state = "live"
  BY <1>1, CallFacts DEF Issue, CallOK, CallRow, Pc, TokenRow, NoRow
<1>3. /\ call' = [call EXCEPT ![c] = r] /\ UNCHANGED <<users, jar>>
      /\ \A s \in Tokens : tokens'[s] = IF s = t THEN row ELSE tokens[s]
      /\ tokens' = [s \in Tokens |-> IF s = t THEN row ELSE tokens[s]]
  BY DEF Issue
<1> HIDE DEF t, row, r
<1>4. TokensOK(tokens')
  BY <1>2, <1>3 DEF SessionsInv, Shape, TokensOK
<1>5. Shape' /\ \A d \in Calls : call'[d] = IF d = c THEN r ELSE call[d]
  BY <1>2, <1>3, <1>4, OwnCall DEF SessionsInv, Shape
<1>6. \A s \in Known' : s \in Known \/ s = t
  BY <1>2, <1>3, <1>5, KnownFacts, KnownNext
<1>7. Known \subseteq Tokens \cup {NoToken}
  BY KnownFacts DEF SessionsInv, Shape, CallRow
<1>8. RowsAreKnown'
  BY <1>1, <1>2, <1>3, <1>6, <1>7 DEF SessionsInv, RowsAreKnown
<1>9. ASSUME NEW d \in Calls, call[d].token # NoToken, tokens[call[d].token].state = "revoked"
      PROVE  tokens'[call[d].token].state = "revoked"
  <2>1. call[d].token \in Known
    BY KnownFacts
  <2>2. call[d].token \in Tokens
    BY <1>7, <1>9, <2>1
  <2> QED
    BY <1>1, <1>3, <1>9, <2>1, <2>2
<1>10. call[c].pc = "issue"
  BY DEF Issue
<1>11. call[c].token # NoToken => tokens'[call[c].token].state = "revoked"
  BY <1>9, <1>10, CallFacts DEF Spent
<1>12. ASSUME NEW d \in Calls PROVE Spent(d)'
  BY <1>2, <1>5, <1>9, <1>11, CallFacts DEF Spent
<1> QED
  BY <1>5, <1>8, <1>11, <1>12 DEF SessionsInv

LEMMA Deliveries ==
  ASSUME SessionsInv, NEW c \in Calls, Deliver(c)
  PROVE  SessionsInv'
<1>1. /\ jar' \in [access : Users \cup {NoUser}, refresh : Tokens \cup {NoToken}]
      /\ jar'.refresh \in Known \cup {NoToken}
      /\ users' \in [Users -> UserState] /\ KeepKnown
  BY CallFacts DEF Deliver, CallOK, CallRow
<1>2. CASE End(c)
  BY <1>1, <1>2, Ends
<1>3. CASE call' = [call EXCEPT ![c] = [Idle EXCEPT !.pc = "send", !.retry = call[c].retry]]
  <2> DEFINE r == [Idle EXCEPT !.pc = "send", !.retry = call[c].retry]
  <2>1. CallOK(r) /\ r.pc = "send" /\ r.token = NoToken /\ r.issued = NoToken
    BY CallFacts DEF CallOK, CallRow, Idle, Pc, Kind
  <2>2. call' = [call EXCEPT ![c] = r]
    BY <1>3
  <2>3. {r.token, r.issued, jar'.refresh} \subseteq Known \cup {NoToken}
    BY <1>1, <2>1
  <2> HIDE DEF r
  <2> QED
    BY <1>1, <2>1, <2>2, <2>3, PassOn
<1> QED
  BY <1>2, <1>3 DEF Deliver

(* Time and administrators take no step of a call. *)
LEMMA Elsewhere ==
  ASSUME SessionsInv,
         ExpireAccess \/ (\E t \in Tokens : ExpireRefresh(t)) \/ (\E u \in Users : Administer(u))
  PROVE  SessionsInv'
<1>1. CASE ExpireAccess
  <2>1. UNCHANGED <<users, tokens, call>> /\ jar'.refresh = jar.refresh /\ Known' = Known
        /\ jar' \in [access : Users \cup {NoUser}, refresh : Tokens \cup {NoToken}]
    BY <1>1 DEF ExpireAccess, Known, SessionsInv, Shape
  <2> QED
    BY <2>1 DEF SessionsInv, Shape, RowsAreKnown, Spent
<1>2. ASSUME NEW u \in Users, Administer(u)
      PROVE  SessionsInv'
  <2>1. UNCHANGED <<tokens, jar, call>> /\ users' \in [Users -> UserState]
    BY <1>2 DEF Administer, AddUser, UpdateUser, SessionsInv, Shape, UserState
  <2> QED
    BY <2>1 DEF SessionsInv, Shape, RowsAreKnown, Spent, Known
<1>3. ASSUME NEW t \in Tokens, ExpireRefresh(t)
      PROVE  SessionsInv'
  <2> DEFINE held == \E c \in Calls : t \in {call[c].token, call[c].issued}
             old == [tokens[t] EXCEPT !.state = "expired"]
  <2>1. /\ old \in TokenRow /\ old # NoRow /\ old.state = "expired"
        /\ tokens' = [tokens EXCEPT ![t] = IF held THEN old ELSE NoRow]
        /\ tokens[t].state = "live"
    BY <1>3 DEF ExpireRefresh, SessionsInv, Shape, TokensOK, TokenRow, NoRow
  <2>2. \A s \in Tokens : tokens'[s] = IF s = t THEN IF held THEN old ELSE NoRow ELSE tokens[s]
    BY <2>1 DEF SessionsInv, Shape, TokensOK
  <2>3. /\ UNCHANGED <<users, call>>
        /\ jar' \in [access : Users \cup {NoUser}, refresh : Tokens \cup {NoToken}]
        /\ jar'.refresh \in {jar.refresh, NoToken} \ {t}
    BY <1>3, SessionsAssumption DEF ExpireRefresh, SessionsInv, Shape
  <2> HIDE DEF old
  <2>4. Shape'
    <3>1. TokensOK(tokens')
      BY <2>1, <2>2, RowFacts DEF SessionsInv, Shape, TokensOK
    <3> QED
      BY <2>3, <3>1 DEF SessionsInv, Shape
  <2>5. \A s \in Known' : s \in (Known \cup {NoToken}) /\ (s = t => held)
    BY <2>3, KnownFacts, KnownNext, SessionsAssumption
  <2>6. Known' \subseteq Tokens \cup {NoToken}
    BY <2>4, KnownNext DEF Shape, CallRow
  <2>7. RowsAreKnown'
    BY <2>1, <2>2, <2>5, <2>6 DEF SessionsInv, RowsAreKnown
  <2>8. ASSUME NEW c \in Calls PROVE Spent(c)'
    <3>1. call[c].token \in Tokens \cup {NoToken}
      BY CallFacts DEF CallRow
    <3> QED
      BY <2>1, <2>2, <2>3, <3>1, CallFacts DEF Spent
  <2> QED
    BY <2>4, <2>7, <2>8 DEF SessionsInv
<1> QED
  BY <1>1, <1>2, <1>3

LEMMA SessionsStep ==
  ASSUME SessionsInv, [Next]_sessionVars
  PROVE  SessionsInv'
<1>1. CASE UNCHANGED sessionVars
  BY <1>1 DEF sessionVars, SessionsInv, Shape, RowsAreKnown, Known, Spent
<1>2. CASE Next
  BY <1>2, Beginnings, Requests, Exchanges, Issues, Deliveries, Logouts, Elsewhere
  DEF Next, Step
<1> QED
  BY <1>1, <1>2

--------------------------------------------------------------------------------
(***************************************************************************)
(* The theorems.                                                           *)
(***************************************************************************)

(* The tables, the cookies and the calls keep their shape, and the row of  *)
(* a token that the browser or a call holds is never lost, however many    *)
(* tabs sign in, refresh and sign out at once.                             *)
THEOREM SessionsTypeCorrect == Spec => []SessionsTypeOK
<1>1. SessionsInv => SessionsTypeOK
  BY DEF SessionsInv, Shape, TokensOK, CallOK, CallRow, RowsAreKnown, SessionsTypeOK
<1> QED
  BY <1>1, SessionsInitially, SessionsStep, PTL DEF Spec

(* A session that TokensService and AuthService issue for a refresh token  *)
(* is issued when that token is dead: no interleaving of finding, revoking *)
(* and issuing leaves it good for another.                                 *)
THEOREM RefreshCorrect == Spec => RefreshUsesUp
<1>1. SessionsInv /\ [Next]_sessionVars =>
        [\A c \in Calls :
           Issue(c) /\ call[c].token # NoToken =>
             tokens'[call[c].token].state = "revoked"]_sessionVars
  BY Issues
<1> QED
  BY <1>1, SessionsInitially, SessionsStep, PTL DEF Spec, RefreshUsesUp

--------------------------------------------------------------------------------
(***************************************************************************)
(* Who holds which token.  A call that exchanges one acts for its owner,   *)
(* who is not absent, and a token that is on its way is nobody else's.     *)
(***************************************************************************)
Exchanging == {"revoke", "user", "issue", "deliver"}

Owned(c) ==
  /\ call[c].pc \in Exchanging /\ call[c].token # NoToken =>
       tokens[call[c].token].owner = call[c].user /\ users[call[c].user] # "absent"
  /\ call[c].pc = "issue" => users[call[c].user] # "absent"

LiveOwners == \A t \in Tokens : tokens[t].state = "live" => users[tokens[t].owner] # "absent"

Fresh(c) ==
  call[c].issued # NoToken =>
    /\ call[c].issued # jar.refresh
    /\ \A d \in Calls : /\ call[c].issued # call[d].token
                        /\ d # c => call[c].issued # call[d].issued

HolderInv == SessionsInv /\ LiveOwners /\ \A c \in Calls : Owned(c) /\ Fresh(c)

(* What a step does to rows and users: owners stay, nobody becomes absent, *)
(* and only Issue makes a row live.                                        *)
RowsStay ==
  /\ \A t \in Tokens : t \in Known /\ t \in Known' => tokens'[t].owner = tokens[t].owner
  /\ \A u \in Users : users[u] # "absent" => users'[u] # "absent"
  /\ \A t \in Tokens : tokens'[t].state = "live" =>
       \/ tokens[t].state = "live" /\ tokens'[t].owner = tokens[t].owner
       \/ \E c \in Calls : Issue(c) /\ tokens'[t].owner = call[c].user

(* The steps that leave the rows as they are, but for those nobody knows.  *)
Quiet(c) ==
  \/ Accepted(c) \/ Unauthorized(c) \/ SendRefresh(c) \/ FindToken(c) \/ ReadUser(c)
  \/ CreateUser(c) \/ Deliver(c) \/ ClearCookies(c) \/ Fail(c)
  \/ Api(c) \/ Me(c) \/ Logout(c) \/ \E u \in Users : Login(c, u) \/ Register(c, u)

LEMMA QuietRows ==
  ASSUME SessionsInv, NEW c \in Calls, Quiet(c)
  PROVE  (KeepKnown \/ tokens' = tokens) /\ \A u \in Users : users[u] # "absent" => users'[u] # "absent"
<1>1. CASE CreateUser(c)
  <2>1. tokens' = tokens
    BY <1>1 DEF CreateUser
  <2>2. users' = users \/ users' = [users EXCEPT ![call[c].user] = "active"]
    BY <1>1 DEF CreateUser
  <2> QED
    BY <2>1, <2>2 DEF SessionsInv, Shape
<1>2. CASE Accepted(c) \/ Unauthorized(c) \/ SendRefresh(c) \/ FindToken(c) \/ ReadUser(c)
             \/ Deliver(c) \/ ClearCookies(c) \/ Fail(c)
  BY <1>2 DEF Accepted, Unauthorized, SendRefresh, FindToken, ReadUser, Deliver, ClearCookies, Fail
<1>3. CASE Api(c) \/ Me(c) \/ Logout(c) \/ \E u \in Users : Login(c, u) \/ Register(c, u)
  BY <1>3 DEF Api, Me, Logout, Start, Login, Register
<1> QED
  BY <1>1, <1>2, <1>3 DEF Quiet

LEMMA RowsStep ==
  ASSUME SessionsInv, [Next]_sessionVars
  PROVE  RowsStay
<1>1. ASSUME KeepKnown \/ tokens' = tokens,
             \A u \in Users : users[u] # "absent" => users'[u] # "absent"
      PROVE  RowsStay
  <2>1. \A t \in Tokens : t \in Known' => tokens'[t] = tokens[t]
    BY <1>1, Kept DEF SessionsInv
  <2>2. \A t \in Tokens : tokens'[t] = tokens[t] \/ tokens'[t] = NoRow
    BY <1>1 DEF KeepKnown
  <2> QED
    BY <1>1, <2>1, <2>2, RowFacts DEF RowsStay
<1>2. ASSUME NEW S \in SUBSET Tokens, tokens' = Revoked(S), users' = users
      PROVE  RowsStay
  <2>1. \A t \in Tokens : /\ tokens'[t].owner = tokens[t].owner
                          /\ tokens'[t].state = "live" => tokens[t].state = "live"
    BY <1>2 DEF Revoked, SessionsInv, Shape, TokensOK, TokenRow
  <2> QED
    BY <1>2, <2>1 DEF RowsStay
<1>3. ASSUME NEW c \in Calls, Quiet(c)
      PROVE  RowsStay
  BY <1>1, <1>3, QuietRows
<1>4. ASSUME NEW c \in Calls, RevokeToken(c) \/ RevokeAll(c)
      PROVE  RowsStay
  <2>1. CASE RevokeToken(c)
    <3>1. {call[c].token} \in SUBSET Tokens
      BY <2>1, CallFacts DEF RevokeToken, CallOK, CallRow
    <3> QED
      BY <2>1, <3>1, <1>2 DEF RevokeToken
  <2>2. CASE RevokeAll(c)
    BY <2>2, <1>2 DEF RevokeAll, LiveOf
  <2> QED
    BY <1>4, <2>1, <2>2
<1>5. ASSUME NEW c \in Calls, Issue(c)
      PROVE  RowsStay
  <2> DEFINE n == CHOOSE x \in Tokens : x \notin Known
             row == [state |-> "live", owner |-> call[c].user]
  <2>1. n \notin Known /\ row.owner = call[c].user
    BY <1>5 DEF Issue
  <2>2. users' = users /\ \A t \in Tokens : tokens'[t] = IF t = n THEN row ELSE tokens[t]
    BY <1>5 DEF Issue
  <2> HIDE DEF n, row
  <2>3. \A t \in Tokens : t \in Known => tokens'[t] = tokens[t]
    BY <2>1, <2>2
  <2> QED
    BY <1>5, <2>1, <2>2, <2>3 DEF RowsStay
<1>6. CASE ExpireAccess
  BY <1>1, <1>6 DEF ExpireAccess
<1>7. ASSUME NEW u \in Users, Administer(u)
      PROVE  RowsStay
  <2>1. tokens' = tokens
    BY <1>7 DEF Administer, AddUser, UpdateUser
  <2>2. \E s \in {"active", "inactive"} : users' = [users EXCEPT ![u] = s]
    BY <1>7 DEF Administer, AddUser, UpdateUser
  <2> QED
    BY <2>1, <2>2, <1>1 DEF SessionsInv, Shape
<1>8. ASSUME NEW t \in Tokens, ExpireRefresh(t)
      PROVE  RowsStay
  <2> DEFINE held == \E c \in Calls : t \in {call[c].token, call[c].issued}
             old == [tokens[t] EXCEPT !.state = "expired"]
  <2>1. old.owner = tokens[t].owner /\ old.state = "expired" /\ users' = users
        /\ \A s \in Tokens : tokens'[s] = IF s = t THEN IF held THEN old ELSE NoRow ELSE tokens[s]
    BY <1>8 DEF ExpireRefresh, SessionsInv, Shape, TokensOK, TokenRow
  <2>2. jar'.refresh # t /\ UNCHANGED call
    BY <1>8, SessionsAssumption DEF ExpireRefresh, SessionsInv, Shape
  <2> HIDE DEF old
  <2>3. t \in Known' => held
    BY <2>2, KnownNext
  <2> QED
    BY <2>1, <2>3, RowFacts DEF RowsStay
<1>9. CASE UNCHANGED sessionVars
  BY <1>1, <1>9 DEF sessionVars
<1> QED
  BY <1>3, <1>4, <1>5, <1>6, <1>7, <1>8, <1>9 DEF Next, Step, Quiet

(* A call that goes on with the exchange it has begun, or has none. *)
LEMMA OwnedStays ==
  ASSUME HolderInv, RowsStay, NEW c \in Calls,
         call'[c].pc \in Exchanging /\ call'[c].token # NoToken =>
           call[c].pc \in Exchanging /\ call'[c].token = call[c].token /\ call'[c].user = call[c].user,
         call'[c].pc = "issue" => call[c].pc = "issue" /\ call'[c].user = call[c].user
  PROVE  Owned(c)'
<1>1. SessionsInv /\ CallOK(call[c]) /\ call[c] \in CallRow /\ Owned(c)
  BY CallFacts DEF HolderInv
<1>2. call'[c].token \in Known'
  BY KnownNext
<1>3. ASSUME call'[c].pc \in Exchanging, call'[c].token # NoToken
      PROVE  tokens'[call'[c].token].owner = call'[c].user /\ users'[call'[c].user] # "absent"
  <2>1. /\ call[c].pc \in Exchanging /\ call'[c].token = call[c].token
        /\ call'[c].user = call[c].user
    BY <1>3
  <2>2. call[c].token \in Tokens /\ call[c].token \in Known /\ call[c].user \in Users
    BY <1>1, <1>3, <2>1, CallFacts DEF CallOK, CallRow, Exchanging
  <2> QED
    BY <1>1, <1>2, <1>3, <2>1, <2>2 DEF Owned, RowsStay
<1>4. ASSUME call'[c].pc = "issue"
      PROVE  users'[call'[c].user] # "absent"
  BY <1>1, <1>4 DEF Owned, RowsStay, CallOK
<1> QED
  BY <1>3, <1>4 DEF Owned

(* What each step makes of the record of its call. *)
LEMMA CallStep ==
  ASSUME SessionsInv, [Next]_sessionVars, NEW d \in Calls, call'[d] # call[d]
  PROVE  /\ Step(d) \/ Fail(d) \/ Api(d) \/ Me(d) \/ Logout(d)
              \/ \E u \in Users : Login(d, u) \/ Register(d, u)
         /\ \A e \in Calls \ {d} : call'[e] = call[e]
<1>0. call \in [Calls -> CallRow]
  BY DEF SessionsInv, Shape
<1>1. ASSUME NEW c \in Calls,
             Step(c) \/ Fail(c) \/ Api(c) \/ Me(c) \/ Logout(c)
               \/ \E u \in Users : Login(c, u) \/ Register(c, u)
      PROVE  \A e \in Calls \ {c} : call'[e] = call[e]
  BY <1>0, <1>1
  DEF Step, Fail, Api, Me, Logout, Start, Login, Register, Accepted, Unauthorized, SendRefresh,
      FindToken, RevokeToken, ReadUser, CreateUser, Issue, Deliver, RevokeAll, ClearCookies,
      Goto, End
<1>2. CASE ExpireAccess \/ (\E t \in Tokens : ExpireRefresh(t)) \/ (\E u \in Users : Administer(u))
             \/ UNCHANGED sessionVars
  BY <1>2 DEF ExpireAccess, ExpireRefresh, Administer, AddUser, UpdateUser, sessionVars
<1> QED
  BY <1>1, <1>2 DEF Next

LEMMA OwnedStep ==
  ASSUME HolderInv, [Next]_sessionVars, NEW c \in Calls
  PROVE  Owned(c)'
<1>0. /\ SessionsInv /\ RowsStay /\ CallOK(call[c]) /\ call[c] \in CallRow /\ Owned(c)
      /\ call \in [Calls -> CallRow] /\ LiveOwners /\ users \in [Users -> UserState]
  BY RowsStep, CallFacts DEF HolderInv, SessionsInv, Shape
<1>1. CASE call'[c] = call[c]
  BY <1>0, <1>1, OwnedStays
<1>2. ASSUME call'[c].pc \notin Exchanging
      PROVE  Owned(c)'
  BY <1>2 DEF Owned, Exchanging
<1>3. CASE End(c)
  <2>1. call'[c] = Idle
    BY <1>0, <1>3 DEF End
  <2> QED
    BY <1>2, <2>1 DEF Idle, Exchanging
<1>4. CASE Api(c) \/ Me(c) \/ Logout(c)
  <2>1. PICK k \in Kind, auth \in BOOLEAN : Start(c, k, auth)
    BY <1>4 DEF Api, Me, Logout, Kind
  <2>2. call'[c] = [Idle EXCEPT !.pc = "send", !.kind = k, !.retry = ~auth]
    BY <1>0, <2>1 DEF Start
  <2>3. call'[c].pc = "send"
    BY <2>2 DEF Idle
  <2> QED
    BY <1>2, <2>3 DEF Exchanging
<1>5. ASSUME NEW u \in Users, Login(c, u) \/ Register(c, u)
      PROVE  Owned(c)'
  <2>1. PICK pc \in {"user", "create"} :
          call'[c] = [Idle EXCEPT !.pc = pc, !.kind = "login", !.user = u]
    BY <1>0, <1>5 DEF Login, Register
  <2>2. call'[c].token = NoToken /\ call'[c].pc # "issue"
    BY <2>1 DEF Idle
  <2> QED
    BY <2>2 DEF Owned
<1>6. CASE Accepted(c) \/ Unauthorized(c) \/ SendRefresh(c)
  <2>1. CASE ~End(c)
    <3>1. call'[c].pc \in {"revokeAll", "refresh", "find"}
      BY <1>0, <1>6, <2>1 DEF Accepted, Unauthorized, SendRefresh, CallRow
    <3> QED
      BY <1>2, <3>1 DEF Exchanging
  <2> QED
    BY <2>1, <1>3
<1>7. CASE FindToken(c) /\ ~End(c)
  <2> DEFINE t == call[c].token
  <2>1. /\ t \in Tokens /\ tokens[t].state = "live" /\ t \in Known
        /\ call'[c] = [call[c] EXCEPT !.pc = "revoke", !.user = tokens[t].owner]
        /\ KeepKnown /\ users' = users
    BY <1>0, <1>7, CallFacts DEF FindToken, CallOK, CallRow
  <2>2. /\ call'[c].token = t /\ call'[c].user = tokens[t].owner /\ call'[c].pc = "revoke"
    BY <1>0, <2>1 DEF CallRow
  <2>3. tokens[t].owner \in Users /\ users[tokens[t].owner] # "absent"
    BY <1>0, <2>1 DEF SessionsInv, Shape, TokensOK, LiveOwners
  <2>4. tokens'[t].owner = tokens[t].owner
    BY <1>0, <2>1, <2>2, KnownNext DEF RowsStay
  <2> QED
    BY <2>1, <2>2, <2>3, <2>4 DEF Owned
<1>8. CASE RevokeToken(c) \/ Issue(c)
  <2>1. /\ call[c].pc \in Exchanging /\ call'[c].pc \in {"user", "deliver"}
        /\ call'[c].token = call[c].token /\ call'[c].user = call[c].user
    BY <1>0, <1>8 DEF RevokeToken, Issue, Goto, CallRow, Exchanging
  <2> QED
    BY <1>0, <2>1, OwnedStays
<1>9. CASE ReadUser(c) /\ ~End(c)
  <2>1. /\ call[c].pc = "user" /\ users[call[c].user] = "active" /\ users' = users
        /\ call'[c] = [call[c] EXCEPT !.pc = "issue"]
    BY <1>0, <1>9 DEF ReadUser, Goto
  <2>2. call'[c].token = call[c].token /\ call'[c].user = call[c].user /\ call'[c].pc = "issue"
    BY <1>0, <2>1 DEF CallRow
  <2>3. ASSUME call[c].token # NoToken
        PROVE  tokens'[call[c].token].owner = call[c].user
    <3>1. call[c].token \in Tokens /\ call[c].token \in Known /\ call[c].token \in Known'
      BY <1>0, <2>2, <2>3, CallFacts, KnownNext DEF CallRow
    <3> QED
      BY <1>0, <2>1, <2>3, <3>1 DEF RowsStay, Owned, Exchanging
  <2> QED
    BY <2>1, <2>2, <2>3 DEF Owned
<1>10. CASE CreateUser(c) /\ ~End(c)
  <2>1. /\ call[c].pc = "create" /\ call'[c] = [call[c] EXCEPT !.pc = "issue"]
        /\ users' = [users EXCEPT ![call[c].user] = "active"]
    BY <1>0, <1>10 DEF CreateUser, Goto
  <2>2. call[c].token = NoToken /\ call[c].user \in Users
    BY <1>0, <2>1 DEF CallOK
  <2>3. call'[c].token = NoToken /\ call'[c].user = call[c].user
    BY <1>0, <2>1, <2>2 DEF CallRow
  <2>4. users'[call'[c].user] # "absent"
    BY <1>0, <2>1, <2>2, <2>3
  <2> QED
    BY <2>3, <2>4 DEF Owned
<1>11. CASE Deliver(c) /\ ~End(c)
  <2>1. call'[c] = [Idle EXCEPT !.pc = "send", !.retry = call[c].retry]
    BY <1>0, <1>11 DEF Deliver
  <2>2. call'[c].pc = "send"
    BY <2>1 DEF Idle
  <2> QED
    BY <1>2, <2>2 DEF Exchanging
<1>12. CASE RevokeAll(c)
  <2>1. call'[c].pc = "clear"
    BY <1>0, <1>12 DEF RevokeAll, Goto, CallRow
  <2> QED
    BY <1>2, <2>1 DEF Exchanging
<1>13. CASE ClearCookies(c) \/ Fail(c)
  BY <1>3, <1>13 DEF ClearCookies, Fail
<1> QED
  BY <1>0, <1>1, <1>3, <1>4, <1>5, <1>6, <1>7, <1>8, <1>9, <1>10, <1>11, <1>12, <1>13, CallStep
  DEF Step

LEMMA LiveOwnersStep ==
  ASSUME HolderInv, [Next]_sessionVars
  PROVE  LiveOwners'
<1>0. SessionsInv /\ RowsStay /\ LiveOwners /\ \A c \in Calls : Owned(c) /\ CallOK(call[c])
  BY RowsStep, CallFacts DEF HolderInv
<1> SUFFICES ASSUME NEW t \in Tokens, tokens'[t].state = "live"
             PROVE  users'[tokens'[t].owner] # "absent"
  BY DEF LiveOwners
<1>1. CASE tokens[t].state = "live" /\ tokens'[t].owner = tokens[t].owner
  <2>1. tokens[t].owner \in Users
    BY <1>0, <1>1 DEF SessionsInv, Shape, TokensOK
  <2> QED
    BY <1>0, <1>1, <2>1 DEF LiveOwners, RowsStay
<1>2. ASSUME NEW c \in Calls, Issue(c), tokens'[t].owner = call[c].user
      PROVE  users'[tokens'[t].owner] # "absent"
  <2>1. call[c].pc = "issue" /\ users' = users
    BY <1>2 DEF Issue
  <2> QED
    BY <1>0, <1>2, <2>1 DEF Owned
<1> QED
  BY <1>0, <1>1, <1>2 DEF RowsStay

(* A token on its way is out of everybody else's reach until it arrives.   *)
LEMMA FreshStep ==
  ASSUME HolderInv, [Next]_sessionVars, NEW d \in Calls
  PROVE  Fresh(d)'
<1>0. /\ SessionsInv /\ call \in [Calls -> CallRow] /\ \A c \in Calls : Fresh(c)
      /\ NoToken \notin Tokens
  BY SessionsAssumption DEF HolderInv, SessionsInv, Shape
<1>1. ASSUME \A c \in Calls : /\ call'[c].issued \in {NoToken, call[c].issued}
                              /\ call'[c].token \in {NoToken, call[c].token, jar.refresh},
             jar'.refresh \in {NoToken, jar.refresh}
      PROVE  Fresh(d)'
  BY <1>0, <1>1 DEF Fresh
<1>2. ASSUME NEW c \in Calls, NEW r, call' = [call EXCEPT ![c] = r],
             r.issued \in {NoToken, call[c].issued},
             r.token \in {NoToken, call[c].token, jar.refresh},
             jar'.refresh \in {NoToken, jar.refresh}
      PROVE  Fresh(d)'
  <2>1. call'[c] = r /\ \A e \in Calls \ {c} : call'[e] = call[e]
    BY <1>0, <1>2
  <2> QED
    BY <1>1, <1>2, <2>1
<1>3. ASSUME UNCHANGED call, jar'.refresh \in {NoToken, jar.refresh}
      PROVE  Fresh(d)'
  BY <1>1, <1>3
<1>4. ASSUME NEW c \in Calls, End(c), jar'.refresh \in {NoToken, jar.refresh}
      PROVE  Fresh(d)'
  BY <1>2, <1>4 DEF End, Idle
<1>5. ASSUME NEW c \in Calls, Api(c) \/ Me(c) \/ Logout(c)
      PROVE  Fresh(d)'
  <2>1. PICK k \in Kind, auth \in BOOLEAN : Start(c, k, auth)
    BY <1>5 DEF Api, Me, Logout, Kind
  <2> DEFINE r == [Idle EXCEPT !.pc = "send", !.kind = k, !.retry = ~auth]
  <2>2. call' = [call EXCEPT ![c] = r] /\ jar' = jar /\ r.token = NoToken /\ r.issued = NoToken
    BY <2>1 DEF Start, Idle
  <2> HIDE DEF r
  <2> QED
    BY <1>2, <2>2
<1>6. ASSUME NEW c \in Calls, NEW u \in Users, Login(c, u) \/ Register(c, u)
      PROVE  Fresh(d)'
  <2>1. PICK pc \in {"user", "create"} :
          /\ call' = [call EXCEPT ![c] = [Idle EXCEPT !.pc = pc, !.kind = "login", !.user = u]]
          /\ jar' = jar
    BY <1>6 DEF Login, Register
  <2> DEFINE r == [Idle EXCEPT !.pc = pc, !.kind = "login", !.user = u]
  <2>2. call' = [call EXCEPT ![c] = r] /\ r.token = NoToken /\ r.issued = NoToken
    BY <2>1 DEF Idle
  <2> HIDE DEF r
  <2> QED
    BY <1>2, <2>1, <2>2
<1>7. ASSUME NEW c \in Calls, NEW pc \in Pc, Goto(c, pc), jar' = jar
      PROVE  Fresh(d)'
  <2> DEFINE r == [call[c] EXCEPT !.pc = pc]
  <2>1. call' = [call EXCEPT ![c] = r] /\ r.token = call[c].token /\ r.issued = call[c].issued
    BY <1>0, <1>7 DEF Goto, CallRow
  <2> HIDE DEF r
  <2> QED
    BY <1>2, <1>7, <2>1
<1>8. ASSUME NEW c \in Calls, Accepted(c) \/ Unauthorized(c) \/ SendRefresh(c) \/ FindToken(c)
      PROVE  Fresh(d)'
  <2>0. jar' = jar
    BY <1>8 DEF Accepted, Unauthorized, SendRefresh, FindToken
  <2>1. CASE ~End(c)
    <3>1. /\ call'[c].issued = call[c].issued /\ call'[c].token \in {call[c].token, jar.refresh}
          /\ \A e \in Calls \ {c} : call'[e] = call[e]
      BY <1>0, <1>8, <2>1 DEF Accepted, Unauthorized, SendRefresh, FindToken, CallRow
    <3> QED
      BY <1>1, <2>0, <3>1
  <2> QED
    BY <2>0, <2>1, <1>4
<1>9. ASSUME NEW c \in Calls, RevokeToken(c) \/ ReadUser(c) \/ CreateUser(c) \/ RevokeAll(c)
      PROVE  Fresh(d)'
  <2>1. jar' = jar /\ (End(c) \/ \E pc \in Pc : Goto(c, pc))
    BY <1>9 DEF RevokeToken, ReadUser, CreateUser, RevokeAll, Pc
  <2> QED
    BY <2>1, <1>4, <1>7
<1>10. ASSUME NEW c \in Calls, Issue(c)
       PROVE  Fresh(d)'
  <2> DEFINE n == CHOOSE x \in Tokens : x \notin Known
             r == [call[c] EXCEPT !.pc = "deliver", !.issued = n]
  <2>1. n \in Tokens /\ n \notin Known
    BY <1>10 DEF Issue
  <2>2. call' = [call EXCEPT ![c] = r] /\ jar' = jar
    BY <1>10 DEF Issue
  <2>3. r.issued = n /\ r.token = call[c].token
    BY <1>0 DEF CallRow
  <2> HIDE DEF n, r
  <2>4. /\ call'[c].issued = n /\ call'[c].token = call[c].token
        /\ \A e \in Calls \ {c} : call'[e] = call[e]
    BY <1>0, <2>2, <2>3
  <2>5. n # jar.refresh /\ \A e \in Calls : n # call[e].token /\ n # call[e].issued
    BY <2>1, KnownFacts
  <2>6. CASE d = c
    BY <2>2, <2>4, <2>5, <2>6 DEF Fresh
  <2>7. CASE d # c
    BY <1>0, <2>2, <2>4, <2>5, <2>7 DEF Fresh
  <2> QED
    BY <2>6, <2>7
<1>11. ASSUME NEW c \in Calls, Deliver(c)
       PROVE  Fresh(d)'
  <2>1. jar'.refresh = call[c].issued
    BY <1>11 DEF Deliver
  <2>2. call'[c].issued = NoToken /\ call'[c].token = NoToken
        /\ \A e \in Calls \ {c} : call'[e] = call[e]
    <3> DEFINE r == [Idle EXCEPT !.pc = "send", !.retry = call[c].retry]
    <3>1. /\ r.issued = NoToken /\ r.token = NoToken
          /\ Idle.issued = NoToken /\ Idle.token = NoToken
      BY DEF Idle
    <3>2. call' = [call EXCEPT ![c] = r] \/ call' = [call EXCEPT ![c] = Idle]
      BY <1>11 DEF Deliver, End
    <3> HIDE DEF r
    <3> QED
      BY <1>0, <3>1, <3>2
  <2>3. CASE d = c
    BY <2>2, <2>3 DEF Fresh
  <2>4. CASE d # c
    <3> SUFFICES ASSUME call[d].issued # NoToken
                 PROVE  /\ call[d].issued # jar'.refresh
                        /\ \A e \in Calls : /\ call[d].issued # call'[e].token
                                            /\ e # d => call[d].issued # call'[e].issued
      BY <2>2, <2>4 DEF Fresh
    <3> QED
      BY <1>0, <2>1, <2>2, <2>4 DEF Fresh
  <2> QED
    BY <2>3, <2>4
<1>12. ASSUME NEW c \in Calls, ClearCookies(c) \/ Fail(c)
       PROVE  Fresh(d)'
  BY <1>4, <1>12 DEF ClearCookies, Fail, NoCookies
<1>13. CASE ExpireAccess \/ (\E t \in Tokens : ExpireRefresh(t)) \/ (\E u \in Users : Administer(u))
              \/ UNCHANGED sessionVars
  <2>1. UNCHANGED call /\ jar'.refresh \in {NoToken, jar.refresh}
    <3>0. jar \in [access : Users \cup {NoUser}, refresh : Tokens \cup {NoToken}]
      BY <1>0 DEF SessionsInv, Shape
    <3>1. CASE ExpireAccess
      BY <3>0, <3>1 DEF ExpireAccess
    <3>2. CASE \E t \in Tokens : ExpireRefresh(t)
      BY <3>0, <3>2 DEF ExpireRefresh
    <3>3. CASE (\E u \in Users : Administer(u)) \/ UNCHANGED sessionVars
      BY <3>3 DEF Administer, AddUser, UpdateUser, sessionVars
    <3> QED
      BY <1>13, <3>1, <3>2, <3>3
  <2> QED
    BY <2>1, <1>3
<1> QED
  BY <1>5, <1>6, <1>8, <1>9, <1>10, <1>11, <1>12, <1>13 DEF Next, Step

LEMMA HolderStep == HolderInv /\ [Next]_sessionVars => HolderInv'
<1> SUFFICES ASSUME HolderInv, [Next]_sessionVars PROVE HolderInv'
  OBVIOUS
<1>1. SessionsInv'
  BY SessionsStep DEF HolderInv
<1> QED
  BY <1>1, LiveOwnersStep, OwnedStep, FreshStep DEF HolderInv

LEMMA HolderInitially == Init => HolderInv
<1> SUFFICES ASSUME Init PROVE HolderInv
  OBVIOUS
<1>1. /\ \A t \in Tokens : tokens[t] = NoRow
      /\ \A c \in Calls : call[c] = Idle
  BY DEF Init
<1>2. \A c \in Calls : Owned(c) /\ Fresh(c)
  BY <1>1 DEF Owned, Fresh, Idle, Exchanging
<1>3. LiveOwners
  BY <1>1, RowFacts DEF LiveOwners
<1> QED
  BY <1>2, <1>3, SessionsInitially DEF HolderInv

--------------------------------------------------------------------------------
(***************************************************************************)
(* The refresh token in the jar.                                           *)
(***************************************************************************)
Spending == {"user", "issue", "deliver"}

(* A step that revokes nothing, puts no other token into the jar, lets no  *)
(* exchange go that spends the one there, ends no logout that is about to  *)
(* clear it, and sends no answer.                                          *)
LEMMA JarKept ==
  ASSUME SessionsInv, JarWorks,
         \A t \in Tokens : t \in Known' /\ tokens'[t].state = "revoked" =>
                             tokens[t].state = "revoked",
         jar'.refresh \in {NoToken, jar.refresh},
         \A c \in Calls :
           /\ call[c].pc \in Spending /\ call[c].token = jar.refresh /\ jar.refresh # NoToken =>
                call'[c].pc \in Spending /\ call'[c].token = call[c].token
           /\ call[c].pc = "clear" => call'[c].pc = "clear"
           /\ call'[c].pc = "deliver" => call[c].pc = "deliver" /\ call'[c].issued = call[c].issued
  PROVE  JarWorks'
<1>1. ASSUME jar'.refresh # NoToken
      PROVE  \/ tokens'[jar'.refresh].state # "revoked"
             \/ \E c \in Calls : \/ call'[c].pc \in Spending /\ call'[c].token = jar'.refresh
                                 \/ call'[c].pc = "clear"
  <2>1. jar'.refresh = jar.refresh /\ jar.refresh \in Tokens /\ jar'.refresh \in Known'
    BY <1>1, KnownNext DEF SessionsInv, Shape
  <2>2. CASE tokens[jar.refresh].state # "revoked"
    BY <2>1, <2>2
  <2>3. ASSUME NEW c \in Calls,
               \/ call[c].pc \in Spending /\ call[c].token = jar.refresh
               \/ call[c].pc = "clear"
        PROVE  \/ call'[c].pc \in Spending /\ call'[c].token = jar'.refresh
               \/ call'[c].pc = "clear"
    BY <1>1, <2>1, <2>3
  <2> QED
    BY <1>1, <2>1, <2>2, <2>3 DEF JarWorks, Spending
<1>2. ASSUME NEW c \in Calls, call'[c].pc = "deliver"
      PROVE  tokens'[call'[c].issued].state # "revoked"
  <2>1. call[c].pc = "deliver" /\ call'[c].issued = call[c].issued
    BY <1>2
  <2>2. call'[c].issued \in Tokens /\ call'[c].issued \in Known'
    BY <2>1, CallFacts, KnownNext DEF CallOK
  <2> QED
    BY <2>1, <2>2 DEF JarWorks
<1> QED
  BY <1>1, <1>2 DEF JarWorks, Spending

(* A step of one call before its exchange has begun, or outside of any.    *)
LEMMA JarKeptBy ==
  ASSUME SessionsInv, JarWorks, NEW c \in Calls,
         KeepKnown \/ tokens' = tokens, jar' = jar,
         call[c].pc \notin Spending, call[c].pc # "clear", call'[c].pc # "deliver",
         \A d \in Calls \ {c} : call'[d] = call[d]
  PROVE  JarWorks'
<1>1. \A t \in Tokens : t \in Known' /\ tokens'[t].state = "revoked" => tokens[t].state = "revoked"
  BY Kept DEF SessionsInv
<1> QED
  BY <1>1, JarKept

LEMMA JarStep ==
  ASSUME HolderInv, [Next]_sessionVars, JarWorks,
         \A c \in Calls : ~Fault(c) /\ ~HalfLogout(c)
  PROVE  JarWorks' \/ Deactivated'
<1>0. /\ SessionsInv /\ call \in [Calls -> CallRow]
      /\ \A c \in Calls : /\ Owned(c) /\ Fresh(c) /\ CallOK(call[c]) /\ call[c] \in CallRow
                          /\ call[c].token \in Known /\ call[c].issued \in Known
      /\ jar.refresh \in Known /\ jar.refresh \in Tokens \cup {NoToken}
      /\ users \in [Users -> UserState] /\ NoToken \notin Tokens
  <2>1. SessionsInv /\ \A c \in Calls : Owned(c) /\ Fresh(c)
    BY DEF HolderInv
  <2>2. call \in [Calls -> CallRow] /\ users \in [Users -> UserState]
        /\ jar.refresh \in Known /\ jar.refresh \in Tokens \cup {NoToken}
    BY <2>1, KnownFacts DEF SessionsInv, Shape
  <2> QED
    BY <2>1, <2>2, CallFacts, SessionsAssumption
<1>1. ASSUME NEW c \in Calls,
             Accepted(c) \/ Unauthorized(c) \/ SendRefresh(c) \/ FindToken(c) \/ CreateUser(c)
      PROVE  JarWorks'
  <2>1. /\ KeepKnown \/ tokens' = tokens
        /\ jar' = jar /\ call[c].pc \notin Spending /\ call[c].pc # "clear"
    BY <1>1
    DEF Accepted, Unauthorized, SendRefresh, FindToken, CreateUser, Spending
  <2>2. call'[c].pc # "deliver"
    <3>1. CASE End(c)
      BY <1>0, <3>1 DEF End, Idle
    <3>2. CASE ~End(c)
      BY <1>0, <1>1, <3>2
      DEF Accepted, Unauthorized, SendRefresh, FindToken, CreateUser, Goto, CallRow
    <3> QED
      BY <3>1, <3>2
  <2>3. \A d \in Calls \ {c} : call'[d] = call[d]
    BY <1>0, <1>1 DEF Accepted, Unauthorized, SendRefresh, FindToken, CreateUser, Goto, End
  <2> QED
    BY <1>0, <2>1, <2>2, <2>3, JarKeptBy
<1>2. ASSUME NEW c \in Calls,
             Api(c) \/ Me(c) \/ Logout(c) \/ \E u \in Users : Login(c, u) \/ Register(c, u)
      PROVE  JarWorks'
  <2>1. call[c] = Idle /\ UNCHANGED <<tokens, jar>>
    BY <1>2 DEF Api, Me, Logout, Start, Login, Register
  <2>2. call'[c].pc # "deliver"
    <3>1. ASSUME NEW k \in Kind, NEW auth \in BOOLEAN, Start(c, k, auth)
          PROVE  call'[c].pc # "deliver"
      <4>1. call'[c] = [Idle EXCEPT !.pc = "send", !.kind = k, !.retry = ~auth]
        BY <1>0, <3>1 DEF Start
      <4> QED
        BY <4>1 DEF Idle
    <3>2. ASSUME NEW u \in Users, Login(c, u) \/ Register(c, u)
          PROVE  call'[c].pc # "deliver"
      <4>1. PICK pc \in {"user", "create"} :
              call'[c] = [Idle EXCEPT !.pc = pc, !.kind = "login", !.user = u]
        BY <1>0, <3>2 DEF Login, Register
      <4> QED
        BY <4>1 DEF Idle
    <3> QED
      BY <1>2, <3>1, <3>2 DEF Api, Me, Logout, Kind
  <2>3. \A d \in Calls \ {c} : call'[d] = call[d]
    BY <1>0, <1>2 DEF Api, Me, Logout, Start, Login, Register
  <2> QED
    BY <1>0, <2>1, <2>2, <2>3, JarKeptBy DEF Idle, Spending
<1>3. ASSUME NEW c \in Calls, RevokeToken(c)
      PROVE  JarWorks'
  <2> DEFINE t == call[c].token
  <2>1. /\ t \in Tokens /\ t # NoToken /\ tokens' = Revoked({t}) /\ jar' = jar
        /\ call[c].pc = "revoke" /\ call' = [call EXCEPT ![c].pc = "user"]
    BY <1>0, <1>3 DEF RevokeToken, Goto, CallOK, CallRow
  <2>2. \A s \in Tokens \ {t} : tokens'[s] = tokens[s]
    BY <2>1 DEF Revoked
  <2>3. /\ call'[c].pc = "user" /\ call'[c].token = t
        /\ \A d \in Calls \ {c} : call'[d] = call[d]
    BY <1>0, <2>1 DEF CallRow
  <2>4. ASSUME NEW d \in Calls, call'[d].pc = "deliver"
        PROVE  tokens'[call'[d].issued].state # "revoked"
    <3>1. d # c /\ call'[d] = call[d]
      BY <2>3, <2>4
    <3>2. call[d].issued \in Tokens /\ call[d].issued # t
      BY <1>0, <2>4, <3>1 DEF CallOK, Fresh
    <3> QED
      BY <2>2, <2>4, <3>1, <3>2 DEF JarWorks
  <2>5. CASE jar.refresh \in {t, NoToken}
    BY <2>1, <2>3, <2>4, <2>5 DEF JarWorks
  <2>6. CASE jar.refresh \notin {t, NoToken}
    <3>1. tokens'[jar.refresh] = tokens[jar.refresh]
      BY <1>0, <2>2, <2>6
    <3>2. \A d \in Calls : call[d].pc \in Spending \cup {"clear"} => call'[d] = call[d]
      BY <2>1, <2>3 DEF Spending
    <3>3. \/ tokens[jar.refresh].state # "revoked"
          \/ \E d \in Calls : \/ call[d].pc \in Spending /\ call[d].token = jar.refresh
                              \/ call[d].pc = "clear"
      BY <2>6 DEF JarWorks, Spending
    <3> QED
      BY <2>1, <2>4, <3>1, <3>2, <3>3 DEF JarWorks, Spending
  <2> QED
    BY <2>5, <2>6
<1>4. ASSUME NEW c \in Calls, ReadUser(c)
      PROVE  JarWorks' \/ Deactivated'
  <2>1. /\ call[c].pc = "user" /\ users' = users /\ jar' = jar /\ KeepKnown
        /\ \A s \in Tokens : s \in Known' => tokens'[s] = tokens[s]
    BY <1>0, <1>4, Kept DEF ReadUser, SessionsInv
  <2>2. CASE Goto(c, "issue")
    <3>1. /\ call'[c].pc = "issue" /\ call'[c].token = call[c].token
          /\ \A d \in Calls \ {c} : call'[d] = call[d]
      BY <1>0, <2>2 DEF Goto, CallRow
    <3>2. "issue" \in Spending
      BY DEF Spending
    <3> QED
      BY <1>0, <2>1, <3>1, <3>2, JarKept
  <2>3. CASE End(c) /\ users[call[c].user] # "active"
    <3>1. call'[c] = Idle /\ \A d \in Calls \ {c} : call'[d] = call[d]
      BY <1>0, <2>3 DEF End
    <3>2. CASE call[c].token = jar.refresh /\ jar.refresh # NoToken
      <4>1. tokens[jar.refresh].owner = call[c].user /\ users[call[c].user] # "absent"
        BY <1>0, <2>1, <3>2 DEF Owned, Exchanging
      <4>2. users[call[c].user] = "inactive"
        BY <1>0, <2>1, <2>3, <4>1 DEF CallOK, UserState
      <4>3. tokens'[jar.refresh] = tokens[jar.refresh]
        BY <1>0, <2>1, <3>2, KnownNext
      <4> QED
        BY <2>1, <3>2, <4>1, <4>2, <4>3 DEF Deactivated
    <3>3. CASE ~(call[c].token = jar.refresh /\ jar.refresh # NoToken)
      <4>1. call'[c].pc # "deliver"
        BY <3>1 DEF Idle
      <4> QED
        BY <1>0, <2>1, <3>1, <3>3, <4>1, JarKept
    <3> QED
      BY <3>2, <3>3
  <2> QED
    BY <1>4, <2>2, <2>3 DEF ReadUser
<1>5. ASSUME NEW c \in Calls, Issue(c)
      PROVE  JarWorks'
  <2> DEFINE n == CHOOSE x \in Tokens : x \notin Known
             row == [state |-> "live", owner |-> call[c].user]
             r == [call[c] EXCEPT !.pc = "deliver", !.issued = n]
  <2>1. n \in Tokens /\ n \notin Known /\ row.state = "live"
    BY <1>5 DEF Issue
  <2>2. /\ call[c].pc = "issue" /\ call' = [call EXCEPT ![c] = r] /\ jar' = jar
        /\ \A s \in Tokens : tokens'[s] = IF s = n THEN row ELSE tokens[s]
    BY <1>5 DEF Issue
  <2>3. r.pc = "deliver" /\ r.issued = n /\ r.token = call[c].token
    BY <1>0 DEF CallRow
  <2> HIDE DEF n, row, r
  <2>4. call'[c] = r /\ \A d \in Calls \ {c} : call'[d] = call[d]
    BY <1>0, <2>2
  <2>5. ASSUME NEW d \in Calls, call'[d].pc = "deliver"
        PROVE  tokens'[call'[d].issued].state # "revoked"
    <3>1. CASE d = c
      BY <2>1, <2>2, <2>3, <2>4, <3>1
    <3>2. CASE d # c
      <4>1. call'[d] = call[d] /\ call[d].issued \in Tokens /\ call[d].issued # n
        BY <1>0, <2>1, <2>4, <2>5, <3>2 DEF CallOK
      <4> QED
        BY <2>2, <2>5, <4>1 DEF JarWorks
    <3> QED
      BY <3>1, <3>2
  <2>6. ASSUME jar.refresh # NoToken
        PROVE  \/ tokens'[jar.refresh].state # "revoked"
               \/ \E d \in Calls : \/ call'[d].pc \in Spending /\ call'[d].token = jar.refresh
                                   \/ call'[d].pc = "clear"
    <3>1. tokens'[jar.refresh] = tokens[jar.refresh]
      BY <1>0, <2>1, <2>2, <2>6
    <3>2. \/ tokens[jar.refresh].state # "revoked"
          \/ \E d \in Calls : \/ call[d].pc \in Spending /\ call[d].token = jar.refresh
                              \/ call[d].pc = "clear"
      BY <2>6 DEF JarWorks, Spending
    <3>3. \A d \in Calls :
            /\ call[d].pc \in Spending =>
                 call'[d].pc \in Spending /\ call'[d].token = call[d].token
            /\ call[d].pc = "clear" => call'[d].pc = "clear"
      BY <2>2, <2>3, <2>4 DEF Spending
    <3> QED
      BY <3>1, <3>2, <3>3
  <2> QED
    BY <2>2, <2>5, <2>6 DEF JarWorks, Spending
<1>6. ASSUME NEW c \in Calls, Deliver(c)
      PROVE  JarWorks'
  <2>1. /\ call[c].pc = "deliver" /\ jar'.refresh = call[c].issued
        /\ \A s \in Tokens : s \in Known' => tokens'[s] = tokens[s]
    BY <1>0, <1>6, Kept DEF Deliver, SessionsInv
  <2>2. call'[c].pc # "deliver" /\ \A d \in Calls \ {c} : call'[d] = call[d]
    <3> DEFINE r == [Idle EXCEPT !.pc = "send", !.retry = call[c].retry]
    <3>1. r.pc # "deliver" /\ Idle.pc # "deliver"
      BY DEF Idle
    <3>2. call' = [call EXCEPT ![c] = r] \/ call' = [call EXCEPT ![c] = Idle]
      BY <1>6 DEF Deliver, End
    <3> HIDE DEF r
    <3> QED
      BY <1>0, <3>1, <3>2
  <2>3. tokens'[jar'.refresh].state # "revoked"
    <3>1. jar'.refresh \in Tokens /\ jar'.refresh \in Known'
      BY <1>0, <2>1, KnownNext DEF CallOK
    <3> QED
      BY <2>1, <3>1 DEF JarWorks
  <2>4. ASSUME NEW d \in Calls, call'[d].pc = "deliver"
        PROVE  tokens'[call'[d].issued].state # "revoked"
    <3>1. call'[d] = call[d]
      BY <2>2, <2>4
    <3>2. call[d].issued \in Tokens /\ call[d].issued \in Known'
      BY <1>0, <2>4, <3>1, KnownNext DEF CallOK
    <3> QED
      BY <2>1, <2>4, <3>1, <3>2 DEF JarWorks
  <2> QED
    BY <2>3, <2>4 DEF JarWorks
<1>7. ASSUME NEW c \in Calls, RevokeAll(c)
      PROVE  JarWorks'
  <2>1. \A d \in Calls : call[d].pc # "deliver"
    BY <1>7 DEF HalfLogout
  <2>2. call'[c].pc = "clear" /\ \A d \in Calls \ {c} : call'[d] = call[d]
    BY <1>0, <1>7 DEF RevokeAll, Goto, CallRow
  <2> QED
    BY <2>1, <2>2 DEF JarWorks
<1>10. ASSUME NEW c \in Calls, ClearCookies(c)
       PROVE  JarWorks'
  <2>1. jar'.refresh = NoToken
    BY <1>10 DEF HalfLogout, NoCookies
  <2>2. call'[c].pc # "deliver" /\ \A d \in Calls \ {c} : call'[d] = call[d]
    BY <1>0, <1>10 DEF ClearCookies, End, Idle
  <2>3. ASSUME NEW d \in Calls, call'[d].pc = "deliver"
        PROVE  tokens'[call'[d].issued].state # "revoked"
    <3>1. call'[d] = call[d]
      BY <2>2, <2>3
    <3>2. call[d].issued \in Tokens /\ call[d].issued \in Known'
      BY <1>0, <2>3, <3>1, KnownNext DEF CallOK
    <3>3. \A s \in Tokens : s \in Known' => tokens'[s] = tokens[s]
      BY <1>0, <1>10, Kept DEF ClearCookies, SessionsInv
    <3> QED
      BY <2>3, <3>1, <3>2, <3>3 DEF JarWorks
  <2> QED
    BY <2>1, <2>3 DEF JarWorks
<1>8. CASE ExpireAccess \/ (\E u \in Users : Administer(u)) \/ UNCHANGED sessionVars
  <2>1. UNCHANGED <<tokens, call>> /\ jar'.refresh = jar.refresh
    <3>1. CASE ExpireAccess
      BY <3>1 DEF ExpireAccess, SessionsInv, Shape
    <3>2. CASE (\E u \in Users : Administer(u)) \/ UNCHANGED sessionVars
      BY <3>2 DEF Administer, AddUser, UpdateUser, sessionVars
    <3> QED
      BY <1>8, <3>1, <3>2
  <2> QED
    BY <1>0, <2>1, JarKept
<1>9. ASSUME NEW t \in Tokens, ExpireRefresh(t)
      PROVE  JarWorks'
  <2>1. UNCHANGED call /\ jar'.refresh \in {NoToken, jar.refresh}
    BY <1>9 DEF ExpireRefresh, SessionsInv, Shape
  <2>2. \A s \in Tokens : tokens'[s].state = "revoked" => tokens[s].state = "revoked"
    <3> DEFINE held == \E c \in Calls : t \in {call[c].token, call[c].issued}
               old == [tokens[t] EXCEPT !.state = "expired"]
    <3>1. /\ old.state = "expired"
          /\ \A s \in Tokens : tokens'[s] = IF s = t THEN IF held THEN old ELSE NoRow ELSE tokens[s]
      BY <1>0, <1>9 DEF ExpireRefresh, SessionsInv, Shape, TokensOK, TokenRow
    <3> HIDE DEF old, held
    <3> QED
      BY <3>1, RowFacts
  <2> QED
    BY <1>0, <2>1, <2>2, JarKept
<1>11. ASSUME NEW c \in Calls, Fail(c)
       PROVE  Step(c)
  BY <1>11 DEF Fault
<1> QED
  BY <1>1, <1>2, <1>3, <1>4, <1>5, <1>6, <1>7, <1>8, <1>9, <1>10, <1>11 DEF Next, Step

(* A browser is left with a refresh token that TokensService has revoked   *)
(* by an error, half a logout or a deactivation only: no interleaving of   *)
(* the tabs, the exchanges and the administrators does it, as the answer   *)
(* that brings the successor is always still under way.                    *)
THEOREM SignOutCorrect == Spec => OnlyFaultsSignOut
<1>1. HolderInv /\ [Next]_sessionVars =>
        [(\A c \in Calls : ~Fault(c) /\ ~HalfLogout(c)) =>
           (JarWorks => JarWorks' \/ Deactivated')]_sessionVars
  BY JarStep
<1> QED
  BY <1>1, HolderInitially, HolderStep, PTL DEF Spec, OnlyFaultsSignOut
================================================================================
