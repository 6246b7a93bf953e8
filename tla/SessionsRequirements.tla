-------------------------- MODULE SessionsRequirements --------------------------
(***************************************************************************)
(* What must hold of Sessions, under any interleaving.                     *)
(***************************************************************************)
EXTENDS Sessions

(* The shape of the tables, of the cookies and of a call in flight, which  *)
(* looks for a token only if it has one; what the browser or a call holds  *)
(* has a row.                                                              *)
SessionsTypeOK ==
  /\ users \in [Users -> UserState]
  /\ tokens \in [Tokens -> TokenRow]
  /\ jar \in [access : Users \cup {NoUser}, refresh : Tokens \cup {NoToken}]
  /\ call \in [Calls -> [pc : Pc, kind : Kind, retry : BOOLEAN, user : Users \cup {NoUser},
                         token : Tokens \cup {NoToken}, issued : Tokens \cup {NoToken}]]
  /\ \A c \in Calls : call[c].pc \in {"find", "revoke"} => call[c].token # NoToken
  /\ \A t \in Known \ {NoToken} : tokens[t] # NoRow

(* A session that is bought with a refresh token uses the token up: when   *)
(* it is issued the token is dead, however many tabs exchange it at once   *)
(* and whatever signs the user out in between.                             *)
RefreshUsesUp ==
  [][\A c \in Calls :
       Issue(c) /\ call[c].token # NoToken =>
         tokens'[call[c].token].state = "revoked"]_sessionVars

(* The refresh token in the jar works until it expires, or its successor   *)
(* is on its way to the browser, or the cookie is about to be cleared; and *)
(* so does a token that is on its way.                                     *)
JarWorks ==
  /\ jar.refresh # NoToken =>
       \/ tokens[jar.refresh].state # "revoked"
       \/ \E c \in Calls :
            \/ call[c].pc \in {"user", "issue", "deliver"} /\ call[c].token = jar.refresh
            \/ call[c].pc = "clear"
  /\ \A c \in Calls : call[c].pc = "deliver" => tokens[call[c].issued].state # "revoked"

Deactivated == jar.refresh # NoToken /\ users[tokens[jar.refresh].owner] = "inactive"

(* A call that ends without one of its own steps ending it. *)
Fault(c) == Fail(c) /\ ~Step(c)

(* A logout that revokes a token which is on its way to the browser, or    *)
(* one whose response leaves the cookies where they are.                   *)
HalfLogout(c) ==
  \/ RevokeAll(c) /\ \E d \in Calls : call[d].pc = "deliver"
  \/ ClearCookies(c) /\ jar' # NoCookies

(* The browser is left with a refresh token that does not work only by an  *)
(* error or a lost response, by a logout of one of these two kinds, or     *)
(* because the user is inactive: neither any other step of a logout, nor   *)
(* tabs that exchange one token at once, nor a refusal does it.            *)
OnlyFaultsSignOut ==
  [][(\A c \in Calls : ~Fault(c) /\ ~HalfLogout(c)) =>
       (JarWorks => JarWorks' \/ Deactivated')]_sessionVars

--------------------------------------------------------------------------------
(* Liveness.  The API and the network run every call on to an answer or an *)
(* error; an access token expires.  Nothing makes a person act.            *)
Fairness ==
  /\ \A c \in Calls : WF_sessionVars(Step(c))
  /\ WF_sessionVars(ExpireAccess)

LiveSpec == Spec /\ Fairness

(* Every call of a tab ends, also when the access token expires again and  *)
(* again under it: the refresh behind a 401 is tried once.                 *)
CallsEnd == \A c \in Calls : call[c].pc # "idle" ~> call[c].pc = "idle"

(* A user who stays deactivated ends up without access, although an access *)
(* token is never checked against the user and a refresh may have been     *)
(* under way: every way to a new one reads the user first.                 *)
DeactivationTakesEffect ==
  \A u \in Users : <>[](users[u] = "inactive") => <>[](jar.access # u)
================================================================================
