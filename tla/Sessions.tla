------------------------------ MODULE Sessions ------------------------------
(***************************************************************************)
(* Signing in and staying signed in: AuthService and the SessionStore's    *)
(* rotating refresh tokens on one side, a browser whose tabs share one     *)
(* refresh cookie on the other.  A token is its jti; a family is named by  *)
(* the token its login minted.  The account (users.status and the role) is *)
(* changed by administration outside the code.                             *)
(*                                                                         *)
(* Clocks are left out: access tokens may be refused at any moment, which  *)
(* is when a tab refreshes, and a key of the store may expire at any       *)
(* moment the commands that renew its TTL allow.                           *)
(***************************************************************************)
EXTENDS Integers, Sequences, FiniteSets

CONSTANTS
  Users, Tabs,
  Calls,       \* requests in flight at once
  MaxTokens,   \* bound: refresh tokens ever minted
  MaxFaults,   \* bound: answers lost, requests failed and keys expired
  Nobody

ASSUME SessionsAssumption ==
  /\ MaxTokens \in Nat /\ MaxFaults \in Nat
  /\ Nobody \notin Users

VARIABLES
  account,   \* status and role of each user
  minted,    \* the refresh tokens signed so far: user, family, the one spent
  live,      \* rt:<user>:<family> -> the family's one live token
  index,     \* rt:families:<user>
  cookie,    \* the refresh cookie all tabs share
  tab,       \* who each tab is signed in as
  call,      \* the requests in flight, each at the step the server reached
  faults,    \* answers lost, requests failed and keys expired so far
  strained,  \* history: two tabs' refreshes overlapped, or a new token was lost
  tripped,   \* history: reuse was detected
  unlisted   \* history: families whose login overtook a revocation, or that
             \*          outlived their user's list

server == <<minted, live, index, unlisted>>
browser == <<cookie, tab>>
vars == <<account, server, browser, call, faults, strained, tripped>>

Role      == {"MANAGER", "FRONT_DESK"}
Tokens    == 1 .. MaxTokens
NoToken   == 0
Idle      == [kind |-> "none"]
NoRole    == "none"
InFlight(c) == call[c] # Idle

FamilyOf(k) == minted[k].fam
FamiliesOf(u) == {f \in index : minted[f].user = u}

Step(c, phase) == call' = [call EXCEPT ![c].phase = phase]
At(c, kind, phase) == call[c] # Idle /\ call[c].kind = kind /\ call[c].phase = phase

-----------------------------------------------------------------------------
(* The browser asks.                                                       *)

Send(c, kind, t, u, k) ==
  /\ call[c] = Idle
  /\ call' = [call EXCEPT ![c] =
       [kind |-> kind, tab |-> t, phase |-> "sent", user |-> u, token |-> k,
        boot |-> tab[t] = Nobody, role |-> NoRole, since |-> {}, families |-> {}]]

Refreshing(c) == InFlight(c) /\ call[c].kind = "refresh"

\* Mutant: every refused query starts a refresh of its own.
RefreshEach(t) == TRUE

\* refreshOnce: one refresh at a time, in this tab.
RefreshOnce(t) == \A c \in Calls : Refreshing(c) => call[c].tab # t

\* On boot, or after a query came back UNAUTHENTICATED.
RefreshAccessToken(c, t) ==
  /\ RefreshOnce(t)
  /\ Send(c, "refresh", t, Nobody, cookie)
  /\ strained' = (strained \/ \E d \in Calls : Refreshing(d) /\ call[d].tab # t)
  /\ UNCHANGED <<account, server, browser, faults, tripped>>

Login(c, t, u) ==
  /\ tab[t] = Nobody
  /\ Send(c, "login", t, u, NoToken)
  /\ UNCHANGED <<account, server, browser, faults, strained, tripped>>

Logout(c, t) ==
  /\ tab[t] # Nobody
  /\ Send(c, "logout", t, Nobody, cookie)
  /\ UNCHANGED <<account, server, browser, faults, strained, tripped>>

-----------------------------------------------------------------------------
(* The session store: each of these is one script or MULTI in Valkey.      *)

Mint(u, fam, parent) ==
  /\ Len(minted) < MaxTokens
  /\ minted' = Append(minted, [user |-> u, fam |-> fam, parent |-> parent])

NextToken == Len(minted) + 1

RevokeFamily(f) ==
  /\ live' = [live EXCEPT ![f] = NoToken]
  /\ index' = index \ {f}
  /\ UNCHANGED <<minted, unlisted>>

\* Mutant: the script compares nothing.
RotatesAnything(k) ==
  IF k = NoToken \/ live[FamilyOf(k)] = NoToken THEN "unknown" ELSE "rotated"

\* What a refresh with this cookie comes to: without one the signature check
\* refuses it, otherwise the rotate script answers.
RotateOutcome(k) ==
  CASE k = NoToken \/ live[FamilyOf(k)] = NoToken -> "unknown"
    [] k # NoToken /\ live[FamilyOf(k)] \notin {NoToken, k} -> "reuse"
    [] OTHER -> "rotated"

Account(u) == [active |-> account[u].active, role |-> account[u].role]

\* No cookie, or one whose family is gone.
RefreshUnknown(c) ==
  /\ At(c, "refresh", "sent")
  /\ RotateOutcome(call[c].token) = "unknown"
  /\ Step(c, "refused")
  /\ UNCHANGED <<account, server, browser, faults, strained, tripped>>

RefreshReused(c) ==
  /\ At(c, "refresh", "sent")
  /\ RotateOutcome(call[c].token) = "reuse"
  /\ Step(c, "reused")
  /\ tripped' = TRUE
  /\ UNCHANGED <<account, server, browser, faults, strained>>

RevokeReused(c) ==
  /\ At(c, "refresh", "reused")
  /\ RevokeFamily(FamilyOf(call[c].token))
  /\ Step(c, "refused")
  /\ UNCHANGED <<account, browser, faults, strained, tripped>>

\* Mutant: the new token is stored under its own jti instead of its family.
RotateByJti(c) ==
  /\ At(c, "refresh", "sent")
  /\ RotateOutcome(call[c].token) = "rotated"
  /\ LET k == call[c].token
         u == minted[k].user
     IN /\ Mint(u, FamilyOf(k), k)
        /\ live' = [live EXCEPT ![NextToken] = NextToken]
        /\ call' = [call EXCEPT ![c].phase = "rotated", ![c].user = u,
                                ![c].token = NextToken, ![c].since = {Account(u)}]
  /\ UNCHANGED <<account, index, unlisted, browser, faults, strained, tripped>>

\* The new token is the live one before anything is known of the account.
Rotate(c) ==
  /\ At(c, "refresh", "sent")
  /\ RotateOutcome(call[c].token) = "rotated"
  /\ LET k == call[c].token
         u == minted[k].user
     IN /\ Mint(u, FamilyOf(k), k)
        /\ live' = [live EXCEPT ![FamilyOf(k)] = NextToken]
        /\ call' = [call EXCEPT ![c].phase = "rotated", ![c].user = u,
                                ![c].token = NextToken, ![c].since = {Account(u)}]
  /\ UNCHANGED <<account, index, unlisted, browser, faults, strained, tripped>>

-----------------------------------------------------------------------------
(* What AuthService reads of the account, a query at a time.               *)

\* Mutant: only login looks at the status.
AnyStatus(u) == TRUE

MaySignIn(u) == account[u].active

RefreshChecked(c) ==
  /\ At(c, "refresh", "rotated")
  /\ MaySignIn(call[c].user)
  /\ Step(c, "checked")
  /\ UNCHANGED <<account, server, browser, faults, strained, tripped>>

\* revokeAllForUser: the list is read first; its keys and the list itself are
\* deleted after.
RevokeAllRead(c) ==
  /\ At(c, "refresh", "rotated")
  /\ ~MaySignIn(call[c].user)
  /\ call' = [call EXCEPT ![c].phase = "revoking", ![c].families = FamiliesOf(call[c].user)]
  /\ UNCHANGED <<account, server, browser, faults, strained, tripped>>

RevokingOf(u) == {c \in Calls : At(c, "refresh", "revoking") /\ call[c].user = u}

\* Mutant: only the session that was presented dies, the list goes.
RevokeAllButOthers(c) ==
  /\ At(c, "refresh", "revoking")
  /\ live' = [live EXCEPT ![FamilyOf(call[c].token)] = NoToken]
  /\ index' = index \ FamiliesOf(call[c].user)
  /\ Step(c, "refused")
  /\ UNCHANGED <<account, minted, unlisted, browser, faults, strained, tripped>>

RevokeAllCommit(c) ==
  /\ At(c, "refresh", "revoking")
  /\ live' = [f \in Tokens |-> IF f \in call[c].families THEN NoToken ELSE live[f]]
  /\ index' = IF call[c].families = {} THEN index
              ELSE index \ FamiliesOf(call[c].user)
  /\ Step(c, "refused")
  /\ UNCHANGED <<account, minted, unlisted, browser, faults, strained, tripped>>

\* The password's owner, if the account is active.
LoginChecked(c) ==
  /\ At(c, "login", "sent")
  /\ call' = [call EXCEPT ![c].phase = IF MaySignIn(call[c].user) THEN "checked" ELSE "refused",
                          ![c].since = {Account(call[c].user)}]
  /\ UNCHANGED <<account, server, browser, faults, strained, tripped>>

\* A refresh's token is live already; a login's starts its family.
LoadRoles(c) ==
  /\ InFlight(c) /\ call[c].phase = "checked"
  /\ call' = [call EXCEPT ![c].role = account[call[c].user].role,
                          ![c].phase = IF call[c].kind = "login" THEN "signing" ELSE "issued"]
  /\ UNCHANGED <<account, server, browser, faults, strained, tripped>>

StartFamily(c) ==
  /\ At(c, "login", "signing")
  /\ Mint(call[c].user, NextToken, NoToken)
  /\ live' = [live EXCEPT ![NextToken] = NextToken]
  /\ index' = index \cup {NextToken}
  /\ unlisted' = IF RevokingOf(call[c].user) = {} THEN unlisted ELSE unlisted \cup {NextToken}
  /\ call' = [call EXCEPT ![c].phase = "issued", ![c].token = NextToken]
  /\ UNCHANGED <<account, browser, faults, strained, tripped>>

LogoutRevokes(c) ==
  /\ At(c, "logout", "sent")
  /\ IF call[c].token = NoToken THEN UNCHANGED server
     ELSE RevokeFamily(FamilyOf(call[c].token))
  /\ Step(c, "done")
  /\ UNCHANGED <<account, browser, faults, strained, tripped>>

\* A query, a command of the store or the signing throws: whatever the store has
\* done stays done, and the caller gets an error (a logout hides it).
Fails(c) ==
  /\ InFlight(c)
  /\ call[c].phase \in {"sent", "reused", "rotated", "checked", "revoking", "signing"}
  /\ faults < MaxFaults
  /\ faults' = faults + 1
  /\ Step(c, IF call[c].kind = "logout" THEN "done" ELSE "refused")
  /\ strained' = (strained \/ /\ call[c].kind = "refresh"
                               /\ call[c].phase \in {"rotated", "checked"})
  /\ UNCHANGED <<account, server, browser, tripped>>

-----------------------------------------------------------------------------
(* Keys expire.  A rotation renews its family's TTL, a login its family's  *)
(* and the list's.                                                         *)

FamilyExpires(f) ==
  /\ live[f] # NoToken
  /\ faults < MaxFaults
  /\ faults' = faults + 1
  /\ live' = [live EXCEPT ![f] = NoToken]
  /\ UNCHANGED <<account, minted, index, unlisted, browser, call, strained, tripped>>

Logins(u) == {k \in 1 .. Len(minted) : minted[k].user = u /\ FamilyOf(k) = k}

\* The list goes a TTL after the user's last login, and with it the families
\* that have not been refreshed since.
IndexExpires(u) ==
  LET outlive == {f \in Tokens : /\ live[f] # NoToken /\ minted[f].user = u
                                 /\ \A k \in Logins(u) : k < live[f]}
  IN /\ FamiliesOf(u) # {}
     /\ faults < MaxFaults
     /\ faults' = faults + 1
     /\ index' = index \ FamiliesOf(u)
     /\ live' = [f \in Tokens |->
          IF live[f] # NoToken /\ minted[f].user = u /\ f \notin outlive THEN NoToken ELSE live[f]]
     /\ unlisted' = unlisted \cup outlive
     /\ UNCHANGED <<account, minted, browser, call, strained, tripped>>

-----------------------------------------------------------------------------
(* The answer arrives, or does not.                                        *)

End(c) == call' = [call EXCEPT ![c] = Idle]

\* Set-Cookie and the access token of a login or a refresh; a page that has just
\* loaded learns who its user is.
ReceiveTokens(c) ==
  /\ InFlight(c) /\ call[c].phase = "issued"
  /\ cookie' = call[c].token
  /\ tab' = IF call[c].boot THEN [tab EXCEPT ![call[c].tab] = call[c].user] ELSE tab
  /\ End(c)
  /\ UNCHANGED <<account, server, faults, strained, tripped>>

\* clearSession, for a tab whose refresh or logout is over or failed.
ClearSession(c) ==
  tab' = IF call[c].kind = "login" THEN tab ELSE [tab EXCEPT ![call[c].tab] = Nobody]

\* A refused refresh ends the tab's session; the cookie stays as it is.
ReceiveRefusal(c) ==
  /\ InFlight(c) /\ call[c].phase = "refused"
  /\ ClearSession(c)
  /\ End(c)
  /\ UNCHANGED <<account, server, cookie, faults, strained, tripped>>

ReceiveLogout(c) ==
  /\ At(c, "logout", "done")
  /\ cookie' = NoToken
  /\ ClearSession(c)
  /\ End(c)
  /\ UNCHANGED <<account, server, faults, strained, tripped>>

\* The connection drops after the server is done, or the page is reloaded.
LoseAnswer(c) ==
  /\ InFlight(c) /\ call[c].phase \in {"issued", "refused", "done"}
  /\ faults < MaxFaults
  /\ faults' = faults + 1
  /\ strained' = TRUE
  /\ ClearSession(c)
  /\ End(c)
  /\ UNCHANGED <<account, server, cookie, tripped>>

-----------------------------------------------------------------------------
(* Administration.                                                         *)

Change(u, a) ==
  /\ account' = [account EXCEPT ![u] = a]
  /\ call' = [c \in Calls |->
       IF InFlight(c) /\ call[c].user = u /\ call[c].since # {}
       THEN [call[c] EXCEPT !.since = @ \cup {a}] ELSE call[c]]
  /\ UNCHANGED <<server, browser, faults, strained, tripped>>

Disable(u) == account[u].active /\ Change(u, [account[u] EXCEPT !.active = FALSE])

Demote(u) ==
  /\ account[u].role = "MANAGER"
  /\ Change(u, [account[u] EXCEPT !.role = "FRONT_DESK"])

-----------------------------------------------------------------------------
Init ==
  /\ account = [u \in Users |-> [active |-> TRUE, role |-> "MANAGER"]]
  /\ minted = << >>
  /\ live = [f \in Tokens |-> NoToken]
  /\ index = {}
  /\ cookie = NoToken
  /\ tab = [t \in Tabs |-> Nobody]
  /\ call = [c \in Calls |-> Idle]
  /\ faults = 0
  /\ strained = FALSE
  /\ tripped = FALSE
  /\ unlisted = {}

Next ==
  \/ \E c \in Calls, t \in Tabs : RefreshAccessToken(c, t)
  \/ \E c \in Calls, t \in Tabs, u \in Users : Login(c, t, u)
  \/ \E c \in Calls, t \in Tabs : Logout(c, t)
  \/ \E c \in Calls : RefreshUnknown(c)
  \/ \E c \in Calls : RefreshReused(c)
  \/ \E c \in Calls : RevokeReused(c)
  \/ \E c \in Calls : Rotate(c)
  \/ \E c \in Calls : RefreshChecked(c)
  \/ \E c \in Calls : RevokeAllRead(c)
  \/ \E c \in Calls : RevokeAllCommit(c)
  \/ \E c \in Calls : LoginChecked(c)
  \/ \E c \in Calls : LoadRoles(c)
  \/ \E c \in Calls : StartFamily(c)
  \/ \E c \in Calls : LogoutRevokes(c)
  \/ \E c \in Calls : Fails(c)
  \/ \E f \in Tokens : FamilyExpires(f)
  \/ \E u \in Users : IndexExpires(u)
  \/ \E c \in Calls : ReceiveTokens(c)
  \/ \E c \in Calls : ReceiveRefusal(c)
  \/ \E c \in Calls : ReceiveLogout(c)
  \/ \E c \in Calls : LoseAnswer(c)
  \/ \E u \in Users : Disable(u)
  \/ \E u \in Users : Demote(u)

Spec == Init /\ [][Next]_vars

-----------------------------------------------------------------------------
(* Properties.                                                             *)

\* The store names only tokens that were minted, and the live token of a family
\* is always one of that family, whatever logins, rotations and revocations
\* interleave.
TypeOK ==
  /\ account \in [Users -> [active : BOOLEAN, role : Role]]
  /\ minted \in Seq([user : Users, fam : Tokens, parent : Tokens \cup {NoToken}])
  /\ cookie \in 0 .. Len(minted)
  /\ tab \in [Tabs -> Users \cup {Nobody}]
  /\ index \subseteq 1 .. Len(minted) /\ unlisted \subseteq 1 .. Len(minted)
  /\ \A f \in Tokens : live[f] # NoToken => live[f] <= Len(minted) /\ FamilyOf(live[f]) = f
  /\ faults \in 0 .. MaxFaults

\* "Two concurrent refreshes with the same token must not both succeed": no
\* refresh token is ever exchanged for two others.
TokenSpentOnce ==
  \A j, k \in 1 .. Len(minted) :
    (minted[j].parent = minted[k].parent /\ minted[j].parent # NoToken) => j = k

\* "Disabled between refreshes? The live session dies now", and roles are read
\* fresh: tokens are issued only to an account that was active, and with a role
\* it held, at some moment since the server took the request up.
FreshAuthority ==
  \A c \in Calls :
    (InFlight(c) /\ call[c].phase = "issued") =>
      /\ \E a \in call[c].since : a.active
      /\ \E a \in call[c].since : a.role = call[c].role

\* "The user would be force-logged-out by their own app": reuse detection does
\* not strike unless two tabs refreshed at once, an answer was lost, a refresh
\* failed after its token had been exchanged, or the account was disabled (in
\* the last three the new token is never handed out).
AppNeverLogsItselfOut == tripped => strained \/ \E u \in Users : ~account[u].active

\* "Index of a user's live families, so 'log out everywhere' is possible": every
\* live session is on its user's list, and on the list any revocation of that
\* user under way has read, however logins, rotations, logouts and revocations
\* interleave; except a session whose login overtook a revocation, which deletes
\* more of the list than it read, and one that outlived the list.
LogOutReachesAll ==
  \A f \in Tokens \ unlisted : live[f] # NoToken =>
    /\ f \in index
    /\ \A c \in RevokingOf(minted[f].user) : f \in call[c].families
=============================================================================
