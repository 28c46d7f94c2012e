---------------------------- MODULE Guests_proof ----------------------------
(***************************************************************************)
(* Theorems about guest profiles and who reaches them, for any number of   *)
(* users, hotels, guests and requests, any grants and any token lifetime.  *)
(***************************************************************************)
EXTENDS Guests, TLAPS

Active == [op : Asked, user : Users, scope : Properties, since : Nat, rows : SUBSET Guests]

\* A grant in force was in force at the last tick; a token carries only roles
\* that were held no more than a token's life before it expires.
GrantsAreTimed ==
  /\ now \in Nat
  /\ grants \subseteq InitialGrants
  /\ heldUntil \in [InitialGrants -> Nat]
  /\ \A g \in grants : heldUntil[g] = now
TokensAreRecent ==
  /\ token \in [Users -> [roles : SUBSET (Properties \X Role), expires : Nat]]
  /\ \A u \in Users : \A c \in token[u].roles :
       /\ <<u, c[1], c[2]>> \in InitialGrants
       /\ heldUntil[<<u, c[1], c[2]>>] + Lifetime >= token[u].expires

\* A request under way was let in with a recent role at the property its
\* transaction is confined to, and has reached only rows of that property.
LetIn(q) ==
  /\ \E role \in Permitted[q.op] : HeldLately(q.user, q.scope, role, q.since)
  /\ \A g \in q.rows : TenantIsolation(g, q.scope)
RequestsAreLetIn ==
  /\ request \in [Requests -> {Idle} \cup Active]
  /\ \A r \in Requests : request[r] # Idle => LetIn(request[r])

AccessInv == GrantsAreTimed /\ TokensAreRecent /\ RequestsAreLetIn

LEMMA AccessInitially == Init => AccessInv
BY DEF Init, AccessInit, AccessInv, GrantsAreTimed, TokensAreRecent, RequestsAreLetIn, NoToken

\* As time passes, what was held lately at a moment still was.
LEMMA TickKeepsAccess == AccessInv /\ Tick => AccessInv'
<1> SUFFICES ASSUME AccessInv, Tick PROVE AccessInv'
  OBVIOUS
<1>1. GrantsAreTimed' /\ \A g \in InitialGrants : heldUntil'[g] >= heldUntil[g]
  BY DEF Tick, AccessInv, GrantsAreTimed
<1>2. \A g \in InitialGrants : heldUntil[g] \in Nat /\ heldUntil'[g] \in Nat
  BY <1>1 DEF AccessInv, GrantsAreTimed
<1>3. TokensAreRecent'
  <2> SUFFICES ASSUME NEW u \in Users, NEW c \in token[u].roles
               PROVE  /\ <<u, c[1], c[2]>> \in InitialGrants
                      /\ heldUntil'[<<u, c[1], c[2]>>] + Lifetime >= token[u].expires
    BY DEF TokensAreRecent, AccessInv, Tick
  <2> DEFINE g == <<u, c[1], c[2]>>
  <2>1. g \in InitialGrants /\ heldUntil[g] + Lifetime >= token[u].expires
    BY DEF AccessInv, TokensAreRecent
  <2>2. token[u].expires \in Nat
    BY DEF AccessInv, TokensAreRecent
  <2> HIDE DEF g
  <2>3. heldUntil'[g] + Lifetime >= token[u].expires
    BY <1>1, <1>2, <2>1, <2>2, LifetimeAssumption
  <2> QED BY <2>1, <2>3 DEF g
<1>4. ASSUME NEW u \in Users, NEW p, NEW role, NEW t \in Nat, HeldLately(u, p, role, t)
      PROVE  HeldLately(u, p, role, t)'
  <2> DEFINE g == <<u, p, role>>
  <2>1. g \in InitialGrants /\ heldUntil[g] + Lifetime >= t
    BY <1>4 DEF HeldLately
  <2> HIDE DEF g
  <2>2. heldUntil'[g] + Lifetime >= t
    BY <1>1, <1>2, <2>1, LifetimeAssumption
  <2> QED BY <2>1, <2>2 DEF HeldLately, g
<1>5. RequestsAreLetIn'
  <2>1. UNCHANGED request
    BY DEF Tick
  <2>2. ASSUME NEW r \in Requests, request[r] # Idle PROVE LetIn(request[r])'
    <3>1. request[r] \in Active /\ LetIn(request[r])
      BY <2>2 DEF AccessInv, RequestsAreLetIn
    <3>2. request[r].user \in Users /\ request[r].since \in Nat
      BY <3>1 DEF Active
    <3>3. PICK role \in Permitted[request[r].op] :
            HeldLately(request[r].user, request[r].scope, role, request[r].since)
      BY <3>1 DEF LetIn
    <3>4. HeldLately(request[r].user, request[r].scope, role, request[r].since)'
      BY <1>4, <2>1, <3>2, <3>3
    <3> QED BY <2>1, <3>1, <3>4 DEF LetIn
  <2> QED BY <2>1, <2>2 DEF AccessInv, RequestsAreLetIn
<1> QED BY <1>1, <1>3, <1>5 DEF AccessInv

\* A sign-in reads grants that are in force now.
LEMMA SignInKeepsAccess ==
  ASSUME NEW u \in Users, AccessInv, SignIn(u)
  PROVE  AccessInv'
<1> DEFINE new == [roles |-> LoadRoles(u), expires |-> now + Lifetime]
<1>1. \A c \in LoadRoles(u) :
        /\ c \in Properties \X Role
        /\ <<u, c[1], c[2]>> \in grants
  BY GrantsAssumption DEF LoadRoles, AccessInv, GrantsAreTimed
<1>2. UNCHANGED <<now, grants, heldUntil, request>> /\ token' = [token EXCEPT ![u] = new]
  BY DEF SignIn
<1>3. GrantsAreTimed' /\ RequestsAreLetIn'
  BY <1>2 DEF AccessInv, GrantsAreTimed, RequestsAreLetIn, LetIn, HeldLately
<1>4. new \in [roles : SUBSET (Properties \X Role), expires : Nat]
  <2>1. LoadRoles(u) \subseteq Properties \X Role
    BY <1>1
  <2>2. now + Lifetime \in Nat
    BY LifetimeAssumption DEF AccessInv, GrantsAreTimed
  <2> QED BY <2>1, <2>2
<1>5. \A c \in new.roles : /\ <<u, c[1], c[2]>> \in InitialGrants
                           /\ heldUntil[<<u, c[1], c[2]>>] + Lifetime >= new.expires
  <2> SUFFICES ASSUME NEW c \in LoadRoles(u)
               PROVE  /\ <<u, c[1], c[2]>> \in InitialGrants
                      /\ heldUntil[<<u, c[1], c[2]>>] + Lifetime >= now + Lifetime
    OBVIOUS
  <2>1. <<u, c[1], c[2]>> \in grants
    BY <1>1
  <2>2. heldUntil[<<u, c[1], c[2]>>] = now /\ <<u, c[1], c[2]>> \in InitialGrants
    BY <2>1 DEF AccessInv, GrantsAreTimed
  <2> QED BY <2>2, LifetimeAssumption DEF AccessInv, GrantsAreTimed
<1>6. TokensAreRecent'
  <2> HIDE DEF new
  <2>1. \A v \in Users : token'[v] = IF v = u THEN new ELSE token[v]
    BY <1>2 DEF AccessInv, TokensAreRecent
  <2> QED BY <1>2, <1>4, <1>5, <2>1 DEF AccessInv, TokensAreRecent
<1> QED BY <1>3, <1>6 DEF AccessInv

\* The guards let in only a caller whose token is still good.
LEMMA BeginKeepsAccess ==
  ASSUME NEW r \in Requests, NEW u \in Users, NEW op \in Asked, NEW p \in Properties,
         AccessInv, BeginRequest(r, u, op, p)
  PROVE  AccessInv'
<1> DEFINE new == [op |-> op, user |-> u, scope |-> p, since |-> now, rows |-> {}]
<1>1. UNCHANGED accessVars /\ request' = [request EXCEPT ![r] = new]
  BY DEF BeginRequest
<1>2. new \in Active
  BY DEF Active, AccessInv, GrantsAreTimed
<1>3. LetIn(new)
  <2>1. PICK role \in RolesAt(u, p) : role \in Permitted[op]
    BY DEF BeginRequest
  <2>2. PICK c \in token[u].roles : c[1] = p /\ c[2] = role
    BY <2>1 DEF RolesAt
  <2>3. /\ <<u, p, role>> \in InitialGrants
        /\ heldUntil[<<u, p, role>>] + Lifetime >= token[u].expires
    BY <2>2 DEF AccessInv, TokensAreRecent
  <2>4. token[u].expires > now /\ token[u].expires \in Nat /\ now \in Nat
        /\ heldUntil[<<u, p, role>>] \in Nat
    BY <2>3 DEF BeginRequest, Authenticated, AccessInv, TokensAreRecent, GrantsAreTimed
  <2>5. HeldLately(u, p, role, now)
    BY <2>3, <2>4, LifetimeAssumption DEF HeldLately
  <2> QED BY <2>1, <2>5 DEF LetIn
<1>4. RequestsAreLetIn'
  <2> HIDE DEF new
  <2>1. \A q \in Requests : request'[q] = IF q = r THEN new ELSE request[q]
    BY <1>1 DEF AccessInv, RequestsAreLetIn
  <2> QED BY <1>1, <1>2, <1>3, <2>1
          DEF AccessInv, RequestsAreLetIn, LetIn, HeldLately, accessVars
<1>5. GrantsAreTimed' /\ TokensAreRecent'
  BY <1>1 DEF AccessInv, GrantsAreTimed, TokensAreRecent, accessVars
<1> QED BY <1>4, <1>5 DEF AccessInv

\* Reaching rows the policy shows the request, or ending it.
LEMMA ReachKeepsAccess ==
  ASSUME NEW r \in Requests, NEW S, AccessInv, UNCHANGED accessVars,
         \/ End(r)
         \/ /\ request[r].op \in Asked
            /\ S \subseteq Visible(r)
            /\ request' = [request EXCEPT ![r].rows = S]
  PROVE  AccessInv'
<1>1. GrantsAreTimed' /\ TokensAreRecent'
  BY DEF AccessInv, GrantsAreTimed, TokensAreRecent, accessVars
<1>2. RequestsAreLetIn'
  <2>1. CASE End(r)
    BY <2>1 DEF End, AccessInv, RequestsAreLetIn, LetIn, HeldLately, accessVars
  <2>2. CASE request[r].op \in Asked /\ S \subseteq Visible(r)
             /\ request' = [request EXCEPT ![r].rows = S]
    <3> DEFINE new == [request[r] EXCEPT !.rows = S]
    <3>1. request[r] # Idle
      BY <2>2 DEF Idle, Asked
    <3>2. request[r] \in Active /\ LetIn(request[r])
      BY <3>1 DEF AccessInv, RequestsAreLetIn
    <3>3. /\ S \subseteq Guests
          /\ \A g \in S : TenantIsolation(g, request[r].scope)
      BY <2>2 DEF Visible
    <3>4. new \in Active /\ LetIn(new)
      BY <3>2, <3>3 DEF Active, LetIn
    <3> HIDE DEF new
    <3>5. \A q \in Requests : request'[q] = IF q = r THEN new ELSE request[q]
      BY <2>2 DEF AccessInv, RequestsAreLetIn, new
    <3> QED BY <2>2, <3>4, <3>5
            DEF AccessInv, RequestsAreLetIn, LetIn, HeldLately, accessVars
  <2> QED BY <2>1, <2>2
<1> QED BY <1>1, <1>2 DEF AccessInv

-----------------------------------------------------------------------------
\* The rows a request has reached exist, and rows are never deleted.
Rows == [exists : BOOLEAN, personal : SUBSET Fields, erased : BOOLEAN, blacklisted : BOOLEAN]
ReachedRowsExist ==
  \A r \in Requests : request[r] # Idle => \A g \in request[r].rows : row[g].exists

GuestInv == /\ AccessInv
            /\ row \in [Guests -> Rows] /\ ReachedRowsExist
            /\ ErasureHolds

LEMMA GuestInitially == Init => GuestInv
BY AccessInitially
DEF Init, AccessInit, GuestInv, Rows, NoRow, ReachedRowsExist, ErasureHolds

\* A step that touches no profile and no request's rows.
LEMMA GuestRowsUntouched ==
  ASSUME GuestInv, AccessInv', UNCHANGED row,
         \A r \in Requests : request'[r] = Idle \/ request'[r] = request[r]
                              \/ \A g \in request'[r].rows : row[g].exists
  PROVE  GuestInv'
BY DEF GuestInv, ReachedRowsExist, ErasureHolds

\* What a handler writes to one row that it found or made.
LEMMA OneRow ==
  ASSUME GuestInv, AccessInv', NEW r \in Requests, End(r),
         NEW g \in Guests, NEW new \in Rows, row' = [row EXCEPT ![g] = new],
         new.exists, new.erased => new.personal = {}
  PROVE  GuestInv'
<1>1. \A h \in Guests : row'[h] = IF h = g THEN new ELSE row[h]
  BY DEF GuestInv
<1>2. row' \in [Guests -> Rows]
  BY DEF GuestInv
<1>3. ReachedRowsExist'
  <2> SUFFICES ASSUME NEW q \in Requests, request'[q] # Idle, NEW h \in request'[q].rows
               PROVE  row'[h].exists
    BY DEF ReachedRowsExist
  <2>1. request'[q] = request[q]
    BY DEF End, GuestInv, AccessInv, RequestsAreLetIn
  <2>2. h \in Guests /\ row[h].exists
    BY <2>1 DEF GuestInv, ReachedRowsExist, AccessInv, RequestsAreLetIn, Active
  <2> QED BY <1>1, <2>2
<1> QED BY <1>1, <1>2, <1>3 DEF GuestInv, ErasureHolds

\* A handler that commits writes a row it has reached.
LEMMA TargetIsReached ==
  ASSUME GuestInv, NEW r \in Requests, NEW op \in Asked, Commits(r, op)
  PROVE  /\ Target(r) \in Guests /\ row[Target(r)] \in Rows /\ row[Target(r)].exists
         /\ AccessInv' /\ End(r)
<1>1. request[r] # Idle
  BY DEF Commits, Idle, Asked
<1>2. Target(r) \in request[r].rows
  BY DEF Commits, Target
<1>3. AccessInv'
  BY ReachKeepsAccess DEF Commits, GuestInv
<1> QED BY <1>1, <1>2, <1>3
        DEF Commits, GuestInv, ReachedRowsExist, AccessInv, RequestsAreLetIn, Active

LEMMA HandleKeeps ==
  ASSUME GuestInv, NEW r \in Requests, Handle(r)
  PROVE  GuestInv'
<1>1. ASSUME NEW S, S \subseteq Visible(r), request[r].op \in Asked,
             request' = [request EXCEPT ![r].rows = S], UNCHANGED <<accessVars, row>>
      PROVE  GuestInv'
  <2>1. AccessInv'
    BY <1>1, ReachKeepsAccess DEF GuestInv
  <2>2. \A g \in S : row[g].exists
    BY <1>1 DEF Visible
  <2>3. request[r] # Idle
    BY <1>1 DEF Idle, Asked
  <2>4. \A q \in Requests : request'[q] = request[q] \/ request'[q].rows = S
    BY <1>1, <2>3 DEF GuestInv, AccessInv, RequestsAreLetIn, Active
  <2> QED BY <1>1, <2>1, <2>2, <2>4, GuestRowsUntouched
<1>2. CASE Search(r)
  BY <1>1, <1>2 DEF Search, Asked
<1>3. ASSUME NEW g \in Guests, Reveal(r, g) \/ AnonymiseLock(r, g) \/ BlacklistRead(r, g)
      PROVE  GuestInv'
  BY <1>1, <1>3 DEF Reveal, AnonymiseLock, BlacklistRead, Reads, Asked
<1>4. CASE Rollback(r)
  <2>1. AccessInv'
    BY <1>4, ReachKeepsAccess DEF Rollback, GuestInv
  <2> QED BY <1>4, <2>1, GuestRowsUntouched DEF Rollback, End, GuestInv, AccessInv, RequestsAreLetIn
<1>5. CASE AnonymiseCommit(r)
  <2> DEFINE g == Target(r)
             new == [row[g] EXCEPT !.personal = {}, !.erased = TRUE]
  <2>1. g \in Guests /\ row[g] \in Rows /\ row[g].exists /\ AccessInv' /\ End(r)
    BY <1>5, TargetIsReached DEF AnonymiseCommit, Asked
  <2>2. row' = [row EXCEPT ![g] = new]
    BY <1>5 DEF AnonymiseCommit
  <2>3. new \in Rows /\ new.exists /\ new.personal = {}
    BY <2>1 DEF Rows
  <2> HIDE DEF new
  <2> QED BY <2>1, <2>2, <2>3, OneRow
<1>6. ASSUME NEW b \in BOOLEAN, BlacklistCommit(r, b) PROVE GuestInv'
  <2> DEFINE g == Target(r)
             new == [row[g] EXCEPT !.blacklisted = b]
  <2>1. g \in Guests /\ row[g] \in Rows /\ row[g].exists /\ AccessInv' /\ End(r)
    BY <1>6, TargetIsReached DEF BlacklistCommit, Asked
  <2>2. row' = [row EXCEPT ![g] = new]
    BY <1>6 DEF BlacklistCommit
  <2>3. new \in Rows /\ new.exists /\ (new.erased => new.personal = {})
    BY <2>1 DEF Rows, GuestInv, ErasureHolds
  <2> HIDE DEF new
  <2> QED BY <2>1, <2>2, <2>3, OneRow
<1>7. ASSUME NEW g \in Guests, NEW given \in {{"identity"}, Fields}, CreateGuest(r, g, given)
      PROVE  GuestInv'
  <2> DEFINE new == [NoRow EXCEPT !.exists = TRUE, !.personal = given]
  <2>1. AccessInv' /\ End(r)
    BY <1>7, ReachKeepsAccess DEF CreateGuest, GuestInv
  <2>2. row' = [row EXCEPT ![g] = new]
    BY <1>7 DEF CreateGuest
  <2>3. new \in Rows /\ new.exists /\ ~new.erased
    BY DEF NoRow, Rows, Fields
  <2> HIDE DEF new
  <2> QED BY <2>1, <2>2, <2>3, OneRow
<1> QED BY <1>2, <1>3, <1>4, <1>5, <1>6, <1>7 DEF Handle

LEMMA GuestStep == GuestInv /\ [Next]_<<accessVars, request, row>> => GuestInv'
<1> SUFFICES ASSUME GuestInv, [Next]_<<accessVars, request, row>> PROVE GuestInv'
  OBVIOUS
<1>1. CASE AccessNext /\ UNCHANGED row
  <2>1. UNCHANGED request
    BY <1>1 DEF AccessNext, SignIn, Revoke, Tick
  <2>2. ASSUME NEW g \in InitialGrants, Revoke(g) PROVE AccessInv'
    BY <2>2 DEF Revoke, GuestInv, AccessInv, GrantsAreTimed, TokensAreRecent,
                RequestsAreLetIn, LetIn, HeldLately
  <2>3. AccessInv'
    BY <1>1, <2>2, SignInKeepsAccess, TickKeepsAccess DEF AccessNext, GuestInv
  <2> QED BY <1>1, <2>1, <2>3, GuestRowsUntouched
<1>2. ASSUME NEW r \in Requests, Handle(r) PROVE GuestInv'
  BY <1>2, HandleKeeps
<1>3. ASSUME NEW r \in Requests, NEW u \in Users, NEW op \in Asked, NEW p \in Properties,
             BeginRequest(r, u, op, p), UNCHANGED row
      PROVE  GuestInv'
  <2>1. AccessInv'
    BY <1>3, BeginKeepsAccess DEF GuestInv
  <2>2. \A q \in Requests : request'[q] = request[q] \/ request'[q].rows = {}
    BY <1>3 DEF BeginRequest, GuestInv, AccessInv, RequestsAreLetIn
  <2> QED BY <1>3, <2>1, <2>2, GuestRowsUntouched
<1>4. CASE UNCHANGED <<accessVars, request, row>>
  BY <1>4 DEF accessVars, GuestInv, AccessInv, GrantsAreTimed, TokensAreRecent,
              RequestsAreLetIn, LetIn, HeldLately, ReachedRowsExist, ErasureHolds
<1> QED BY <1>1, <1>2, <1>3, <1>4 DEF Next

LEMMA GuestInvariant == Spec => []GuestInv
BY GuestInitially, GuestStep, PTL DEF Spec

-----------------------------------------------------------------------------
\* Nobody reaches a row without a role the operation allows, held at that row's
\* property no longer than a token's life before the guards let the request in,
\* although no query of a handler names the property.
THEOREM EveryTouchIsGranted == Spec => []TouchesAreGranted
<1>1. GuestInv => TouchesAreGranted
  BY DEF GuestInv, AccessInv, RequestsAreLetIn, LetIn, TenantIsolation, TouchesAreGranted
<1> QED BY <1>1, GuestInvariant, PTL

\* Whoever reads a profile before it is erased and writes to it after, an erased
\* profile keeps no personal data.
THEOREM ErasedGuestsStayErased == Spec => []ErasureHolds
BY GuestInvariant, PTL DEF GuestInv
=============================================================================
