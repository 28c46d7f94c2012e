--------------------------- MODULE Sessions_proof ---------------------------
(***************************************************************************)
(* Theorems about sessions, for any number of users, tabs, requests in     *)
(* flight, tokens, lost answers, failed requests and expired keys.         *)
(***************************************************************************)
EXTENDS Sessions, TLAPS

Accounts == [active : BOOLEAN, role : Role]
Token    == [user : Users, fam : Tokens, parent : Tokens \cup {NoToken}]
Phases   == {"sent", "refused", "reused", "rotated", "checked", "revoking", "signing",
             "issued", "done"}
Request  == [kind : {"refresh", "login", "logout"}, tab : Tabs, phase : Phases,
             user : Users \cup {Nobody}, token : Nat, boot : BOOLEAN,
             role : Role \cup {NoRole}, since : SUBSET Accounts, families : SUBSET Tokens]

\* A request names only tokens that exist, and a user once the server knows one;
\* a logout gets no tokens.
Shape(q, tokens) ==
  /\ q.token <= tokens
  /\ q.kind = "login" \/ q.phase \in {"rotated", "checked", "revoking", "signing", "issued"}
       => q.user \in Users
  /\ q.kind = "logout" => q.phase \in {"sent", "done"}

TokensTyped ==
  /\ minted \in Seq(Token) /\ Len(minted) <= MaxTokens
  /\ \A k \in 1 .. Len(minted) : FamilyOf(k) <= Len(minted) /\ minted[k].parent <= Len(minted)
StoreTyped ==
  /\ live \in [Tokens -> Nat] /\ index \subseteq 1 .. Len(minted)
  /\ unlisted \subseteq 1 .. Len(minted)
  /\ \A f \in Tokens : live[f] # NoToken => live[f] <= Len(minted) /\ FamilyOf(live[f]) = f
ClientTyped ==
  /\ account \in [Users -> Accounts]
  /\ cookie \in 0 .. Len(minted)
  /\ tab \in [Tabs -> Users \cup {Nobody}]
  /\ faults \in 0 .. MaxFaults /\ strained \in BOOLEAN /\ tripped \in BOOLEAN
CallsTyped ==
  /\ call \in [Calls -> {Idle} \cup Request]
  /\ \A c \in Calls : InFlight(c) => Shape(call[c], Len(minted))
Typed == TokensTyped /\ StoreTyped /\ ClientTyped /\ CallsTyped

LEMMA TypedInitially == Init => Typed
<1> SUFFICES ASSUME Init PROVE Typed
  OBVIOUS
<1>1. minted \in Seq(Token) /\ Len(minted) = 0 /\ MaxTokens \in Nat
  BY SessionsAssumption DEF Init
<1>2. TokensTyped
  BY <1>1 DEF TokensTyped
<1>3. StoreTyped
  BY <1>1 DEF Init, StoreTyped, NoToken
<1>4. ClientTyped
  <2>1. account \in [Users -> Accounts] /\ tab \in [Tabs -> Users \cup {Nobody}]
    BY DEF Init, Accounts, Role
  <2>2. cookie = 0 /\ faults = 0 /\ strained = FALSE /\ tripped = FALSE
    BY DEF Init, NoToken
  <2>3. cookie \in 0 .. Len(minted) /\ faults \in 0 .. MaxFaults
    BY <1>1, <2>2, SessionsAssumption
  <2> QED BY <2>1, <2>2, <2>3 DEF ClientTyped
<1>5. CallsTyped
  BY DEF Init, CallsTyped, InFlight
<1> QED BY <1>2, <1>3, <1>4, <1>5 DEF Typed

\* What minting a token does to the list of them.
LEMMA Minting ==
  ASSUME Typed, NEW u \in Users, NEW fam \in Tokens, NEW parent \in 0 .. Len(minted),
         fam <= Len(minted) + 1, Mint(u, fam, parent)
  PROVE  /\ Len(minted) \in Nat /\ Len(minted') = Len(minted) + 1 /\ NextToken \in Tokens
         /\ \A k \in 1 .. Len(minted) : minted'[k] = minted[k]
         /\ minted'[NextToken] = [user |-> u, fam |-> fam, parent |-> parent]
         /\ TokensTyped'
<1> DEFINE t == [user |-> u, fam |-> fam, parent |-> parent]
<1>1. t \in Token
  BY SessionsAssumption DEF Token, Tokens, NoToken, Typed, TokensTyped
<1>2. minted \in Seq(Token) /\ Len(minted) \in Nat /\ Len(minted) < MaxTokens
      /\ minted' = Append(minted, t)
  BY DEF Mint, Typed, TokensTyped
<1> HIDE DEF t
<1>3. /\ minted' \in Seq(Token) /\ Len(minted') = Len(minted) + 1
      /\ \A k \in 1 .. Len(minted) : minted'[k] = minted[k]
      /\ minted'[Len(minted) + 1] = t
  BY <1>1, <1>2
<1>4. NextToken \in Tokens
  BY <1>2, SessionsAssumption DEF NextToken, Tokens
<1>5. TokensTyped'
  <2>1. Len(minted') <= MaxTokens
    BY <1>2, <1>3, SessionsAssumption
  <2>2. ASSUME NEW k \in 1 .. Len(minted')
        PROVE  minted'[k].fam <= Len(minted') /\ minted'[k].parent <= Len(minted')
    <3>1. CASE k \in 1 .. Len(minted)
      <4>1. /\ minted[k] \in Token /\ FamilyOf(k) <= Len(minted)
            /\ minted[k].parent <= Len(minted)
        BY <1>2, <3>1 DEF Typed, TokensTyped
      <4>2. minted[k].fam \in Nat /\ minted[k].parent \in Nat
        BY <4>1, SessionsAssumption DEF Token, Tokens, NoToken
      <4> QED BY <1>2, <1>3, <3>1, <4>1, <4>2 DEF FamilyOf
    <3>2. CASE k = Len(minted) + 1
      <4>1. fam \in Nat /\ parent \in Nat /\ parent <= Len(minted)
        BY <1>2 DEF Tokens
      <4> QED BY <1>2, <1>3, <3>2, <4>1 DEF t
    <3> QED BY <1>2, <1>3, <3>1, <3>2
  <2> QED BY <1>3, <2>1, <2>2 DEF TokensTyped, FamilyOf
<1> QED BY <1>2, <1>3, <1>4, <1>5 DEF t, NextToken

\* Replacing one request by a well-formed one, while tokens are only added.
LEMMA CallStep ==
  ASSUME Typed, NEW c \in Calls, NEW new \in {Idle} \cup Request,
         call' = [call EXCEPT ![c] = new],
         Len(minted') \in Nat, Len(minted') >= Len(minted), new # Idle => Shape(new, Len(minted'))
  PROVE  CallsTyped' /\ \A d \in Calls : call'[d] = IF d = c THEN new ELSE call[d]
<1>1. \A d \in Calls : call'[d] = IF d = c THEN new ELSE call[d]
  BY DEF Typed, CallsTyped
<1>2. call' \in [Calls -> {Idle} \cup Request]
  BY DEF Typed, CallsTyped
<1>3. ASSUME NEW d \in Calls, d # c, InFlight(d)' PROVE Shape(call'[d], Len(minted'))
  <2>1. call'[d] = call[d] /\ call[d] \in Request /\ Shape(call[d], Len(minted))
    BY <1>1, <1>3 DEF Typed, CallsTyped, InFlight
  <2>2. call[d].token \in Nat /\ Len(minted) \in Nat
    BY <2>1 DEF Request, Typed, TokensTyped
  <2> QED BY <2>1, <2>2 DEF Shape
<1>4. InFlight(c)' => Shape(call'[c], Len(minted'))
  BY <1>1 DEF InFlight
<1> QED BY <1>1, <1>2, <1>3, <1>4 DEF CallsTyped, InFlight

\* A request moves on to another phase.
LEMMA PhaseStep ==
  ASSUME Typed, NEW c \in Calls, InFlight(c), NEW phase \in Phases, Step(c, phase),
         UNCHANGED minted,
         phase \in {"rotated", "checked", "revoking", "signing", "issued"} => call[c].user \in Users,
         call[c].kind = "logout" => phase = "done"
  PROVE  CallsTyped'
<1> DEFINE new == [call[c] EXCEPT !.phase = phase]
<1>1. call[c] \in Request /\ Shape(call[c], Len(minted))
  BY DEF Typed, CallsTyped, InFlight
<1>2. /\ new \in Request
      /\ new.token = call[c].token /\ new.kind = call[c].kind /\ new.user = call[c].user
      /\ new.phase = phase
  BY <1>1 DEF Request
<1>3. Shape(new, Len(minted'))
  BY <1>1, <1>2 DEF Shape
<1>4. call' = [call EXCEPT ![c] = new] /\ Len(minted') = Len(minted) /\ Len(minted) \in Nat
  BY DEF Step, Typed, TokensTyped
<1> HIDE DEF new
<1>5. Len(minted') \in Nat /\ Len(minted') >= Len(minted)
  BY <1>4
<1> QED BY <1>2, <1>3, <1>4, <1>5, CallStep

LEMMA ServerKept ==
  ASSUME Typed, UNCHANGED server PROVE TokensTyped' /\ StoreTyped'
BY DEF Typed, TokensTyped, StoreTyped, server, FamilyOf

LEMMA ClientKept ==
  ASSUME Typed, UNCHANGED <<account, browser, faults>>, strained' \in BOOLEAN, tripped' \in BOOLEAN,
         Len(minted') \in Nat, Len(minted') >= Len(minted)
  PROVE  ClientTyped'
<1>1. cookie \in 0 .. Len(minted) /\ Len(minted) \in Nat
  BY DEF Typed, ClientTyped, TokensTyped
<1>2. cookie' \in 0 .. Len(minted')
  BY <1>1 DEF browser
<1> QED BY <1>2 DEF Typed, ClientTyped, browser

\* A family is revoked, or several.
LEMMA StoreRevoked ==
  ASSUME Typed, NEW S, UNCHANGED minted, index' \subseteq index,
         unlisted' \subseteq unlisted \cup 1 .. Len(minted),
         live' = [f \in Tokens |-> IF f \in S THEN NoToken ELSE live[f]]
  PROVE  TokensTyped' /\ StoreTyped'
BY DEF Typed, TokensTyped, StoreTyped, FamilyOf, NoToken

LEMMA FamilyRevoked ==
  ASSUME Typed, NEW f, RevokeFamily(f) PROVE TokensTyped' /\ StoreTyped'
<1>1. live' = [g \in Tokens |-> IF g \in {f} THEN NoToken ELSE live[g]]
  BY DEF Typed, StoreTyped, RevokeFamily
<1> QED BY <1>1, StoreRevoked DEF RevokeFamily

\* What goes, and what is left, when a user's list expires.
LEMMA ListExpired ==
  ASSUME Typed, NEW u \in Users, IndexExpires(u)
  PROVE  /\ UNCHANGED <<minted, account, browser, call, strained, tripped>>
         /\ faults < MaxFaults /\ faults' = faults + 1
         /\ index' = index \ FamiliesOf(u)
         /\ unlisted \subseteq unlisted' /\ unlisted' \subseteq unlisted \cup 1 .. Len(minted)
         /\ \E S : live' = [f \in Tokens |-> IF f \in S THEN NoToken ELSE live[f]]
         /\ \A f \in Tokens : live'[f] # NoToken /\ minted[f].user = u => f \in unlisted'
<1> DEFINE outlive == {f \in Tokens : /\ live[f] # NoToken /\ minted[f].user = u
                                      /\ \A k \in Logins(u) : k < live[f]}
           gone == {f \in Tokens : live[f] # NoToken /\ minted[f].user = u /\ f \notin outlive}
<1>1. /\ UNCHANGED <<minted, account, browser, call, strained, tripped>>
      /\ faults < MaxFaults /\ faults' = faults + 1
      /\ index' = index \ FamiliesOf(u) /\ unlisted' = unlisted \cup outlive
      /\ live' = [f \in Tokens |->
           IF live[f] # NoToken /\ minted[f].user = u /\ f \notin outlive THEN NoToken ELSE live[f]]
  BY DEF IndexExpires
<1>2. outlive \subseteq 1 .. Len(minted)
  <2>1. ASSUME NEW f \in Tokens, live[f] # NoToken PROVE f \in 1 .. Len(minted)
    <3>1. live[f] \in 1 .. Len(minted) /\ FamilyOf(live[f]) = f /\ Len(minted) \in Nat
      BY <2>1 DEF Typed, StoreTyped, TokensTyped, NoToken
    <3>2. f <= Len(minted)
      BY <3>1 DEF Typed, TokensTyped
    <3> QED BY <3>1, <3>2 DEF Tokens
  <2> QED BY <2>1
<1> HIDE DEF outlive
<1>3. live' = [f \in Tokens |-> IF f \in gone THEN NoToken ELSE live[f]]
  BY <1>1
<1>4. \A f \in Tokens : live'[f] # NoToken /\ minted[f].user = u => f \in outlive
  BY <1>1
<1> QED BY <1>1, <1>2, <1>3, <1>4

\* A new token becomes the live one of its family.
LEMMA StoreMinted ==
  ASSUME Typed, NEW u \in Users, NEW fam \in Tokens, NEW parent \in 0 .. Len(minted),
         fam <= Len(minted) + 1, Mint(u, fam, parent),
         live' = [live EXCEPT ![fam] = NextToken],
         index' \in {index, index \cup {NextToken}},
         unlisted' \in {unlisted, unlisted \cup {NextToken}}
  PROVE  TokensTyped' /\ StoreTyped'
<1>1. /\ Len(minted) \in Nat /\ Len(minted') = Len(minted) + 1 /\ NextToken \in Tokens
      /\ \A k \in 1 .. Len(minted) : minted'[k] = minted[k]
      /\ minted'[NextToken] = [user |-> u, fam |-> fam, parent |-> parent]
      /\ TokensTyped'
  BY Minting
<1>2. NextToken = Len(minted) + 1
  BY DEF NextToken
<1>3. live' \in [Tokens -> Nat] /\ index' \subseteq 1 .. Len(minted')
      /\ unlisted' \subseteq 1 .. Len(minted')
  <2>1. live \in [Tokens -> Nat] /\ index \subseteq 1 .. Len(minted)
        /\ unlisted \subseteq 1 .. Len(minted)
    BY DEF Typed, StoreTyped
  <2>2. NextToken \in 1 .. Len(minted') /\ NextToken \in Nat
        /\ 1 .. Len(minted) \subseteq 1 .. Len(minted')
    BY <1>1, <1>2
  <2>3. live' \in [Tokens -> Nat]
    BY <2>1, <2>2
  <2> QED BY <2>1, <2>2, <2>3
<1>4. ASSUME NEW f \in Tokens, live'[f] # NoToken
      PROVE  live'[f] <= Len(minted') /\ minted'[live'[f]].fam = f
  <2>1. CASE f = fam
    <3>1. live'[f] = NextToken
      BY <2>1 DEF Typed, StoreTyped
    <3> QED BY <1>1, <1>2, <2>1, <3>1
  <2>2. CASE f # fam
    <3>1. live'[f] = live[f] /\ live[f] \in 1 .. Len(minted) /\ minted[live[f]].fam = f
      BY <1>1, <1>4, <2>2 DEF Typed, StoreTyped, NoToken, FamilyOf
    <3> QED BY <1>1, <3>1
  <2> QED BY <2>1, <2>2
<1> QED BY <1>1, <1>3, <1>4 DEF StoreTyped, FamilyOf

\* What is known of a request in flight and of the token it names.
LEMMA InFlightTyped ==
  ASSUME Typed, NEW c \in Calls, InFlight(c)
  PROVE  call[c] \in Request /\ Shape(call[c], Len(minted)) /\ Len(minted) \in Nat
BY DEF Typed, CallsTyped, InFlight, TokensTyped

LEMMA TokenTyped ==
  ASSUME Typed, NEW k \in 1 .. Len(minted)
  PROVE  /\ minted[k].user \in Users /\ FamilyOf(k) \in Tokens /\ FamilyOf(k) <= Len(minted)
         /\ k \in Tokens /\ minted[k].parent \in 0 .. Len(minted)
<1>1. minted[k] \in Token /\ Len(minted) \in Nat /\ Len(minted) <= MaxTokens
      /\ FamilyOf(k) <= Len(minted) /\ minted[k].parent <= Len(minted)
  BY DEF Typed, TokensTyped
<1>2. minted[k].parent \in Nat
  BY <1>1 DEF Token, Tokens, NoToken
<1> QED BY <1>1, <1>2, SessionsAssumption DEF Token, Tokens, FamilyOf

\* Actions that move one request on and change nothing of the server or the browser.
LEMMA MoveOn ==
  ASSUME Typed, NEW c \in Calls, InFlight(c), NEW phase \in Phases, Step(c, phase),
         UNCHANGED <<account, server, browser, faults, strained>>, tripped' \in BOOLEAN,
         phase \in {"rotated", "checked", "revoking", "signing", "issued"} => call[c].user \in Users,
         call[c].kind = "logout" => phase = "done"
  PROVE  Typed'
<1>1. TokensTyped' /\ StoreTyped'
  BY ServerKept
<1>2. CallsTyped'
  BY PhaseStep DEF server
<1>3. Len(minted') \in Nat /\ Len(minted') >= Len(minted) /\ strained' \in BOOLEAN
  BY DEF Typed, TokensTyped, ClientTyped, server
<1>4. ClientTyped'
  BY <1>3, ClientKept
<1> QED BY <1>1, <1>2, <1>4 DEF Typed

\* The same when the request gets more than a new phase.
LEMMA Learn ==
  ASSUME Typed, NEW c \in Calls, NEW new \in {Idle} \cup Request,
         call' = [call EXCEPT ![c] = new], new # Idle => Shape(new, Len(minted)),
         UNCHANGED <<account, server, browser, faults, tripped>>, strained' \in BOOLEAN
  PROVE  Typed'
<1>1. TokensTyped' /\ StoreTyped'
  BY ServerKept
<1>2. /\ Len(minted') \in Nat /\ Len(minted') >= Len(minted) /\ tripped' \in BOOLEAN
      /\ Len(minted') = Len(minted)
  BY DEF Typed, TokensTyped, ClientTyped, server
<1>3. CallsTyped'
  BY <1>2, CallStep
<1>4. ClientTyped'
  BY <1>2, ClientKept
<1> QED BY <1>1, <1>3, <1>4 DEF Typed

\* And when the request is over.
LEMMA Ended ==
  ASSUME Typed, NEW c \in Calls, End(c), UNCHANGED <<account, server>>,
         cookie' \in 0 .. Len(minted), tab' \in [Tabs -> Users \cup {Nobody}],
         faults' \in 0 .. MaxFaults, strained' \in BOOLEAN, UNCHANGED tripped
  PROVE  Typed'
<1>1. TokensTyped' /\ StoreTyped'
  BY ServerKept
<1>2. /\ Len(minted') \in Nat /\ Len(minted') >= Len(minted)
      /\ Len(minted') = Len(minted)
  BY DEF Typed, TokensTyped, server
<1>3. call' = [call EXCEPT ![c] = Idle]
  BY DEF End
<1>4. CallsTyped'
  BY <1>2, <1>3, CallStep
<1>5. ClientTyped'
  BY <1>2 DEF Typed, ClientTyped
<1> QED BY <1>1, <1>4, <1>5 DEF Typed

LEMMA SendTyped ==
  ASSUME Typed, NEW c \in Calls, NEW t \in Tabs, NEW kind \in {"refresh", "login", "logout"},
         NEW u \in Users \cup {Nobody}, kind = "login" => u \in Users,
         NEW k \in {NoToken, cookie}, Send(c, kind, t, u, k),
         UNCHANGED <<account, server, browser, faults, tripped>>, strained' \in BOOLEAN
  PROVE  Typed'
<1> DEFINE new == [kind |-> kind, tab |-> t, phase |-> "sent", user |-> u, token |-> k,
                   boot |-> tab[t] = Nobody, role |-> NoRole, since |-> {}, families |-> {}]
<1>1. k \in Nat /\ k <= Len(minted)
  BY DEF Typed, ClientTyped, TokensTyped, NoToken
<1>2. new \in Request
  BY <1>1 DEF Request, Phases
<1>3. Shape(new, Len(minted))
  BY <1>1 DEF Shape
<1>4. call' = [call EXCEPT ![c] = new]
  BY DEF Send
<1> HIDE DEF new
<1> QED BY <1>2, <1>3, <1>4, Learn

LEMMA RotateTyped ==
  ASSUME Typed, NEW c \in Calls, Rotate(c) PROVE Typed'
<1> DEFINE k == call[c].token
           u == minted[k].user
           new == [call[c] EXCEPT !.phase = "rotated", !.user = u, !.token = NextToken,
                                  !.since = {Account(u)}]
<1>1. /\ InFlight(c) /\ call[c].kind = "refresh" /\ k # NoToken
      /\ Mint(u, FamilyOf(k), k) /\ live' = [live EXCEPT ![FamilyOf(k)] = NextToken]
      /\ UNCHANGED <<account, index, unlisted, browser, faults, strained, tripped>>
  BY DEF Rotate, At, InFlight, RotateOutcome
<1>2. call[c] \in Request /\ Shape(call[c], Len(minted)) /\ Len(minted) \in Nat
  BY <1>1, InFlightTyped
<1>3. k \in 1 .. Len(minted)
  BY <1>1, <1>2 DEF Request, Shape, NoToken
<1>4. u \in Users /\ FamilyOf(k) \in Tokens /\ FamilyOf(k) <= Len(minted) + 1
  BY <1>2, <1>3, TokenTyped DEF Tokens
<1>5. call' = [call EXCEPT ![c] = new]
  BY DEF Rotate
<1>6. k \in 0 .. Len(minted)
  BY <1>2, <1>3
<1> HIDE DEF k, u, new
<1>7. TokensTyped' /\ StoreTyped'
  BY <1>1, <1>4, <1>6, StoreMinted
<1>8. Len(minted') = Len(minted) + 1 /\ NextToken = Len(minted) + 1
  BY <1>1, <1>4, <1>6, Minting DEF NextToken
<1>9. Len(minted') \in Nat /\ Len(minted') >= Len(minted)
  BY <1>2, <1>8
<1>10. Account(u) \in Accounts
  BY <1>4 DEF Account, Accounts, Typed, ClientTyped
<1>11. new \in Request /\ Shape(new, Len(minted'))
  <2>1. NextToken \in Nat /\ NextToken <= Len(minted')
    BY <1>2, <1>8
  <2>2. new \in Request
    BY <1>2, <1>4, <1>10, <2>1 DEF new, Request, Phases
  <2>3. new.token = NextToken /\ new.user = u /\ new.kind = "refresh"
    BY <1>1, <1>2 DEF new, Request
  <2> QED BY <1>4, <2>1, <2>2, <2>3 DEF Shape
<1>12. CallsTyped'
  BY <1>5, <1>9, <1>11, CallStep
<1>13. strained' \in BOOLEAN /\ tripped' \in BOOLEAN
  BY <1>1 DEF Typed, ClientTyped
<1>14. ClientTyped'
  BY <1>1, <1>9, <1>13, ClientKept
<1> QED BY <1>7, <1>12, <1>14 DEF Typed

LEMMA StartTyped ==
  ASSUME Typed, NEW c \in Calls, StartFamily(c) PROVE Typed'
<1> DEFINE u == call[c].user
           new == [call[c] EXCEPT !.phase = "issued", !.token = NextToken]
<1>1. /\ InFlight(c) /\ call[c].kind = "login"
      /\ Mint(u, NextToken, NoToken) /\ live' = [live EXCEPT ![NextToken] = NextToken]
      /\ index' = index \cup {NextToken} /\ unlisted' \in {unlisted, unlisted \cup {NextToken}}
      /\ UNCHANGED <<account, browser, faults, strained, tripped>>
      /\ call' = [call EXCEPT ![c] = new]
  BY DEF StartFamily, At, InFlight
<1>2. call[c] \in Request /\ Shape(call[c], Len(minted)) /\ Len(minted) \in Nat
  BY <1>1, InFlightTyped
<1>3. u \in Users
  BY <1>1, <1>2 DEF Shape
<1>4. /\ NextToken \in Tokens /\ NextToken <= Len(minted) + 1 /\ NoToken \in 0 .. Len(minted)
      /\ NextToken = Len(minted) + 1
  BY <1>1, <1>2, SessionsAssumption DEF Mint, NextToken, Tokens, NoToken
<1> HIDE DEF u, new
<1>5. TokensTyped' /\ StoreTyped'
  <2> DEFINE fam == NextToken
  <2>1. fam \in Tokens /\ fam <= Len(minted) + 1 /\ Mint(u, fam, NoToken)
        /\ live' = [live EXCEPT ![fam] = NextToken] /\ index' = index \cup {NextToken}
        /\ unlisted' \in {unlisted, unlisted \cup {NextToken}}
    BY <1>1, <1>4
  <2> HIDE DEF fam
  <2> QED BY <1>3, <1>4, <2>1, StoreMinted
<1>6. Len(minted') = Len(minted) + 1
  BY <1>1, <1>3, <1>4, Minting
<1>7. Len(minted') \in Nat /\ Len(minted') >= Len(minted)
  BY <1>2, <1>6
<1>8. new \in Request /\ Shape(new, Len(minted'))
  <2>1. NextToken \in Nat /\ NextToken <= Len(minted')
    BY <1>2, <1>4, <1>6
  <2>2. new \in Request
    BY <1>2, <2>1 DEF new, Request, Phases
  <2>3. new.token = NextToken /\ new.user = u /\ new.kind = "login"
    BY <1>1, <1>2 DEF new, u, Request
  <2> QED BY <1>3, <2>1, <2>2, <2>3 DEF Shape
<1>9. CallsTyped'
  BY <1>1, <1>7, <1>8, CallStep
<1>10. strained' \in BOOLEAN /\ tripped' \in BOOLEAN
  BY <1>1 DEF Typed, ClientTyped
<1>11. ClientTyped'
  BY <1>1, <1>7, <1>10, ClientKept
<1> QED BY <1>5, <1>9, <1>11 DEF Typed

\* An account changes under the requests that have looked at it.
LEMMA ChangeTyped ==
  ASSUME Typed, NEW u \in Users, NEW a \in Accounts, Change(u, a) PROVE Typed'
<1> DEFINE new(c) == IF InFlight(c) /\ call[c].user = u /\ call[c].since # {}
                     THEN [call[c] EXCEPT !.since = @ \cup {a}] ELSE call[c]
<1>1. UNCHANGED <<server, browser, faults, strained, tripped>> /\ Len(minted') = Len(minted)
      /\ call' = [c \in Calls |-> new(c)]
  BY DEF Change, server
<1>2. TokensTyped' /\ StoreTyped'
  BY <1>1, ServerKept
<1>3. ClientTyped'
  BY <1>1 DEF Change, Typed, ClientTyped, browser
<1>4. ASSUME NEW c \in Calls
      PROVE  /\ new(c) \in {Idle} \cup Request
             /\ new(c) # Idle => Shape(new(c), Len(minted))
  <2>1. CASE InFlight(c)
    <3>1. call[c] \in Request /\ Shape(call[c], Len(minted))
      BY <2>1, InFlightTyped
    <3> QED BY <3>1 DEF Request, Shape
  <2>2. CASE ~InFlight(c)
    BY <2>2 DEF InFlight
  <2> QED BY <2>1, <2>2
<1> HIDE DEF new
<1>5. CallsTyped'
  BY <1>1, <1>4 DEF CallsTyped, InFlight
<1> QED BY <1>2, <1>3, <1>5 DEF Typed

LEMMA TypedStep == Typed /\ [Next]_vars => Typed'
<1> SUFFICES ASSUME Typed, [Next]_vars PROVE Typed'
  OBVIOUS
<1>0. Len(minted) \in Nat /\ strained \in BOOLEAN /\ tripped \in BOOLEAN /\ faults \in 0 .. MaxFaults
      /\ cookie \in 0 .. Len(minted) /\ tab \in [Tabs -> Users \cup {Nobody}]
      /\ account \in [Users -> Accounts]
  BY DEF Typed, TokensTyped, ClientTyped
<1>1. ASSUME NEW c \in Calls, NEW t \in Tabs, RefreshAccessToken(c, t) PROVE Typed'
  <2>1. Send(c, "refresh", t, Nobody, cookie) /\ UNCHANGED <<account, server, browser, faults, tripped>>
        /\ strained' \in BOOLEAN
    BY <1>0, <1>1 DEF RefreshAccessToken
  <2> QED BY <2>1, SendTyped
<1>2. ASSUME NEW c \in Calls, NEW t \in Tabs, NEW u \in Users, Login(c, t, u) PROVE Typed'
  <2>1. Send(c, "login", t, u, NoToken) /\ UNCHANGED <<account, server, browser, faults, tripped>>
        /\ strained' \in BOOLEAN
    BY <1>0, <1>2 DEF Login
  <2> QED BY <2>1, SendTyped
<1>3. ASSUME NEW c \in Calls, NEW t \in Tabs, Logout(c, t) PROVE Typed'
  <2>1. Send(c, "logout", t, Nobody, cookie) /\ UNCHANGED <<account, server, browser, faults, tripped>>
        /\ strained' \in BOOLEAN
    BY <1>0, <1>3 DEF Logout
  <2> QED BY <2>1, SendTyped
<1>4. ASSUME NEW c \in Calls, RefreshUnknown(c) PROVE Typed'
  BY <1>0, <1>4, MoveOn DEF RefreshUnknown, At, InFlight, Phases
<1>5. ASSUME NEW c \in Calls, RefreshReused(c) PROVE Typed'
  BY <1>0, <1>5, MoveOn DEF RefreshReused, At, InFlight, Phases
<1>6. ASSUME NEW c \in Calls, RevokeReused(c) PROVE Typed'
  <2>1. InFlight(c) /\ RevokeFamily(FamilyOf(call[c].token)) /\ Step(c, "refused")
        /\ call[c].kind = "refresh" /\ UNCHANGED minted /\ UNCHANGED <<account, browser, faults, strained, tripped>>
    BY <1>6 DEF RevokeReused, RevokeFamily, At, InFlight
  <2>2. TokensTyped' /\ StoreTyped'
    BY <2>1, FamilyRevoked
  <2>3. CallsTyped'
    BY <2>1, PhaseStep DEF Phases
  <2>4. ClientTyped'
    BY <1>0, <2>1 DEF Typed, ClientTyped, browser
  <2> QED BY <2>2, <2>3, <2>4 DEF Typed
<1>7. ASSUME NEW c \in Calls, Rotate(c) PROVE Typed'
  BY <1>7, RotateTyped
<1>8. ASSUME NEW c \in Calls, RefreshChecked(c) PROVE Typed'
  <2>1. InFlight(c) /\ call[c].phase = "rotated" /\ Step(c, "checked") /\ call[c].kind = "refresh"
        /\ UNCHANGED <<account, server, browser, faults, strained, tripped>>
    BY <1>8 DEF RefreshChecked, At, InFlight
  <2>2. call[c].user \in Users
    BY <2>1, InFlightTyped DEF Shape
  <2> QED BY <1>0, <2>1, <2>2, MoveOn DEF Phases
<1>9. ASSUME NEW c \in Calls, RevokeAllRead(c) PROVE Typed'
  <2> DEFINE new == [call[c] EXCEPT !.phase = "revoking", !.families = FamiliesOf(call[c].user)]
  <2>1. InFlight(c) /\ call[c].phase = "rotated" /\ call' = [call EXCEPT ![c] = new]
        /\ call[c].kind = "refresh" /\ UNCHANGED <<account, server, browser, faults, strained, tripped>>
    BY <1>9 DEF RevokeAllRead, At, InFlight
  <2>2. call[c] \in Request /\ Shape(call[c], Len(minted))
    BY <2>1, InFlightTyped
  <2>3. index \subseteq Tokens
    BY SessionsAssumption DEF Typed, StoreTyped, TokensTyped, Tokens
  <2>4. FamiliesOf(call[c].user) \subseteq Tokens
    BY <2>3 DEF FamiliesOf
  <2>5. new \in Request /\ Shape(new, Len(minted))
    BY <2>1, <2>2, <2>4 DEF Request, Shape, Phases
  <2> HIDE DEF new
  <2> QED BY <1>0, <2>1, <2>5, Learn
<1>10. ASSUME NEW c \in Calls, RevokeAllCommit(c) PROVE Typed'
  <2>1. InFlight(c) /\ Step(c, "refused") /\ index' \subseteq index /\ UNCHANGED <<minted, unlisted>>
        /\ call[c].kind = "refresh"
        /\ live' = [f \in Tokens |-> IF f \in call[c].families THEN NoToken ELSE live[f]]
        /\ UNCHANGED <<account, minted, unlisted, browser, faults, strained, tripped>>
    BY <1>10 DEF RevokeAllCommit, At, InFlight
  <2>2. TokensTyped' /\ StoreTyped'
    BY <2>1, StoreRevoked
  <2>3. CallsTyped'
    BY <2>1, PhaseStep DEF Phases
  <2>4. ClientTyped'
    BY <1>0, <2>1 DEF Typed, ClientTyped, browser
  <2> QED BY <2>2, <2>3, <2>4 DEF Typed
<1>11. ASSUME NEW c \in Calls, LoginChecked(c) PROVE Typed'
  <2> DEFINE p == IF MaySignIn(call[c].user) THEN "checked" ELSE "refused"
             new == [call[c] EXCEPT !.phase = p, !.since = {Account(call[c].user)}]
  <2>1. InFlight(c) /\ call[c].kind = "login" /\ call' = [call EXCEPT ![c] = new]
        /\ UNCHANGED <<account, server, browser, faults, strained, tripped>>
    BY <1>11 DEF LoginChecked, At, InFlight
  <2>2. call[c] \in Request /\ Shape(call[c], Len(minted))
    BY <2>1, InFlightTyped
  <2>3. call[c].user \in Users
    BY <2>1, <2>2 DEF Shape
  <2>4. Account(call[c].user) \in Accounts
    BY <1>0, <2>3 DEF Account, Accounts
  <2>5. p \in Phases
    BY DEF Phases
  <2> HIDE DEF p
  <2>6. new \in Request /\ Shape(new, Len(minted))
    BY <2>1, <2>2, <2>3, <2>4, <2>5 DEF Request, Shape
  <2> HIDE DEF new
  <2> QED BY <1>0, <2>1, <2>6, Learn
<1>12. ASSUME NEW c \in Calls, LoadRoles(c) PROVE Typed'
  <2> DEFINE p == IF call[c].kind = "login" THEN "signing" ELSE "issued"
             new == [call[c] EXCEPT !.role = account[call[c].user].role, !.phase = p]
  <2>1. InFlight(c) /\ call[c].phase = "checked" /\ call' = [call EXCEPT ![c] = new]
        /\ UNCHANGED <<account, server, browser, faults, strained, tripped>>
    BY <1>12 DEF LoadRoles, InFlight
  <2>2. call[c] \in Request /\ Shape(call[c], Len(minted))
    BY <2>1, InFlightTyped
  <2>3. call[c].user \in Users
    BY <2>1, <2>2 DEF Shape
  <2>4. account[call[c].user].role \in Role
    BY <1>0, <2>3 DEF Accounts
  <2>5. p \in Phases
    BY DEF Phases
  <2> HIDE DEF p
  <2>6. new \in Request /\ Shape(new, Len(minted))
    BY <2>1, <2>2, <2>3, <2>4, <2>5 DEF Request, Shape
  <2> HIDE DEF new
  <2> QED BY <1>0, <2>1, <2>6, Learn
<1>13. ASSUME NEW c \in Calls, StartFamily(c) PROVE Typed'
  BY <1>13, StartTyped
<1>14. ASSUME NEW c \in Calls, LogoutRevokes(c) PROVE Typed'
  <2>1. InFlight(c) /\ Step(c, "done") /\ UNCHANGED minted
        /\ UNCHANGED <<account, browser, faults, strained, tripped>>
    BY <1>14 DEF LogoutRevokes, RevokeFamily, server, At, InFlight
  <2>2. UNCHANGED server \/ RevokeFamily(FamilyOf(call[c].token))
    BY <1>14 DEF LogoutRevokes
  <2>3. TokensTyped' /\ StoreTyped'
    BY <2>2, ServerKept, FamilyRevoked
  <2>4. CallsTyped'
    BY <2>1, PhaseStep DEF Phases
  <2>5. ClientTyped'
    BY <1>0, <2>1 DEF Typed, ClientTyped, browser
  <2> QED BY <2>3, <2>4, <2>5 DEF Typed
<1>15. ASSUME NEW c \in Calls, InFlight(c), ClearSession(c)
       PROVE  tab' \in [Tabs -> Users \cup {Nobody}]
  BY <1>0, <1>15, InFlightTyped DEF ClearSession, Request
<1>16. ASSUME NEW c \in Calls, ReceiveTokens(c) PROVE Typed'
  <2>1. InFlight(c) /\ call[c].phase = "issued" /\ End(c) /\ cookie' = call[c].token
        /\ UNCHANGED <<account, server, faults, strained, tripped>>
    BY <1>16 DEF ReceiveTokens
  <2>2. call[c] \in Request /\ Shape(call[c], Len(minted))
    BY <2>1, InFlightTyped
  <2>3. cookie' \in 0 .. Len(minted)
    BY <1>0, <2>1, <2>2 DEF Request, Shape
  <2>4. call[c].user \in Users /\ call[c].tab \in Tabs
    BY <2>1, <2>2 DEF Request, Shape
  <2>5. tab' \in [Tabs -> Users \cup {Nobody}]
    BY <1>0, <1>16, <2>4 DEF ReceiveTokens
  <2> QED BY <1>0, <2>1, <2>3, <2>5, Ended
<1>17. ASSUME NEW c \in Calls, ReceiveRefusal(c) PROVE Typed'
  BY <1>0, <1>15, <1>17, Ended DEF ReceiveRefusal
<1>18. ASSUME NEW c \in Calls, ReceiveLogout(c) PROVE Typed'
  <2>1. InFlight(c) /\ End(c) /\ ClearSession(c) /\ cookie' = 0
        /\ UNCHANGED <<account, server, faults, strained, tripped>>
    BY <1>18 DEF ReceiveLogout, At, InFlight, NoToken
  <2>2. cookie' \in 0 .. Len(minted)
    BY <1>0, <2>1
  <2> QED BY <1>0, <1>15, <2>1, <2>2, Ended
<1>19. ASSUME NEW c \in Calls, LoseAnswer(c) PROVE Typed'
  <2>1. InFlight(c) /\ End(c) /\ ClearSession(c) /\ UNCHANGED <<account, server, cookie, tripped>>
        /\ strained' = TRUE /\ faults < MaxFaults /\ faults' = faults + 1
    BY <1>19 DEF LoseAnswer
  <2>2. faults' \in 0 .. MaxFaults
    BY <1>0, <2>1, SessionsAssumption
  <2> QED BY <1>0, <1>15, <2>1, <2>2, Ended
<1>23. ASSUME NEW c \in Calls, Fails(c) PROVE Typed'
  <2> DEFINE phase == IF call[c].kind = "logout" THEN "done" ELSE "refused"
  <2>1. /\ InFlight(c) /\ Step(c, phase) /\ UNCHANGED <<account, server, browser, tripped>>
        /\ faults < MaxFaults /\ faults' = faults + 1 /\ strained' \in BOOLEAN
    BY <1>0, <1>23 DEF Fails
  <2>2. phase \in Phases /\ phase \in {"done", "refused"} /\ (call[c].kind = "logout" => phase = "done")
    BY DEF Phases
  <2> HIDE DEF phase
  <2>3. CallsTyped'
    BY <2>1, <2>2, PhaseStep DEF server
  <2>4. TokensTyped' /\ StoreTyped'
    BY <2>1, ServerKept
  <2>5. faults' \in 0 .. MaxFaults
    BY <1>0, <2>1, SessionsAssumption
  <2>6. ClientTyped'
    BY <1>0, <2>1, <2>5 DEF Typed, ClientTyped, browser, server
  <2> QED BY <2>3, <2>4, <2>6 DEF Typed
<1>24. ASSUME NEW S, UNCHANGED <<minted, account, browser, call, strained, tripped>>,
              index' \subseteq index, unlisted' \subseteq unlisted \cup 1 .. Len(minted),
              live' = [f \in Tokens |-> IF f \in S THEN NoToken ELSE live[f]],
              faults < MaxFaults, faults' = faults + 1
       PROVE  Typed'
  <2>1. TokensTyped' /\ StoreTyped'
    BY <1>24, StoreRevoked
  <2>2. faults' \in 0 .. MaxFaults
    BY <1>0, <1>24, SessionsAssumption
  <2>3. ClientTyped'
    BY <1>0, <1>24, <2>2 DEF Typed, ClientTyped, browser
  <2>4. CallsTyped'
    BY <1>24 DEF Typed, CallsTyped, InFlight
  <2> QED BY <2>1, <2>3, <2>4 DEF Typed
<1>25. ASSUME NEW f \in Tokens, FamilyExpires(f) PROVE Typed'
  <2>1. live' = [g \in Tokens |-> IF g \in {f} THEN NoToken ELSE live[g]]
    BY <1>25 DEF FamilyExpires, Typed, StoreTyped
  <2> QED BY <1>24, <1>25, <2>1 DEF FamilyExpires
<1>26. ASSUME NEW u \in Users, IndexExpires(u) PROVE Typed'
  <2>1. \E S : live' = [f \in Tokens |-> IF f \in S THEN NoToken ELSE live[f]]
    BY <1>26, ListExpired
  <2> QED BY <1>24, <1>26, <2>1, ListExpired
<1>20. ASSUME NEW u \in Users, Disable(u) PROVE Typed'
  BY <1>0, <1>20, ChangeTyped DEF Disable, Accounts
<1>21. ASSUME NEW u \in Users, Demote(u) PROVE Typed'
  BY <1>0, <1>21, ChangeTyped DEF Demote, Accounts, Role
<1>22. CASE UNCHANGED vars
  <2>1. UNCHANGED <<account, server, browser, faults>> /\ UNCHANGED call
        /\ strained' \in BOOLEAN /\ tripped' \in BOOLEAN
    BY <1>0, <1>22 DEF vars
  <2>2. TokensTyped' /\ StoreTyped'
    BY <2>1, ServerKept
  <2>3. ClientTyped' /\ CallsTyped'
    BY <1>22 DEF vars, server, browser, Typed, ClientTyped, CallsTyped, InFlight
  <2> QED BY <2>2, <2>3 DEF Typed
<1> QED
  BY <1>1, <1>2, <1>3, <1>4, <1>5, <1>6, <1>7, <1>8, <1>9, <1>10, <1>11, <1>12, <1>13, <1>14,
     <1>16, <1>17, <1>18, <1>19, <1>20, <1>21, <1>22, <1>23, <1>25, <1>26 DEF Next

-----------------------------------------------------------------------------
\* The invariant behind TokenSpentOnce: a family's live token is one that has
\* not been exchanged yet.
LiveIsUnspent ==
  \A f \in Tokens, j \in 1 .. Len(minted) : live[f] # NoToken => minted[j].parent # live[f]
Spending == LiveIsUnspent /\ TokenSpentOnce

\* Minting is all that can hurt it: the parent is a family's live token, which
\* the new one replaces, or none.
LEMMA SpendingMinted ==
  ASSUME Typed, Spending, NEW u \in Users, NEW fam \in Tokens, NEW parent \in 0 .. Len(minted),
         fam <= Len(minted) + 1, Mint(u, fam, parent),
         live' = [live EXCEPT ![fam] = NextToken],
         parent = NoToken \/ live[fam] = parent
  PROVE  Spending'
<1>1. /\ Len(minted) \in Nat /\ Len(minted') = Len(minted) + 1 /\ NextToken \in Tokens
      /\ \A k \in 1 .. Len(minted) : minted'[k] = minted[k]
      /\ minted'[NextToken] = [user |-> u, fam |-> fam, parent |-> parent]
  BY Minting
<1>2. NextToken = Len(minted) + 1
  BY DEF NextToken
<1>3. \A k \in 1 .. Len(minted') : k \in 1 .. Len(minted) \/ k = NextToken
  BY <1>1, <1>2
<1>4. minted'[NextToken].parent = parent
  BY <1>1
<1>5. ASSUME NEW k \in 1 .. Len(minted)
      PROVE  minted'[k].parent = minted[k].parent /\ minted[k].parent \in 0 .. Len(minted)
  BY <1>1, TokenTyped
<1>6. ASSUME NEW f \in Tokens, NEW j \in 1 .. Len(minted'), live'[f] # NoToken
      PROVE  minted'[j].parent # live'[f]
  <2>1. minted'[j].parent \in 0 .. Len(minted)
    BY <1>3, <1>4, <1>5
  <2>2. CASE f = fam
    <3>1. live'[f] = NextToken
      BY <2>2 DEF Typed, StoreTyped
    <3> QED BY <1>1, <1>2, <2>1, <3>1
  <2>3. CASE f # fam
    <3>1. live'[f] = live[f]
      BY <2>3 DEF Typed, StoreTyped
    <3>2. CASE j \in 1 .. Len(minted)
      BY <1>5, <1>6, <3>1, <3>2 DEF Spending, LiveIsUnspent
    <3>3. CASE j = NextToken
      <4>1. live[f] # NoToken /\ FamilyOf(live[f]) = f
        BY <1>6, <3>1 DEF Typed, StoreTyped
      <4>2. parent # NoToken => FamilyOf(parent) = fam
        BY DEF Typed, StoreTyped
      <4> QED BY <1>4, <2>3, <3>1, <3>3, <4>1, <4>2
    <3> QED BY <1>3, <3>2, <3>3
  <2> QED BY <2>2, <2>3
<1>7. ASSUME NEW j \in 1 .. Len(minted'), NEW k \in 1 .. Len(minted'),
             minted'[j].parent = minted'[k].parent, minted'[j].parent # NoToken
      PROVE  j = k
  <2>1. CASE j \in 1 .. Len(minted) /\ k \in 1 .. Len(minted)
    BY <1>5, <1>7, <2>1 DEF Spending, TokenSpentOnce
  <2>2. CASE j = NextToken /\ k = NextToken
    BY <2>2
  <2>3. ASSUME NEW i \in 1 .. Len(minted), minted'[i].parent = parent, parent # NoToken PROVE FALSE
    <3>1. minted[i].parent = live[fam] /\ live[fam] # NoToken
      BY <1>5, <2>3
    <3> QED BY <3>1 DEF Spending, LiveIsUnspent
  <2> QED BY <1>3, <1>4, <1>7, <2>1, <2>2, <2>3
<1>8. LiveIsUnspent'
  BY <1>6 DEF LiveIsUnspent
<1>9. TokenSpentOnce'
  BY <1>7 DEF TokenSpentOnce
<1> QED BY <1>8, <1>9 DEF Spending

\* Everything else mints nothing and at most revokes.
LEMMA SpendingKept ==
  ASSUME Typed, Spending, UNCHANGED minted,
         \A f \in Tokens : live'[f] \in {NoToken, live[f]}
  PROVE  Spending'
<1>1. LiveIsUnspent'
  BY DEF Spending, LiveIsUnspent
<1>2. TokenSpentOnce'
  BY DEF Spending, TokenSpentOnce
<1> QED BY <1>1, <1>2 DEF Spending

\* Which steps mint, and what.
LEMMA MintsOrRevokes ==
  ASSUME Typed, [Next]_vars
  PROVE  \/ \E c \in Calls : Rotate(c)
         \/ \E c \in Calls : StartFamily(c)
         \/ UNCHANGED minted /\ \A f \in Tokens : live'[f] \in {NoToken, live[f]}
<1>1. ASSUME NEW f, RevokeFamily(f)
      PROVE  UNCHANGED minted /\ \A g \in Tokens : live'[g] \in {NoToken, live[g]}
  BY <1>1 DEF RevokeFamily, Typed, StoreTyped
<1>2. ASSUME NEW c \in Calls, RevokeAllCommit(c)
      PROVE  UNCHANGED minted /\ \A g \in Tokens : live'[g] \in {NoToken, live[g]}
  BY <1>2 DEF RevokeAllCommit
<1>4. ASSUME NEW f \in Tokens, FamilyExpires(f)
      PROVE  UNCHANGED minted /\ \A g \in Tokens : live'[g] \in {NoToken, live[g]}
  BY <1>4 DEF FamilyExpires, Typed, StoreTyped
<1>5. ASSUME NEW u \in Users, IndexExpires(u)
      PROVE  UNCHANGED minted /\ \A g \in Tokens : live'[g] \in {NoToken, live[g]}
  BY <1>5, ListExpired
<1>3. ASSUME UNCHANGED server
      PROVE  UNCHANGED minted /\ \A g \in Tokens : live'[g] \in {NoToken, live[g]}
  BY <1>3 DEF server
<1> QED
  BY <1>1, <1>2, <1>3, <1>4, <1>5 DEF Next, vars, RefreshAccessToken, Login, Logout,
     RefreshUnknown, Fails, RefreshReused, RevokeReused, RefreshChecked, RevokeAllRead, LoginChecked, LoadRoles,
     LogoutRevokes, ReceiveTokens, ReceiveRefusal, ReceiveLogout, LoseAnswer, Disable, Demote,
     Change

LEMMA SpendingStep == Typed /\ Spending /\ [Next]_vars => Spending'
<1> SUFFICES ASSUME Typed, Spending, [Next]_vars PROVE Spending'
  OBVIOUS
<1>1. ASSUME NEW c \in Calls, Rotate(c) PROVE Spending'
  <2> DEFINE k == call[c].token
             u == minted[k].user
  <2>1. /\ InFlight(c) /\ k # NoToken /\ live[FamilyOf(k)] = k
        /\ Mint(u, FamilyOf(k), k) /\ live' = [live EXCEPT ![FamilyOf(k)] = NextToken]
    BY <1>1 DEF Rotate, At, InFlight, RotateOutcome
  <2>2. k \in 1 .. Len(minted) /\ Len(minted) \in Nat
    BY <2>1, InFlightTyped DEF Request, Shape, NoToken
  <2>3. u \in Users /\ FamilyOf(k) \in Tokens /\ FamilyOf(k) <= Len(minted) + 1
        /\ k \in 0 .. Len(minted)
    BY <2>2, TokenTyped DEF Tokens
  <2> HIDE DEF k, u
  <2> QED BY <2>1, <2>3, SpendingMinted
<1>2. ASSUME NEW c \in Calls, StartFamily(c) PROVE Spending'
  <2> DEFINE u == call[c].user
             fam == NextToken
  <2>1. /\ InFlight(c) /\ call[c].kind = "login"
        /\ Mint(u, fam, NoToken) /\ live' = [live EXCEPT ![fam] = NextToken]
    BY <1>2 DEF StartFamily, At, InFlight
  <2>2. u \in Users /\ Len(minted) \in Nat
    BY <2>1, InFlightTyped DEF Shape
  <2>3. fam \in Tokens /\ fam <= Len(minted) + 1 /\ NoToken \in 0 .. Len(minted)
    BY <2>1, <2>2, SessionsAssumption DEF Mint, NextToken, Tokens, NoToken
  <2> HIDE DEF u, fam
  <2> QED BY <2>1, <2>2, <2>3, SpendingMinted
<1> QED BY <1>1, <1>2, MintsOrRevokes, SpendingKept

-----------------------------------------------------------------------------
\* The invariant behind FreshAuthority: from the moment the server takes a
\* request up, `since' holds what the account is now, and what was read.
Fresh(q, accounts) ==
  /\ q.phase \in {"rotated", "checked", "signing", "issued"} => accounts[q.user] \in q.since
  /\ q.phase \in {"checked", "signing", "issued"} => \E a \in q.since : a.active
  /\ q.phase \in {"signing", "issued"} => \E a \in q.since : a.role = q.role
Authority == \A c \in Calls : InFlight(c) => Fresh(call[c], account)

\* A step that touches one request, and no account.
LEMMA AuthorityOfOne ==
  ASSUME Typed, Authority, UNCHANGED account, NEW c \in Calls, NEW new,
         call' = [call EXCEPT ![c] = new], new # Idle => Fresh(new, account)
  PROVE  Authority'
<1>1. \A d \in Calls : call'[d] = IF d = c THEN new ELSE call[d]
  BY DEF Typed, CallsTyped
<1>2. ASSUME NEW d \in Calls, call'[d] # Idle PROVE Fresh(call'[d], account)
  BY <1>1, <1>2 DEF Authority, InFlight
<1> QED BY <1>2 DEF Authority, InFlight

LEMMA AuthorityStep == Typed /\ Authority /\ [Next]_vars => Authority'
<1> SUFFICES ASSUME Typed, Authority, [Next]_vars PROVE Authority'
  OBVIOUS
<1>1. ASSUME NEW c \in Calls, InFlight(c), NEW phase, Step(c, phase), UNCHANGED account,
             phase \notin {"rotated", "checked", "signing", "issued"}
      PROVE  Authority'
  <2> DEFINE new == [call[c] EXCEPT !.phase = phase]
  <2>1. Fresh(new, account) /\ call' = [call EXCEPT ![c] = new]
    BY <1>1, InFlightTyped DEF Fresh, Request, Step
  <2> HIDE DEF new
  <2> QED BY <1>1, <2>1, AuthorityOfOne
<1>2. ASSUME NEW c \in Calls, NEW t, NEW kind, NEW u, NEW k, Send(c, kind, t, u, k),
             UNCHANGED account
      PROVE  Authority'
  <2> DEFINE new == [kind |-> kind, tab |-> t, phase |-> "sent", user |-> u, token |-> k,
                     boot |-> tab[t] = Nobody, role |-> NoRole, since |-> {}, families |-> {}]
  <2>1. Fresh(new, account) /\ call' = [call EXCEPT ![c] = new]
    BY <1>2 DEF Fresh, Send
  <2> HIDE DEF new
  <2> QED BY <1>2, <2>1, AuthorityOfOne
<1>3. ASSUME NEW c \in Calls, End(c), UNCHANGED account PROVE Authority'
  BY <1>3, AuthorityOfOne DEF End
<1>4. ASSUME NEW u \in Users PROVE account[u] \in Accounts /\ Account(u) = account[u]
  BY DEF Typed, ClientTyped, Account, Accounts
<1>5. ASSUME NEW c \in Calls, Rotate(c) PROVE Authority'
  <2> DEFINE k == call[c].token
             u == minted[k].user
             new == [call[c] EXCEPT !.phase = "rotated", !.user = u, !.token = NextToken,
                                    !.since = {Account(u)}]
  <2>1. /\ InFlight(c) /\ k # NoToken /\ UNCHANGED account /\ call' = [call EXCEPT ![c] = new]
    BY <1>5 DEF Rotate, At, InFlight, RotateOutcome
  <2>2. k \in 1 .. Len(minted) /\ call[c] \in Request
    BY <2>1, InFlightTyped DEF Request, Shape, NoToken
  <2>3. Account(u) = account[u]
    BY <1>4, <2>2, TokenTyped
  <2>4. new.phase = "rotated" /\ new.user = u /\ new.since = {Account(u)}
    BY <2>2 DEF Request
  <2>5. Fresh(new, account)
    BY <2>3, <2>4 DEF Fresh
  <2> HIDE DEF new
  <2> QED BY <2>1, <2>5, AuthorityOfOne
<1>6. ASSUME NEW c \in Calls, RefreshChecked(c) PROVE Authority'
  <2> DEFINE new == [call[c] EXCEPT !.phase = "checked"]
  <2>1. /\ InFlight(c) /\ call[c].phase = "rotated" /\ account[call[c].user].active
        /\ UNCHANGED account /\ call' = [call EXCEPT ![c] = new]
    BY <1>6 DEF RefreshChecked, At, InFlight, MaySignIn, Step
  <2>2. new.phase = "checked" /\ new.user = call[c].user /\ new.since = call[c].since
    BY <2>1, InFlightTyped DEF Request
  <2>3. account[call[c].user] \in call[c].since
    BY <2>1 DEF Authority, Fresh
  <2>4. Fresh(new, account)
    BY <2>1, <2>2, <2>3 DEF Fresh
  <2> HIDE DEF new
  <2> QED BY <2>1, <2>4, AuthorityOfOne
<1>7. ASSUME NEW c \in Calls, RevokeAllRead(c) PROVE Authority'
  <2> DEFINE new == [call[c] EXCEPT !.phase = "revoking", !.families = FamiliesOf(call[c].user)]
  <2>1. InFlight(c) /\ call' = [call EXCEPT ![c] = new] /\ UNCHANGED account
    BY <1>7 DEF RevokeAllRead, At, InFlight
  <2>2. new.phase = "revoking"
    BY <2>1, InFlightTyped DEF Request
  <2>3. Fresh(new, account)
    BY <2>2 DEF Fresh
  <2> HIDE DEF new
  <2> QED BY <2>1, <2>3, AuthorityOfOne
<1>8. ASSUME NEW c \in Calls, LoginChecked(c) PROVE Authority'
  <2> DEFINE u == call[c].user
             new == [call[c] EXCEPT !.phase = IF MaySignIn(u) THEN "checked" ELSE "refused",
                                    !.since = {Account(u)}]
  <2>1. /\ InFlight(c) /\ call[c].kind = "login" /\ UNCHANGED account
        /\ call' = [call EXCEPT ![c] = new]
    BY <1>8 DEF LoginChecked, At, InFlight
  <2>2. call[c] \in Request /\ Account(u) = account[u]
    BY <1>4, <2>1, InFlightTyped DEF Shape
  <2>3. /\ new.user = u /\ new.since = {Account(u)}
        /\ new.phase = IF MaySignIn(u) THEN "checked" ELSE "refused"
    BY <2>2 DEF Request
  <2> HIDE DEF u, new
  <2>4. Fresh(new, account)
    BY <2>2, <2>3 DEF Fresh, MaySignIn
  <2> QED BY <2>1, <2>4, AuthorityOfOne
<1>9. ASSUME NEW c \in Calls, LoadRoles(c) PROVE Authority'
  <2> DEFINE u == call[c].user
             new == [call[c] EXCEPT !.role = account[u].role,
                                    !.phase = IF call[c].kind = "login" THEN "signing"
                                              ELSE "issued"]
  <2>1. /\ InFlight(c) /\ call[c].phase = "checked" /\ UNCHANGED account
        /\ call' = [call EXCEPT ![c] = new]
    BY <1>9 DEF LoadRoles, InFlight
  <2>2. /\ new.user = u /\ new.since = call[c].since /\ new.role = account[u].role
        /\ new.phase \in {"signing", "issued"}
    BY <2>1, InFlightTyped DEF Request
  <2>3. account[u] \in call[c].since /\ \E a \in call[c].since : a.active
    BY <2>1 DEF Authority, Fresh
  <2> HIDE DEF u, new
  <2>4. Fresh(new, account)
    BY <2>2, <2>3 DEF Fresh
  <2> QED BY <2>1, <2>4, AuthorityOfOne
<1>10. ASSUME NEW c \in Calls, StartFamily(c) PROVE Authority'
  <2> DEFINE new == [call[c] EXCEPT !.phase = "issued", !.token = NextToken]
  <2>1. /\ InFlight(c) /\ call[c].phase = "signing" /\ UNCHANGED account
        /\ call' = [call EXCEPT ![c] = new]
    BY <1>10 DEF StartFamily, At, InFlight
  <2>2. /\ new.user = call[c].user /\ new.since = call[c].since /\ new.role = call[c].role
        /\ new.phase = "issued"
    BY <2>1, InFlightTyped DEF Request
  <2>3. Fresh(call[c], account)
    BY <2>1 DEF Authority
  <2> HIDE DEF new
  <2>4. Fresh(new, account)
    BY <2>1, <2>2, <2>3 DEF Fresh
  <2> QED BY <2>1, <2>4, AuthorityOfOne
<1>11. ASSUME NEW u \in Users, NEW a \in Accounts, Change(u, a) PROVE Authority'
  <2>1. /\ account' = [account EXCEPT ![u] = a] /\ account \in [Users -> Accounts]
        /\ \A c \in Calls : call'[c] =
             IF InFlight(c) /\ call[c].user = u /\ call[c].since # {}
             THEN [call[c] EXCEPT !.since = @ \cup {a}] ELSE call[c]
    BY <1>11 DEF Change, Typed, ClientTyped
  <2>2. ASSUME NEW c \in Calls, call'[c] # Idle PROVE Fresh(call'[c], account')
    <3>1. InFlight(c) /\ Fresh(call[c], account) /\ call[c] \in Request
          /\ Shape(call[c], Len(minted))
      BY <2>1, <2>2, InFlightTyped DEF InFlight, Authority
    <3>2. CASE call[c].user = u /\ call[c].since # {}
      <4> DEFINE new == [call[c] EXCEPT !.since = @ \cup {a}]
      <4>1. /\ call'[c] = new /\ new.since = call[c].since \cup {a} /\ new.user = u
            /\ new.phase = call[c].phase /\ new.role = call[c].role
        BY <2>1, <3>1, <3>2 DEF Request
      <4>2. account'[u] = a
        BY <2>1
      <4> HIDE DEF new
      <4> QED BY <3>1, <4>1, <4>2 DEF Fresh
    <3>3. CASE ~(call[c].user = u /\ call[c].since # {})
      <4>1. call'[c] = call[c]
        BY <2>1, <3>3
      <4>2. ASSUME call[c].phase \in {"rotated", "checked", "signing", "issued"}
            PROVE  account'[call[c].user] = account[call[c].user]
        <5>1. call[c].user \in Users /\ call[c].since # {}
          BY <3>1, <4>2 DEF Fresh, Shape
        <5> QED BY <2>1, <3>3, <5>1
      <4> QED BY <3>1, <4>1, <4>2 DEF Fresh
    <3> QED BY <3>2, <3>3
  <2> QED BY <2>2 DEF Authority, InFlight
<1>12. ASSUME NEW u \in Users, Disable(u) \/ Demote(u) PROVE Authority'
  <2>1. \E a \in Accounts : Change(u, a)
    BY <1>4, <1>12 DEF Disable, Demote, Accounts, Role
  <2> QED BY <1>11, <2>1
<1>13. CASE UNCHANGED vars
  BY <1>13 DEF vars, Authority, InFlight
<1>14. ASSUME NEW c \in Calls,
              \/ RefreshUnknown(c) \/ RefreshReused(c) \/ RevokeReused(c) \/ RevokeAllCommit(c)
              \/ LogoutRevokes(c) \/ Fails(c)
       PROVE  Authority'
  <2>1. InFlight(c) /\ UNCHANGED account
        /\ \E phase \in {"refused", "reused", "done"} : Step(c, phase)
    BY <1>14 DEF RefreshUnknown, RefreshReused, RevokeReused, RevokeAllCommit, LogoutRevokes,
       Fails, At, InFlight
  <2> QED BY <1>1, <2>1
<1>15. ASSUME UNCHANGED <<account, call>> PROVE Authority'
  BY <1>15 DEF Authority, InFlight
<1> QED
  BY <1>2, <1>3, <1>5, <1>6, <1>7, <1>8, <1>9, <1>10, <1>12, <1>13, <1>14, <1>15, ListExpired
     DEF Next, FamilyExpires, RefreshAccessToken, Login, Logout, ReceiveTokens, ReceiveRefusal, ReceiveLogout,
     LoseAnswer

-----------------------------------------------------------------------------
\* Why reuse detection never strikes an honest browser: as long as no two tabs
\* refresh at once, no new token is lost and nobody is disabled, the token the
\* browser will send next is the live one of its family or the family is gone.
Excused == strained \/ \E u \in Users : ~account[u].active
Good(t, tokens, store) == t = NoToken \/ store[tokens[t].fam] \in {NoToken, t}

\* The request still works with its token, or carries it to the browser.
Holding(c) ==
  InFlight(c) /\ \/ call[c].kind = "refresh" /\ call[c].phase # "refused"
                 \/ call[c].kind = "login" /\ call[c].phase = "issued"
NewFamily(c) == InFlight(c) /\ call[c].kind = "login" /\ call[c].phase = "issued"
\* The cookie is behind by one, and this request brings its successor.
Covering(c) ==
  /\ InFlight(c) /\ call[c].kind = "refresh" /\ call[c].phase \in {"rotated", "checked", "issued"}
  /\ call[c].token # NoToken

OneRefresh  == \A c, d \in Calls : Refreshing(c) /\ Refreshing(d) => c = d
NoRevoking  == \A c \in Calls : Refreshing(c) => call[c].phase \notin {"reused", "revoking"}
HeldIsGood  == \A c \in Calls : Holding(c) => Good(call[c].token, minted, live)
FamiliesApart ==
  \A c \in Calls : NewFamily(c) =>
    /\ call[c].token # NoToken
    /\ cookie # NoToken => FamilyOf(cookie) # FamilyOf(call[c].token)
    /\ \A d \in Calls : d # c /\ Holding(d) /\ call[d].token # NoToken
                          => FamilyOf(call[d].token) # FamilyOf(call[c].token)
CookieIsGood ==
  \/ Good(cookie, minted, live)
  \/ \E c \in Calls : Covering(c) /\ FamilyOf(call[c].token) = FamilyOf(cookie)
SafeClient == ~tripped /\ OneRefresh /\ NoRevoking /\ HeldIsGood /\ FamiliesApart /\ CookieIsGood
Safe == Excused \/ SafeClient

\* Steps that mint nothing, give no request a token and leave the cookie alone.
LEMMA SafeKept ==
  ASSUME Typed, SafeClient, UNCHANGED <<minted, cookie, tripped>>,
         \A f \in Tokens : live'[f] \in {NoToken, live[f]},
         \A c \in Calls :
           /\ Refreshing(c)' => Refreshing(c) /\ call'[c].phase \notin {"reused", "revoking"}
           /\ Holding(c)' => Holding(c) /\ call'[c].token = call[c].token
           /\ NewFamily(c)' => NewFamily(c)
           /\ Covering(c) => Covering(c)' /\ call'[c].token = call[c].token
  PROVE  SafeClient'
<1>1. ASSUME NEW t \in 0 .. Len(minted), Good(t, minted, live) PROVE Good(t, minted', live')
  <2>1. t # NoToken => FamilyOf(t) \in Tokens
    BY TokenTyped DEF Typed, TokensTyped, NoToken
  <2> QED BY <1>1, <2>1 DEF Good, FamilyOf
<1>2. ~tripped' /\ OneRefresh' /\ NoRevoking'
  BY DEF SafeClient, OneRefresh, NoRevoking
<1>3. HeldIsGood'
  <2>1. ASSUME NEW c \in Calls, Holding(c)' PROVE Good(call'[c].token, minted', live')
    <3>1. Holding(c) /\ call'[c].token = call[c].token
      BY <2>1
    <3>2. call[c].token \in 0 .. Len(minted) /\ Good(call[c].token, minted, live)
      BY <3>1, InFlightTyped DEF Holding, Request, Shape, SafeClient, HeldIsGood
    <3> QED BY <1>1, <3>1, <3>2
  <2> QED BY <2>1 DEF HeldIsGood, Good
<1>4. FamiliesApart'
  <2>2. ASSUME NEW c \in Calls, NewFamily(c)'
        PROVE  /\ NewFamily(c) /\ call'[c].token = call[c].token
               /\ call[c].token # NoToken
               /\ cookie # NoToken => minted[cookie].fam # minted[call[c].token].fam
    <3>1. NewFamily(c) /\ Holding(c)'
      BY <2>2 DEF NewFamily, Holding
    <3> QED BY <3>1 DEF SafeClient, FamiliesApart, FamilyOf
  <2>3. ASSUME NEW c \in Calls, NewFamily(c)', NEW d \in Calls, d # c, Holding(d)',
               call'[d].token # NoToken
        PROVE  minted'[call'[d].token].fam # minted'[call'[c].token].fam
    <3>1. Holding(d) /\ call'[d].token = call[d].token
      BY <2>3
    <3>2. NewFamily(c) /\ call'[c].token = call[c].token
      BY <2>2, <2>3
    <3> QED BY <2>3, <3>1, <3>2 DEF SafeClient, FamiliesApart, FamilyOf
  <2> QED BY <2>2, <2>3 DEF FamiliesApart, FamilyOf
<1>5. CookieIsGood'
  <2>1. CASE Good(cookie, minted, live)
    <3>1. cookie \in 0 .. Len(minted)
      BY DEF Typed, ClientTyped
    <3>2. Good(cookie', minted', live')
      BY <1>1, <2>1, <3>1
    <3> QED BY <3>2 DEF CookieIsGood, Good
  <2>2. ASSUME NEW c \in Calls, Covering(c), FamilyOf(call[c].token) = FamilyOf(cookie)
        PROVE  CookieIsGood'
    BY <2>2 DEF CookieIsGood, FamilyOf
  <2> QED BY <2>1, <2>2 DEF SafeClient, CookieIsGood
<1> QED BY <1>2, <1>3, <1>4, <1>5 DEF SafeClient

\* One request moves on, ends or begins without taking a token.
LEMMA SafeOfOne ==
  ASSUME Typed, SafeClient, UNCHANGED <<minted, cookie, tripped>>,
         \A f \in Tokens : live'[f] \in {NoToken, live[f]},
         NEW c \in Calls, NEW new, call' = [call EXCEPT ![c] = new],
         new # Idle /\ new.kind = "refresh" =>
           /\ Refreshing(c) /\ new.phase \notin {"reused", "revoking"}
           /\ new.token = call[c].token
           /\ new.phase # "refused" => call[c].phase # "refused",
         new # Idle /\ new.kind = "login" => new.phase # "issued",
         Covering(c) => /\ new # Idle /\ new.kind = "refresh" /\ new.token = call[c].token
                        /\ new.phase \in {"rotated", "checked", "issued"}
  PROVE  SafeClient'
<1>1. \A d \in Calls : call'[d] = IF d = c THEN new ELSE call[d]
  BY DEF Typed, CallsTyped
<1>2. ASSUME NEW d \in Calls
      PROVE  /\ Refreshing(d)' => Refreshing(d) /\ call'[d].phase \notin {"reused", "revoking"}
             /\ Holding(d)' => Holding(d) /\ call'[d].token = call[d].token
             /\ NewFamily(d)' => NewFamily(d)
             /\ Covering(d) => Covering(d)' /\ call'[d].token = call[d].token
  <2>1. CASE d # c
    BY <1>1, <2>1 DEF Refreshing, Holding, NewFamily, Covering, InFlight, SafeClient, NoRevoking
  <2>2. CASE d = c
    BY <1>1, <2>2 DEF Refreshing, Holding, NewFamily, Covering, InFlight
  <2> QED BY <2>1, <2>2
<1> QED BY <1>2, SafeKept

\* What is known of the tokens requests and browser hold.
LEMMA HeldTyped ==
  ASSUME Typed
  PROVE  /\ Len(minted) \in Nat /\ cookie \in 0 .. Len(minted)
         /\ \A c \in Calls : InFlight(c) => call[c].token \in 0 .. Len(minted)
BY DEF Typed, TokensTyped, ClientTyped, CallsTyped, InFlight, Request, Shape

\* A tab asks for new tokens with the cookie, alone.
LEMMA SafeAsk ==
  ASSUME Typed, SafeClient, NEW c \in Calls, NEW t \in Tabs, RefreshAccessToken(c, t), ~strained'
  PROVE  SafeClient'
<1>1. \A d \in Calls : ~Refreshing(d)
  BY DEF RefreshAccessToken, RefreshOnce
<1>2. Good(cookie, minted, live)
  BY <1>1 DEF SafeClient, CookieIsGood, Covering, Refreshing
<1>3. /\ \A d \in Calls : d # c => call'[d] = call[d]
      /\ call'[c] # Idle /\ call'[c].kind = "refresh" /\ call'[c].phase = "sent"
      /\ call'[c].token = cookie /\ UNCHANGED <<minted, live, cookie, tripped>>
  BY DEF RefreshAccessToken, Send, server, browser, Idle, Typed, CallsTyped
<1>4. \A d \in Calls : Holding(d)' => d = c \/ Holding(d)
  BY <1>3 DEF Holding, InFlight
<1>5. \A d \in Calls : NewFamily(d)' => d # c /\ NewFamily(d)
  BY <1>3 DEF NewFamily, InFlight
<1>6. \A d \in Calls : Refreshing(d)' => d = c
  BY <1>1, <1>3 DEF Refreshing, InFlight
<1>7. OneRefresh' /\ NoRevoking' /\ ~tripped'
  BY <1>3, <1>6 DEF SafeClient, OneRefresh, NoRevoking
<1>8. HeldIsGood'
  <2>1. ASSUME NEW d \in Calls, Holding(d)' PROVE Good(call'[d].token, minted', live')
    BY <1>2, <1>3, <1>4, <2>1 DEF SafeClient, HeldIsGood
  <2> QED BY <2>1 DEF HeldIsGood, Good
<1>9. FamiliesApart'
  <2>1. ASSUME NEW e \in Calls, NewFamily(e)'
        PROVE  /\ e # c /\ NewFamily(e) /\ call'[e] = call[e] /\ call[e].token # NoToken
               /\ cookie # NoToken => minted[cookie].fam # minted[call[e].token].fam
    BY <1>3, <1>5, <2>1 DEF SafeClient, FamiliesApart, FamilyOf
  <2>2. ASSUME NEW e \in Calls, NewFamily(e)', NEW d \in Calls, d # e, Holding(d)',
               call'[d].token # NoToken
        PROVE  minted'[call'[d].token].fam # minted'[call'[e].token].fam
    <3>1. CASE d = c
      BY <1>3, <2>1, <2>2, <3>1
    <3>2. CASE d # c
      <4>1. Holding(d) /\ call'[d] = call[d]
        BY <1>3, <1>4, <2>2, <3>2
      <4> QED BY <1>3, <2>1, <2>2, <4>1 DEF SafeClient, FamiliesApart, FamilyOf
    <3> QED BY <3>1, <3>2
  <2> QED BY <1>3, <2>1, <2>2 DEF FamiliesApart, FamilyOf
<1>10. CookieIsGood'
  BY <1>2, <1>3 DEF CookieIsGood, Good
<1> QED BY <1>7, <1>8, <1>9, <1>10 DEF SafeClient

\* A token is exchanged: its family moves on, and the request covers the cookie.
LEMMA SafeRotate ==
  ASSUME Typed, SafeClient, NEW c \in Calls, Rotate(c) PROVE SafeClient'
<1> DEFINE k == call[c].token
           fam == FamilyOf(k)
           u == minted[k].user
<1>1. /\ InFlight(c) /\ call[c].kind = "refresh" /\ call[c].phase = "sent" /\ k # NoToken
      /\ Mint(u, fam, k) /\ live' = [live EXCEPT ![fam] = NextToken]
      /\ UNCHANGED <<cookie, tripped>>
  BY DEF Rotate, At, InFlight, RotateOutcome, browser
<1>2. Len(minted) \in Nat /\ k \in 1 .. Len(minted) /\ k \in 0 .. Len(minted)
  BY <1>1, HeldTyped DEF NoToken
<1>3. u \in Users /\ fam \in Tokens /\ fam <= Len(minted) + 1
  BY <1>2, TokenTyped DEF Tokens
<1> HIDE DEF k, fam, u
<1>4. /\ NextToken \in Tokens
      /\ \A j \in 1 .. Len(minted) : minted'[j] = minted[j]
      /\ minted'[NextToken].fam = fam
  <2>1. /\ NextToken \in Tokens
        /\ \A j \in 1 .. Len(minted) : minted'[j] = minted[j]
        /\ minted'[NextToken] = [user |-> u, fam |-> fam, parent |-> k]
    BY <1>1, <1>2, <1>3, Minting
  <2> QED BY <2>1
<1>5. NextToken # NoToken /\ live'[fam] = NextToken
      /\ \A f \in Tokens : f # fam => live'[f] = live[f]
  <2>1. NextToken # NoToken
    BY <1>2 DEF NextToken, NoToken
  <2>2. live \in [Tokens -> Nat]
    BY DEF Typed, StoreTyped
  <2> QED BY <1>1, <1>3, <2>1, <2>2
<1>6. /\ \A d \in Calls : d # c => call'[d] = call[d]
      /\ InFlight(c)' /\ call'[c].kind = "refresh" /\ call'[c].phase = "rotated"
      /\ call'[c].token = NextToken
  BY <1>1, InFlightTyped DEF Rotate, InFlight, Idle, Request, Typed, CallsTyped
<1>7. Refreshing(c) /\ Holding(c) /\ fam = minted[k].fam /\ k = call[c].token
  BY <1>1 DEF Refreshing, Holding, fam, k, FamilyOf
<1>8. ASSUME NEW s \in 0 .. Len(minted), s # NoToken
      PROVE  s \in 1 .. Len(minted) /\ minted'[s] = minted[s] /\ minted[s].fam \in Tokens
  <2>1. s \in 1 .. Len(minted)
    BY <1>2, <1>8 DEF NoToken
  <2> QED BY <1>4, <2>1, TokenTyped DEF FamilyOf
<1>9. ASSUME NEW s \in 0 .. Len(minted), Good(s, minted, live), s = NoToken \/ minted[s].fam # fam
      PROVE  Good(s, minted', live')
  BY <1>5, <1>8, <1>9 DEF Good
<1>10. ~tripped' /\ OneRefresh' /\ NoRevoking'
  <2>1. \A d \in Calls : Refreshing(d)' => Refreshing(d) /\ (d = c \/ call'[d] = call[d])
    BY <1>6, <1>7 DEF Refreshing, InFlight
  <2> QED BY <1>1, <1>6, <2>1 DEF SafeClient, OneRefresh, NoRevoking
<1>11. ASSUME NEW e \in Calls, NewFamily(e)'
       PROVE  /\ e # c /\ NewFamily(e) /\ call'[e] = call[e] /\ call[e].token \in 0 .. Len(minted)
              /\ call[e].token # NoToken /\ minted[call[e].token].fam # fam
  <2>1. e # c /\ NewFamily(e) /\ call'[e] = call[e]
    BY <1>6, <1>11 DEF NewFamily, InFlight
  <2>2. call[e].token \in 0 .. Len(minted)
    BY <2>1, HeldTyped DEF NewFamily
  <2> QED BY <1>1, <1>7, <2>1, <2>2 DEF SafeClient, FamiliesApart, FamilyOf
<1>12. ASSUME NEW d \in Calls, d # c, Holding(d)' PROVE Holding(d) /\ NewFamily(d)' /\ call'[d] = call[d]
  <2>1. Holding(d) /\ call'[d] = call[d]
    BY <1>6, <1>12 DEF Holding, InFlight
  <2>2. ~Refreshing(d)
    BY <1>7, <1>12 DEF SafeClient, OneRefresh
  <2> QED BY <2>1, <2>2 DEF Holding, Refreshing, NewFamily, InFlight
<1>13. HeldIsGood'
  <2>1. ASSUME NEW d \in Calls, Holding(d)' PROVE Good(call'[d].token, minted', live')
    <3>1. CASE d = c
      BY <1>4, <1>5, <1>6, <3>1 DEF Good
    <3>2. CASE d # c
      <4>1. Holding(d) /\ call'[d] = call[d] /\ call[d].token \in 0 .. Len(minted)
            /\ minted[call[d].token].fam # fam
        BY <1>11, <1>12, <2>1, <3>2
      <4>2. Good(call[d].token, minted, live)
        BY <4>1 DEF SafeClient, HeldIsGood
      <4> QED BY <1>9, <4>1, <4>2
    <3> QED BY <3>1, <3>2
  <2> QED BY <2>1 DEF HeldIsGood, Good
<1>14. FamiliesApart'
  <2>1. ASSUME NEW e \in Calls, NewFamily(e)', cookie' # NoToken
        PROVE  minted'[cookie'].fam # minted'[call'[e].token].fam
    <3>1. cookie' = cookie /\ cookie \in 0 .. Len(minted)
      BY <1>1, HeldTyped
    <3>2. minted'[cookie] = minted[cookie] /\ minted'[call[e].token] = minted[call[e].token]
      BY <1>8, <1>11, <2>1, <3>1
    <3> QED BY <1>11, <2>1, <3>1, <3>2 DEF SafeClient, FamiliesApart, FamilyOf
  <2>2. ASSUME NEW e \in Calls, NewFamily(e)', NEW d \in Calls, d # e, Holding(d)',
               call'[d].token # NoToken
        PROVE  minted'[call'[d].token].fam # minted'[call'[e].token].fam
    <3>1. minted'[call'[e].token].fam = minted[call[e].token].fam
      BY <1>8, <1>11, <2>2
    <3>2. CASE d = c
      BY <1>4, <1>6, <1>11, <2>2, <3>1, <3>2
    <3>3. CASE d # c
      <4>1. Holding(d) /\ call'[d] = call[d] /\ minted'[call[d].token] = minted[call[d].token]
        BY <1>8, <1>11, <1>12, <2>2, <3>3
      <4> QED BY <1>11, <2>2, <3>1, <4>1 DEF SafeClient, FamiliesApart, FamilyOf
    <3> QED BY <3>2, <3>3
  <2> QED BY <1>11, <2>1, <2>2 DEF FamiliesApart, FamilyOf
<1>15. CookieIsGood'
  <2>1. cookie' = cookie /\ cookie \in 0 .. Len(minted)
    BY <1>1, HeldTyped
  <2>2. CASE cookie # NoToken /\ minted[cookie].fam = fam
    <3>1. minted'[cookie'].fam = minted'[call'[c].token].fam
      BY <1>4, <1>6, <1>8, <2>1, <2>2
    <3>2. Covering(c)'
      BY <1>5, <1>6 DEF Covering
    <3> QED BY <3>1, <3>2 DEF CookieIsGood, FamilyOf
  <2>3. CASE cookie = NoToken \/ minted[cookie].fam # fam
    <3>1. \A d \in Calls : Covering(d) => d = c /\ call[c].phase # "sent"
      BY <1>7 DEF SafeClient, OneRefresh, Covering, Refreshing
    <3>2. Good(cookie, minted, live)
      BY <1>1, <3>1 DEF SafeClient, CookieIsGood
    <3>3. Good(cookie', minted', live')
      BY <1>9, <2>1, <2>3, <3>2
    <3> QED BY <3>3 DEF CookieIsGood, Good
  <2> QED BY <2>2, <2>3
<1> QED BY <1>10, <1>13, <1>14, <1>15 DEF SafeClient

\* A login starts a family nobody else has a token of.
LEMMA SafeStart ==
  ASSUME Typed, SafeClient, NEW c \in Calls, StartFamily(c) PROVE SafeClient'
<1> DEFINE fam == NextToken
           u == call[c].user
<1>1. /\ InFlight(c) /\ call[c].kind = "login" /\ call[c].phase = "signing"
      /\ Mint(u, fam, NoToken) /\ live' = [live EXCEPT ![fam] = fam]
      /\ UNCHANGED <<cookie, tripped>> /\ fam = NextToken
  BY DEF StartFamily, At, InFlight, browser
<1>2. Len(minted) \in Nat /\ NoToken \in 0 .. Len(minted) /\ fam = Len(minted) + 1
  BY <1>1, HeldTyped DEF NoToken, NextToken
<1>3. u \in Users /\ fam \in Tokens /\ fam <= Len(minted) + 1 /\ fam # NoToken
  BY <1>1, <1>2, SessionsAssumption, InFlightTyped DEF Shape, Mint, Tokens, NoToken
<1> HIDE DEF u, fam
<1>4. /\ \A j \in 1 .. Len(minted) : minted'[j] = minted[j]
      /\ minted'[fam].fam = fam
  <2>1. /\ \A j \in 1 .. Len(minted) : minted'[j] = minted[j]
        /\ minted'[NextToken] = [user |-> u, fam |-> fam, parent |-> NoToken]
    BY <1>1, <1>2, <1>3, Minting
  <2> QED BY <1>1, <2>1
<1>5. live'[fam] = fam /\ \A f \in Tokens : f # fam => live'[f] = live[f]
  <2>1. live \in [Tokens -> Nat]
    BY DEF Typed, StoreTyped
  <2> QED BY <1>1, <1>3, <2>1
<1>6. /\ \A d \in Calls : d # c => call'[d] = call[d]
      /\ InFlight(c)' /\ call'[c].kind = "login" /\ call'[c].phase = "issued"
      /\ call'[c].token = fam
  BY <1>1, InFlightTyped DEF StartFamily, InFlight, Idle, Request, Typed, CallsTyped
<1>7. ASSUME NEW s \in 0 .. Len(minted), s # NoToken
      PROVE  minted'[s] = minted[s] /\ minted[s].fam \in Tokens /\ minted[s].fam # fam
  <2>1. s \in 1 .. Len(minted)
    BY <1>2, <1>7 DEF NoToken
  <2>2. minted[s].fam \in Tokens /\ minted[s].fam <= Len(minted)
    BY <2>1, TokenTyped DEF FamilyOf
  <2>3. minted[s].fam # fam
    BY <1>2, <2>2 DEF Tokens
  <2> QED BY <1>4, <2>1, <2>2, <2>3
<1>8. ASSUME NEW s \in 0 .. Len(minted), Good(s, minted, live) PROVE Good(s, minted', live')
  BY <1>5, <1>7, <1>8 DEF Good
<1>9. \A d \in Calls : Refreshing(d)' => Refreshing(d) /\ call'[d] = call[d]
  BY <1>6 DEF Refreshing, InFlight
<1>10. ~tripped' /\ OneRefresh' /\ NoRevoking'
  BY <1>1, <1>9 DEF SafeClient, OneRefresh, NoRevoking
<1>11. ASSUME NEW d \in Calls, d # c, Holding(d)'
       PROVE  /\ Holding(d) /\ call'[d] = call[d] /\ call[d].token \in 0 .. Len(minted)
              /\ NewFamily(d)' => NewFamily(d)
  <2>1. Holding(d) /\ call'[d] = call[d]
    BY <1>6, <1>11 DEF Holding, InFlight
  <2> QED BY <2>1, HeldTyped DEF Holding, NewFamily, InFlight
<1>12. HeldIsGood'
  <2>1. ASSUME NEW d \in Calls, Holding(d)' PROVE Good(call'[d].token, minted', live')
    <3>1. CASE d = c
      BY <1>4, <1>5, <1>6, <3>1 DEF Good
    <3>2. CASE d # c
      BY <1>8, <1>11, <2>1, <3>2 DEF SafeClient, HeldIsGood
    <3> QED BY <3>1, <3>2
  <2> QED BY <2>1 DEF HeldIsGood, Good
<1>13. ASSUME NEW e \in Calls, NewFamily(e)' PROVE Holding(e)'
  BY <1>13 DEF NewFamily, Holding
<1>14. cookie' = cookie /\ cookie \in 0 .. Len(minted)
  BY <1>1, HeldTyped
<1>15. FamiliesApart'
  <2>1. ASSUME NEW e \in Calls, NewFamily(e)'
        PROVE  /\ call'[e].token # NoToken
               /\ cookie' # NoToken => minted'[cookie'].fam # minted'[call'[e].token].fam
    <3>1. CASE e = c
      BY <1>3, <1>4, <1>6, <1>7, <1>14, <3>1
    <3>2. CASE e # c
      <4>1. NewFamily(e) /\ call'[e] = call[e] /\ call[e].token \in 0 .. Len(minted)
        BY <1>11, <1>13, <2>1, <3>2
      <4> QED BY <1>7, <1>14, <4>1 DEF SafeClient, FamiliesApart, FamilyOf
    <3> QED BY <3>1, <3>2
  <2>2. ASSUME NEW e \in Calls, NewFamily(e)', NEW d \in Calls, d # e, Holding(d)',
               call'[d].token # NoToken
        PROVE  minted'[call'[d].token].fam # minted'[call'[e].token].fam
    <3>1. CASE e = c
      BY <1>4, <1>6, <1>7, <1>11, <2>2, <3>1
    <3>2. CASE d = c
      BY <1>4, <1>6, <1>7, <1>11, <1>13, <2>1, <2>2, <3>2
    <3>3. CASE e # c /\ d # c
      <4>1. /\ NewFamily(e) /\ call'[e] = call[e] /\ call[e].token \in 0 .. Len(minted)
            /\ Holding(d) /\ call'[d] = call[d] /\ call[d].token \in 0 .. Len(minted)
            /\ call[e].token # NoToken /\ call[d].token # NoToken
        BY <1>11, <1>13, <2>1, <2>2, <3>3
      <4>2. minted'[call[e].token] = minted[call[e].token]
            /\ minted'[call[d].token] = minted[call[d].token]
        BY <1>7, <4>1
      <4> QED BY <2>2, <4>1, <4>2 DEF SafeClient, FamiliesApart, FamilyOf
    <3> QED BY <3>1, <3>2, <3>3
  <2> QED BY <2>1, <2>2 DEF FamiliesApart, FamilyOf
<1>16. CookieIsGood'
  <2>1. CASE Good(cookie, minted, live)
    <3>1. Good(cookie', minted', live')
      BY <1>8, <1>14, <2>1
    <3> QED BY <3>1 DEF CookieIsGood, Good
  <2>2. ASSUME NEW d \in Calls, Covering(d), minted[call[d].token].fam = minted[cookie].fam,
               cookie # NoToken
        PROVE  CookieIsGood'
    <3>1. Covering(d)' /\ call'[d] = call[d] /\ call[d].token \in 0 .. Len(minted)
          /\ call[d].token # NoToken
      BY <1>1, <1>6, <2>2, HeldTyped DEF Covering, InFlight
    <3>2. minted'[call'[d].token].fam = minted'[cookie'].fam
      BY <1>7, <1>14, <2>2, <3>1
    <3> QED BY <3>1, <3>2 DEF CookieIsGood, FamilyOf
  <2> QED BY <2>1, <2>2 DEF SafeClient, CookieIsGood, FamilyOf, Good
<1> QED BY <1>10, <1>12, <1>15, <1>16 DEF SafeClient

\* The browser gets the tokens, or loses the cookie by logging out.
LEMMA SafeAnswer ==
  ASSUME Typed, SafeClient, NEW c \in Calls, ReceiveTokens(c) \/ ReceiveLogout(c)
  PROVE  SafeClient'
<1>1. /\ InFlight(c) /\ End(c) /\ UNCHANGED <<minted, live, tripped>>
      /\ \/ cookie' = NoToken
         \/ cookie' = call[c].token /\ call[c].phase = "issued"
  BY DEF ReceiveTokens, ReceiveLogout, At, InFlight, server
<1>2. /\ \A d \in Calls : d # c => call'[d] = call[d]
      /\ call'[c] = Idle
  BY <1>1 DEF End, Typed, CallsTyped
<1>3. ASSUME NEW d \in Calls
      PROVE  /\ Holding(d)' => d # c /\ Holding(d) /\ call'[d] = call[d]
             /\ NewFamily(d)' => d # c /\ NewFamily(d) /\ call'[d] = call[d]
             /\ Refreshing(d)' => Refreshing(d) /\ call'[d] = call[d]
  BY <1>2 DEF Holding, NewFamily, Refreshing, InFlight
<1>4. ~tripped' /\ OneRefresh' /\ NoRevoking'
  BY <1>1, <1>3 DEF SafeClient, OneRefresh, NoRevoking
<1>5. HeldIsGood'
  BY <1>1, <1>3 DEF SafeClient, HeldIsGood, Good
<1>6. cookie' # NoToken => Holding(c) /\ cookie' = call[c].token
  BY <1>1, InFlightTyped DEF Request, Shape, Holding
<1>7. ASSUME NEW e \in Calls, NewFamily(e)', cookie' # NoToken
      PROVE  minted'[cookie'].fam # minted'[call'[e].token].fam
  BY <1>1, <1>3, <1>6, <1>7 DEF SafeClient, FamiliesApart, FamilyOf
<1>8. ASSUME NEW e \in Calls, NewFamily(e)'
      PROVE  /\ call'[e].token # NoToken
             /\ \A d \in Calls : d # e /\ Holding(d)' /\ call'[d].token # NoToken
                  => minted'[call'[d].token].fam # minted'[call'[e].token].fam
  BY <1>1, <1>3, <1>8 DEF SafeClient, FamiliesApart, FamilyOf
<1>9. FamiliesApart'
  BY <1>7, <1>8 DEF FamiliesApart, FamilyOf
<1>10. CookieIsGood'
  BY <1>1, <1>6 DEF SafeClient, HeldIsGood, CookieIsGood, Good
<1> QED BY <1>4, <1>5, <1>9, <1>10 DEF SafeClient

LEMMA SafeStep == Typed /\ Safe /\ [Next]_vars => Safe'
<1> SUFFICES ASSUME Typed, SafeClient, ~Excused', [Next]_vars PROVE SafeClient'
  <2>1. Typed /\ Excused /\ [Next]_vars => Excused'
    <3> SUFFICES ASSUME Typed, Excused, [Next]_vars PROVE Excused'
      OBVIOUS
    <3>1. strained => strained'
      BY DEF Next, vars, RefreshAccessToken, Login, Logout, RefreshUnknown, RefreshReused,
         RevokeReused, Rotate, RefreshChecked, RevokeAllRead, RevokeAllCommit, LoginChecked,
         LoadRoles, StartFamily, LogoutRevokes, ReceiveTokens, ReceiveRefusal, ReceiveLogout,
         LoseAnswer, Disable, Demote, Change, Fails, FamilyExpires, IndexExpires
    <3>2. ASSUME NEW u \in Users, ~account[u].active PROVE ~account'[u].active
      <4>1. account \in [Users -> Accounts]
        BY DEF Typed, ClientTyped
      <4>2. ASSUME NEW v \in Users, Disable(v) \/ Demote(v) PROVE ~account'[u].active
        <5>1. account[v] \in Accounts
          BY <4>1
        <5>2. \E a : account' = [account EXCEPT ![v] = a] /\ (v = u => ~a.active)
          BY <3>2, <4>2, <5>1 DEF Disable, Demote, Change, Accounts
        <5> QED BY <3>2, <4>1, <5>2
      <4>3. UNCHANGED account \/ \E v \in Users : Disable(v) \/ Demote(v)
        BY DEF Next, vars, RefreshAccessToken, Login, Logout, RefreshUnknown, RefreshReused,
           RevokeReused, Rotate, RefreshChecked, RevokeAllRead, RevokeAllCommit, LoginChecked,
           LoadRoles, StartFamily, LogoutRevokes, ReceiveTokens, ReceiveRefusal, ReceiveLogout,
           LoseAnswer, Fails, FamilyExpires, IndexExpires
      <4> QED BY <3>2, <4>2, <4>3
    <3> QED BY <3>1, <3>2 DEF Excused
  <2> QED BY <2>1 DEF Safe
<1>1. ~strained' /\ \A u \in Users : account'[u].active
  BY DEF Excused
<1>2. ASSUME NEW c \in Calls, NEW t \in Tabs, RefreshAccessToken(c, t) PROVE SafeClient'
  BY <1>1, <1>2, SafeAsk
<1>3. \A f \in Tokens : live[f] \in {NoToken, live[f]}
  OBVIOUS
<1>4. ASSUME NEW c \in Calls, NEW kind \in {"login", "logout"}, NEW t, NEW u, NEW k,
             Send(c, kind, t, u, k),
             UNCHANGED <<server, cookie, tripped>>
      PROVE  SafeClient'
  <2> DEFINE new == [kind |-> kind, tab |-> t, phase |-> "sent", user |-> u, token |-> k,
                     boot |-> tab[t] = Nobody, role |-> NoRole, since |-> {}, families |-> {}]
  <2>1. /\ call' = [call EXCEPT ![c] = new] /\ UNCHANGED <<minted, cookie, tripped>>
        /\ live' = live /\ ~Covering(c)
    BY <1>4 DEF Send, server, Covering, InFlight
  <2>2. new.kind # "refresh" /\ new.phase # "issued"
    BY <1>4
  <2> HIDE DEF new
  <2> QED BY <2>1, <2>2, SafeOfOne
<1>5. ASSUME NEW c \in Calls, InFlight(c), NEW phase, Step(c, phase),
             UNCHANGED <<minted, cookie, tripped>>,
             \A f \in Tokens : live'[f] \in {NoToken, live[f]},
             \/ /\ call[c].kind = "refresh" /\ call[c].phase \in {"sent", "signing"}
                /\ phase = "refused"
             \/ /\ call[c].kind = "refresh" /\ call[c].phase = "rotated" /\ phase = "checked"
             \/ call[c].kind = "logout"
             \/ call[c].kind = "login" /\ phase = "refused"
      PROVE  SafeClient'
  <2> DEFINE new == [call[c] EXCEPT !.phase = phase]
  <2>1. /\ new.kind = call[c].kind /\ new.token = call[c].token /\ new.phase = phase
        /\ call' = [call EXCEPT ![c] = new]
    BY <1>5, InFlightTyped DEF Request, Step
  <2> HIDE DEF new
  <2>2. new # Idle /\ new.kind = "refresh" =>
          /\ Refreshing(c) /\ new.phase \notin {"reused", "revoking"}
          /\ new.token = call[c].token
          /\ new.phase # "refused" => call[c].phase # "refused"
    BY <1>5, <2>1 DEF Refreshing
  <2>3. new # Idle
    BY <1>5, <2>1 DEF Step, InFlight, Idle
  <2>4. Covering(c) => /\ new # Idle /\ new.kind = "refresh" /\ new.token = call[c].token
                       /\ new.phase \in {"rotated", "checked", "issued"}
    BY <1>5, <2>1, <2>3 DEF Covering
  <2>5. new.kind = "login" => new.phase # "issued"
    BY <1>5, <2>1
  <2> QED BY <1>5, <2>1, <2>2, <2>4, <2>5, SafeOfOne
<1>6. ASSUME NEW c \in Calls, LoginChecked(c) PROVE SafeClient'
  <2> DEFINE new == [call[c] EXCEPT !.phase = IF MaySignIn(call[c].user) THEN "checked"
                                              ELSE "refused",
                                    !.since = {Account(call[c].user)}]
  <2>1. /\ InFlight(c) /\ call[c].kind = "login" /\ UNCHANGED <<minted, live, cookie, tripped>>
        /\ call' = [call EXCEPT ![c] = new]
    BY <1>6 DEF LoginChecked, At, InFlight, server, browser
  <2>2. new.kind = "login" /\ new.phase # "issued"
    BY <2>1, InFlightTyped DEF Request
  <2>3. ~Covering(c)
    BY <2>1 DEF Covering
  <2> HIDE DEF new
  <2> QED BY <2>1, <2>2, <2>3, SafeOfOne
<1>7. ASSUME NEW c \in Calls, LoadRoles(c) PROVE SafeClient'
  <2> DEFINE new == [call[c] EXCEPT !.role = account[call[c].user].role,
                                    !.phase = IF call[c].kind = "login" THEN "signing"
                                              ELSE "issued"]
  <2>1. /\ InFlight(c) /\ call[c].phase = "checked" /\ UNCHANGED <<minted, live, cookie, tripped>>
        /\ call' = [call EXCEPT ![c] = new]
    BY <1>7 DEF LoadRoles, InFlight, server, browser
  <2>2. /\ new.kind = call[c].kind /\ new.token = call[c].token
        /\ new.phase = IF call[c].kind = "login" THEN "signing" ELSE "issued"
    BY <2>1, InFlightTyped DEF Request
  <2> HIDE DEF new
  <2>3. new # Idle
    BY <2>1, <2>2, InFlightTyped DEF Request, Idle
  <2>4. new # Idle /\ new.kind = "refresh" =>
          /\ Refreshing(c) /\ new.phase \notin {"reused", "revoking"}
          /\ new.token = call[c].token
          /\ new.phase # "refused" => call[c].phase # "refused"
    BY <2>1, <2>2 DEF Refreshing
  <2>5. Covering(c) => /\ new # Idle /\ new.kind = "refresh" /\ new.token = call[c].token
                       /\ new.phase \in {"rotated", "checked", "issued"}
    BY <2>2, <2>3 DEF Covering
  <2> QED BY <2>1, <2>2, <2>4, <2>5, SafeOfOne
<1>8. ASSUME NEW c \in Calls, ReceiveRefusal(c) PROVE SafeClient'
  <2>1. /\ call' = [call EXCEPT ![c] = Idle] /\ ~Covering(c)
        /\ UNCHANGED <<minted, live, cookie, tripped>>
    BY <1>8 DEF ReceiveRefusal, End, Covering, server
  <2> QED BY <2>1, SafeOfOne
<1>9. ASSUME NEW u \in Users, NEW a, Change(u, a) PROVE SafeClient'
  <2>1. \A c \in Calls :
          call'[c] = IF InFlight(c) /\ call[c].user = u /\ call[c].since # {}
                     THEN [call[c] EXCEPT !.since = @ \cup {a}] ELSE call[c]
    BY <1>9 DEF Change
  <2>2. ASSUME NEW c \in Calls, InFlight(c)
        PROVE  call'[c] # Idle /\ call'[c].kind = call[c].kind /\ call'[c].phase = call[c].phase
               /\ call'[c].token = call[c].token
    BY <2>1, <2>2, InFlightTyped DEF Request, InFlight, Idle
  <2>3. \A c \in Calls : ~InFlight(c) => call'[c] = call[c]
    BY <2>1
  <2>4. UNCHANGED <<minted, live, cookie, tripped>>
    BY <1>9 DEF Change, server, browser
  <2>5. SafeClient
    OBVIOUS
  <2>6. ASSUME NEW c \in Calls
        PROVE  /\ Refreshing(c)' => Refreshing(c) /\ call'[c].phase \notin {"reused", "revoking"}
               /\ Holding(c)' => Holding(c) /\ call'[c].token = call[c].token
               /\ NewFamily(c)' => NewFamily(c)
               /\ Covering(c) => Covering(c)' /\ call'[c].token = call[c].token
    BY <2>2, <2>3, <2>5 DEF Refreshing, Holding, NewFamily, Covering, InFlight, SafeClient,
       NoRevoking
  <2> QED BY <2>4, <2>6, SafeKept
<1>10. ASSUME NEW c \in Calls, RefreshUnknown(c) \/ RefreshChecked(c) \/ LogoutRevokes(c)
       PROVE  SafeClient'
  <2>1. UNCHANGED <<minted, cookie, tripped>>
    BY <1>10 DEF RefreshUnknown, RefreshChecked, LogoutRevokes, RevokeFamily, server, browser
  <2>2. \A f \in Tokens : live'[f] \in {NoToken, live[f]}
    BY <1>10 DEF RefreshUnknown, RefreshChecked, LogoutRevokes, RevokeFamily, server, Typed,
       StoreTyped
  <2> QED BY <1>5, <1>10, <2>1, <2>2 DEF RefreshUnknown, RefreshChecked, LogoutRevokes, At, InFlight
\* What an honest browser never meets.
<1>11. ASSUME NEW c \in Calls, RefreshReused(c) PROVE FALSE
  <2>1. Holding(c) /\ ~Good(call[c].token, minted, live)
    BY <1>11 DEF RefreshReused, At, InFlight, Holding, RotateOutcome, Good, FamilyOf
  <2> QED BY <2>1 DEF SafeClient, HeldIsGood
<1>12. ASSUME NEW c \in Calls, RevokeReused(c) \/ RevokeAllCommit(c) PROVE FALSE
  BY <1>12 DEF RevokeReused, RevokeAllCommit, At, InFlight, Refreshing, SafeClient, NoRevoking
<1>13. ASSUME NEW c \in Calls, RevokeAllRead(c) PROVE FALSE
  <2>1. InFlight(c) /\ call[c].phase = "rotated" /\ ~account[call[c].user].active
        /\ account' = account
    BY <1>13 DEF RevokeAllRead, At, InFlight, MaySignIn
  <2>2. call[c].user \in Users
    BY <2>1, InFlightTyped DEF Shape
  <2> QED BY <1>1, <2>1, <2>2
<1>14. ASSUME NEW u \in Users, Disable(u) \/ Demote(u) PROVE SafeClient'
  BY <1>9, <1>14 DEF Disable, Demote
<1>15. CASE UNCHANGED vars
  <2>1. UNCHANGED <<minted, live, cookie, tripped, call>>
    BY <1>15 DEF vars, server, browser
  <2> QED BY <2>1 DEF SafeClient, OneRefresh, NoRevoking, HeldIsGood, FamiliesApart, CookieIsGood,
      Refreshing, Holding, NewFamily, Covering, InFlight, FamilyOf, Good
<1>16. ASSUME NEW c \in Calls, NEW t \in Tabs, NEW u, Login(c, t, u) \/ Logout(c, t)
       PROVE  SafeClient'
  BY <1>4, <1>16 DEF Login, Logout, browser
<1>17. ASSUME NEW c \in Calls, LoseAnswer(c) PROVE FALSE
  BY <1>1, <1>17 DEF LoseAnswer
<1>18. ASSUME NEW c \in Calls,
              Rotate(c) \/ StartFamily(c) \/ ReceiveTokens(c) \/ ReceiveLogout(c)
       PROVE  SafeClient'
  BY <1>18, SafeRotate, SafeStart, SafeAnswer
\* A request that fails before its token is exchanged costs nothing.
<1>19. ASSUME NEW c \in Calls, Fails(c) PROVE SafeClient'
  <2> DEFINE phase == IF call[c].kind = "logout" THEN "done" ELSE "refused"
  <2>1. /\ InFlight(c) /\ Step(c, phase) /\ UNCHANGED <<minted, live, cookie, tripped>>
        /\ call[c].kind = "refresh" => call[c].phase \in {"sent", "signing", "reused", "revoking"}
    BY <1>1, <1>19 DEF Fails, server, browser
  <2>2. call[c].kind = "refresh" => call[c].phase \in {"sent", "signing"}
    BY <2>1 DEF SafeClient, NoRevoking, Refreshing
  <2>3. call[c].kind \in {"refresh", "login", "logout"}
    BY <2>1, InFlightTyped DEF Request
  <2>4. /\ call[c].kind = "logout" => phase = "done"
        /\ call[c].kind # "logout" => phase = "refused"
    OBVIOUS
  <2> HIDE DEF phase
  <2> QED BY <1>5, <2>1, <2>2, <2>3, <2>4
<1>20. ASSUME UNCHANGED <<minted, cookie, tripped, call>>,
              \A f \in Tokens : live'[f] \in {NoToken, live[f]}
       PROVE  SafeClient'
  <2>1. ASSUME NEW c \in Calls
        PROVE  /\ Refreshing(c)' => Refreshing(c) /\ call'[c].phase \notin {"reused", "revoking"}
               /\ Holding(c)' => Holding(c) /\ call'[c].token = call[c].token
               /\ NewFamily(c)' => NewFamily(c)
               /\ Covering(c) => Covering(c)' /\ call'[c].token = call[c].token
    BY <1>20 DEF Refreshing, Holding, NewFamily, Covering, InFlight, SafeClient, NoRevoking
  <2> QED BY <1>20, <2>1, SafeKept
<1>21. ASSUME NEW f \in Tokens, FamilyExpires(f) PROVE SafeClient'
  <2>1. \A g \in Tokens : live'[g] \in {NoToken, live[g]}
    BY <1>21 DEF FamilyExpires, Typed, StoreTyped
  <2> QED BY <1>20, <1>21, <2>1 DEF FamilyExpires, browser
<1>22. ASSUME NEW u \in Users, IndexExpires(u) PROVE SafeClient'
  <2>1. \A g \in Tokens : live'[g] \in {NoToken, live[g]}
    BY <1>22, ListExpired
  <2>2. UNCHANGED <<minted, browser, tripped, call>>
    BY <1>22, ListExpired
  <2> QED BY <1>20, <2>1, <2>2 DEF browser
<1> QED
  BY <1>2, <1>6, <1>7, <1>8, <1>10, <1>11, <1>12, <1>13, <1>14, <1>15, <1>16, <1>17, <1>18,
     <1>19, <1>21, <1>22 DEF Next

-----------------------------------------------------------------------------
(* LogOutReachesAll is inductive as it stands.                             *)

LEMMA FamiliesTyped ==
  ASSUME Typed, NEW f \in Tokens, live[f] # NoToken
  PROVE  f \in 1 .. Len(minted) /\ Len(minted) \in Nat
<1>1. live[f] \in 1 .. Len(minted) /\ FamilyOf(live[f]) = f /\ Len(minted) \in Nat
  BY DEF Typed, StoreTyped, TokensTyped, NoToken
<1>2. f <= Len(minted)
  BY <1>1 DEF Typed, TokensTyped
<1> QED BY <1>1, <1>2 DEF Tokens

\* Sessions end, no list is read and none loses what is still live.
LEMMA ReachKept ==
  ASSUME Typed, LogOutReachesAll, UNCHANGED minted, unlisted \subseteq unlisted',
         \A f \in Tokens : live'[f] \in {NoToken, live[f]},
         \A f \in index \cap Tokens : f \in index' \/ live'[f] = NoToken \/ f \in unlisted',
         \A c \in Calls : At(c, "refresh", "revoking")' =>
           /\ At(c, "refresh", "revoking")
           /\ call'[c].user = call[c].user /\ call'[c].families = call[c].families
  PROVE  LogOutReachesAll'
<1> SUFFICES ASSUME NEW f \in Tokens, f \notin unlisted', live'[f] # NoToken
             PROVE  f \in index' /\ \A c \in RevokingOf(minted[f].user)' : f \in call'[c].families
  BY DEF LogOutReachesAll
<1>1. f \in index /\ \A c \in RevokingOf(minted[f].user) : f \in call[c].families
  BY DEF LogOutReachesAll
<1>2. \A c \in RevokingOf(minted[f].user)' :
        c \in RevokingOf(minted[f].user) /\ call'[c].families = call[c].families
  BY DEF RevokingOf
<1> QED BY <1>1, <1>2

LEMMA ReachRotated ==
  ASSUME Typed, LogOutReachesAll, NEW c \in Calls, Rotate(c) PROVE LogOutReachesAll'
<1> DEFINE k == call[c].token
           fam == FamilyOf(k)
           u == minted[k].user
<1>1. /\ InFlight(c) /\ k # NoToken /\ live[fam] # NoToken
      /\ Mint(u, fam, k) /\ live' = [live EXCEPT ![fam] = NextToken]
      /\ UNCHANGED <<index, unlisted>>
  BY DEF Rotate, At, InFlight, RotateOutcome
<1>2. Len(minted) \in Nat /\ k \in 1 .. Len(minted) /\ k \in 0 .. Len(minted)
  BY <1>1, HeldTyped DEF NoToken
<1>3. u \in Users /\ fam \in Tokens /\ fam <= Len(minted) + 1
  BY <1>2, TokenTyped DEF Tokens
<1>4. \A d \in Calls : At(d, "refresh", "revoking")' => d # c /\ call'[d] = call[d]
  BY InFlightTyped, <1>1 DEF Rotate, At, Request, Typed, CallsTyped
<1> HIDE DEF k, fam, u
<1>5. \A j \in 1 .. Len(minted) : minted'[j] = minted[j]
  BY <1>1, <1>2, <1>3, Minting
<1> SUFFICES ASSUME NEW f \in Tokens, f \notin unlisted', live'[f] # NoToken
             PROVE  f \in index' /\ \A d \in RevokingOf(minted[f].user)' : f \in call'[d].families
  BY DEF LogOutReachesAll
<1>6. live[f] # NoToken
  BY <1>1, <1>3 DEF Typed, StoreTyped
<1>7. f \in index /\ \A d \in RevokingOf(minted[f].user) : f \in call[d].families
  BY <1>1, <1>6 DEF LogOutReachesAll
<1>8. minted'[f] = minted[f]
  BY <1>5, <1>6, FamiliesTyped
<1>9. \A d \in RevokingOf(minted[f].user)' : d \in RevokingOf(minted[f].user) /\ call'[d] = call[d]
  BY <1>4, <1>8 DEF RevokingOf, At
<1> QED BY <1>1, <1>7, <1>9

\* A login that overtakes no revocation puts its family on the list.
LEMMA ReachStarted ==
  ASSUME Typed, LogOutReachesAll, NEW c \in Calls, StartFamily(c) PROVE LogOutReachesAll'
<1> DEFINE fam == NextToken
           u == call[c].user
<1>1. /\ InFlight(c) /\ call[c].kind = "login"
      /\ Mint(u, fam, NoToken) /\ live' = [live EXCEPT ![fam] = fam]
      /\ index' = index \cup {fam} /\ fam = NextToken
      /\ unlisted' = IF RevokingOf(u) = {} THEN unlisted ELSE unlisted \cup {fam}
  BY DEF StartFamily, At, InFlight
<1>2. Len(minted) \in Nat /\ NoToken \in 0 .. Len(minted) /\ fam = Len(minted) + 1
  BY <1>1, HeldTyped DEF NoToken, NextToken
<1>3. u \in Users /\ fam \in Tokens /\ fam <= Len(minted) + 1
  BY <1>1, <1>2, SessionsAssumption, InFlightTyped DEF Shape, Mint, Tokens, NoToken
<1>4. \A d \in Calls : At(d, "refresh", "revoking")' => d # c /\ call'[d] = call[d]
  BY InFlightTyped, <1>1 DEF StartFamily, At, Request, Typed, CallsTyped
<1> HIDE DEF u, fam
<1>5. /\ \A j \in 1 .. Len(minted) : minted'[j] = minted[j]
      /\ minted'[fam].user = u
  <2>1. /\ \A j \in 1 .. Len(minted) : minted'[j] = minted[j]
        /\ minted'[NextToken] = [user |-> u, fam |-> fam, parent |-> NoToken]
    BY <1>1, <1>2, <1>3, Minting
  <2> QED BY <1>1, <2>1
<1> SUFFICES ASSUME NEW f \in Tokens, f \notin unlisted', live'[f] # NoToken
             PROVE  f \in index' /\ \A d \in RevokingOf(minted[f].user)' : f \in call'[d].families
  BY DEF LogOutReachesAll
<1>6. CASE f = fam
  <2>1. RevokingOf(u) = {}
    BY <1>1, <1>6
  <2>2. RevokingOf(minted[f].user)' = {}
    BY <1>4, <1>5, <1>6, <2>1 DEF RevokingOf, At
  <2> QED BY <1>1, <1>6, <2>2
<1>7. CASE f # fam
  <2>1. live[f] # NoToken /\ f \notin unlisted
    BY <1>1, <1>7 DEF Typed, StoreTyped
  <2>2. f \in index /\ \A d \in RevokingOf(minted[f].user) : f \in call[d].families
    BY <2>1 DEF LogOutReachesAll
  <2>3. minted'[f] = minted[f]
    BY <1>5, <2>1, FamiliesTyped
  <2>4. \A d \in RevokingOf(minted[f].user)' : d \in RevokingOf(minted[f].user) /\ call'[d] = call[d]
    BY <1>4, <2>3 DEF RevokingOf, At
  <2> QED BY <1>1, <2>2, <2>4
<1> QED BY <1>6, <1>7

\* The revocation reads the list, which holds every session it should.
LEMMA ReachRead ==
  ASSUME Typed, LogOutReachesAll, NEW c \in Calls, RevokeAllRead(c) PROVE LogOutReachesAll'
<1> DEFINE new == [call[c] EXCEPT !.phase = "revoking", !.families = FamiliesOf(call[c].user)]
<1>1. InFlight(c) /\ call' = [call EXCEPT ![c] = new] /\ UNCHANGED <<minted, live, index, unlisted>>
  BY DEF RevokeAllRead, At, InFlight, server
<1>2. new.user = call[c].user /\ new.families = FamiliesOf(call[c].user)
  BY <1>1, InFlightTyped DEF Request
<1> HIDE DEF new
<1>3. \A d \in Calls : call'[d] = IF d = c THEN new ELSE call[d]
  BY <1>1 DEF Typed, CallsTyped
<1> SUFFICES ASSUME NEW f \in Tokens, f \notin unlisted, live[f] # NoToken
             PROVE  f \in index /\ \A d \in RevokingOf(minted[f].user)' : f \in call'[d].families
  BY <1>1 DEF LogOutReachesAll
<1>4. f \in index /\ \A d \in RevokingOf(minted[f].user) : f \in call[d].families
  BY DEF LogOutReachesAll
<1>5. ASSUME NEW d \in RevokingOf(minted[f].user)' PROVE f \in call'[d].families
  <2>1. d \in Calls /\ At(d, "refresh", "revoking")' /\ call'[d].user = minted[f].user
    BY <1>1 DEF RevokingOf
  <2>2. CASE d = c
    BY <1>2, <1>3, <1>4, <2>1, <2>2 DEF FamiliesOf
  <2>3. CASE d # c
    BY <1>3, <1>4, <2>1, <2>3 DEF RevokingOf, At
  <2> QED BY <2>2, <2>3
<1> QED BY <1>4, <1>5

\* It deletes the whole list: what was not on its copy overtook it.
LEMMA ReachCommitted ==
  ASSUME Typed, LogOutReachesAll, NEW c \in Calls, RevokeAllCommit(c) PROVE LogOutReachesAll'
<1>1. /\ At(c, "refresh", "revoking") /\ Step(c, "refused") /\ UNCHANGED <<minted, unlisted>>
      /\ live' = [f \in Tokens |-> IF f \in call[c].families THEN NoToken ELSE live[f]]
      /\ index' \in {index, index \ FamiliesOf(call[c].user)}
  BY DEF RevokeAllCommit
<1>2. \A d \in Calls : d # c => call'[d] = call[d]
  BY <1>1 DEF Step, Typed, CallsTyped
<1>3. ~At(c, "refresh", "revoking")'
  BY <1>1, InFlightTyped DEF Step, At, InFlight, Request, Typed, CallsTyped
<1>4. ASSUME NEW f \in index \cap Tokens, live'[f] # NoToken, f \notin unlisted' PROVE f \in index'
  <2>1. live[f] # NoToken /\ f \notin call[c].families /\ f \notin unlisted
    BY <1>1, <1>4
  <2>2. c \notin RevokingOf(minted[f].user)
    BY <2>1 DEF LogOutReachesAll
  <2>3. f \notin FamiliesOf(call[c].user)
    BY <1>1, <2>2 DEF RevokingOf, FamiliesOf
  <2> QED BY <1>1, <1>4, <2>3
<1>5. \A d \in Calls : At(d, "refresh", "revoking")' => d # c
  BY <1>3
<1>6. \A d \in Calls : At(d, "refresh", "revoking")' =>
         /\ At(d, "refresh", "revoking")
         /\ call'[d].user = call[d].user /\ call'[d].families = call[d].families
  BY <1>2, <1>5 DEF At
<1>7. \A f \in Tokens : live'[f] \in {NoToken, live[f]}
  BY <1>1
<1> QED BY <1>1, <1>4, <1>6, <1>7, ReachKept

LEMMA ReachStep == Typed /\ LogOutReachesAll /\ [Next]_vars => LogOutReachesAll'
<1> SUFFICES ASSUME Typed, LogOutReachesAll, [Next]_vars PROVE LogOutReachesAll'
  OBVIOUS
\* Requests that move on to anything but a revocation.
<1>1. ASSUME NEW c \in Calls, NEW new, call' = [call EXCEPT ![c] = new],
             new # Idle => new.phase # "revoking"
      PROVE  \A d \in Calls : At(d, "refresh", "revoking")' =>
               /\ At(d, "refresh", "revoking")
               /\ call'[d].user = call[d].user /\ call'[d].families = call[d].families
  <2>1. \A d \in Calls : call'[d] = IF d = c THEN new ELSE call[d]
    BY <1>1 DEF Typed, CallsTyped
  <2> QED BY <1>1, <2>1 DEF At
<1>2. ASSUME UNCHANGED server, NEW c \in Calls, NEW new, call' = [call EXCEPT ![c] = new],
             new # Idle => new.phase # "revoking"
      PROVE  LogOutReachesAll'
  BY <1>1, <1>2, ReachKept DEF server
<1>3. ASSUME UNCHANGED server, NEW c \in Calls, InFlight(c), NEW phase, Step(c, phase),
             phase # "revoking"
      PROVE  LogOutReachesAll'
  <2> DEFINE new == [call[c] EXCEPT !.phase = phase]
  <2>1. new.phase = phase /\ call' = [call EXCEPT ![c] = new]
    BY <1>3, InFlightTyped DEF Request, Step
  <2> HIDE DEF new
  <2> QED BY <1>2, <1>3, <2>1
<1>4. ASSUME NEW c \in Calls, NEW f, RevokeFamily(f), NEW phase, InFlight(c), Step(c, phase),
             phase # "revoking"
      PROVE  LogOutReachesAll'
  <2> DEFINE new == [call[c] EXCEPT !.phase = phase]
  <2>1. new.phase = phase /\ call' = [call EXCEPT ![c] = new]
    BY <1>4, InFlightTyped DEF Request, Step
  <2> HIDE DEF new
  <2>2. /\ UNCHANGED <<minted, unlisted>> /\ index' = index \ {f}
        /\ \A g \in Tokens : live'[g] = IF g = f THEN NoToken ELSE live[g]
    BY <1>4 DEF RevokeFamily, Typed, StoreTyped
  <2>3. \A g \in index \cap Tokens : g \in index' \/ live'[g] = NoToken
    BY <2>2
  <2>4. \A g \in Tokens : live'[g] \in {NoToken, live[g]}
    BY <2>2
  <2>5. new # Idle => new.phase # "revoking"
    BY <1>4, <2>1
  <2>6. \A d \in Calls : At(d, "refresh", "revoking")' =>
          /\ At(d, "refresh", "revoking")
          /\ call'[d].user = call[d].user /\ call'[d].families = call[d].families
    BY <1>1, <2>1, <2>5
  <2>7. \A g \in index \cap Tokens : g \in index' \/ live'[g] = NoToken \/ g \in unlisted'
    BY <2>3
  <2> QED BY <2>2, <2>4, <2>6, <2>7, ReachKept
<1>5. ASSUME NEW c \in Calls, NEW kind, NEW t, NEW u, NEW k, Send(c, kind, t, u, k),
             UNCHANGED server
      PROVE  LogOutReachesAll'
  <2> DEFINE new == [kind |-> kind, tab |-> t, phase |-> "sent", user |-> u, token |-> k,
                     boot |-> tab[t] = Nobody, role |-> NoRole, since |-> {}, families |-> {}]
  <2>1. new.phase = "sent" /\ call' = [call EXCEPT ![c] = new]
    BY <1>5 DEF Send
  <2> HIDE DEF new
  <2> QED BY <1>2, <1>5, <2>1
<1>6. ASSUME NEW c \in Calls, End(c), UNCHANGED server PROVE LogOutReachesAll'
  BY <1>2, <1>6 DEF End
<1>7. ASSUME NEW c \in Calls,
             RefreshUnknown(c) \/ RefreshReused(c) \/ RefreshChecked(c) \/ Fails(c)
      PROVE  LogOutReachesAll'
  <2>1. InFlight(c) /\ UNCHANGED server
        /\ \E phase \in {"refused", "reused", "checked", "done"} : Step(c, phase)
    BY <1>7 DEF RefreshUnknown, RefreshReused, RefreshChecked, Fails, At, InFlight
  <2> QED BY <1>3, <2>1
<1>8. ASSUME NEW c \in Calls, RevokeReused(c) \/ LogoutRevokes(c) PROVE LogOutReachesAll'
  <2>1. /\ InFlight(c) /\ \E phase \in {"refused", "done"} : Step(c, phase)
        /\ UNCHANGED server \/ RevokeFamily(FamilyOf(call[c].token))
    BY <1>8 DEF RevokeReused, LogoutRevokes, At, InFlight
  <2> QED BY <1>3, <1>4, <2>1
<1>9. ASSUME NEW c \in Calls, LoginChecked(c) PROVE LogOutReachesAll'
  <2> DEFINE new == [call[c] EXCEPT !.phase = IF MaySignIn(call[c].user) THEN "checked"
                                              ELSE "refused",
                                    !.since = {Account(call[c].user)}]
  <2>1. InFlight(c) /\ UNCHANGED server /\ call' = [call EXCEPT ![c] = new]
    BY <1>9 DEF LoginChecked, At, InFlight
  <2>2. new.phase # "revoking"
    BY <2>1, InFlightTyped DEF Request
  <2> HIDE DEF new
  <2> QED BY <1>2, <2>1, <2>2
<1>10. ASSUME NEW c \in Calls, LoadRoles(c) PROVE LogOutReachesAll'
  <2> DEFINE new == [call[c] EXCEPT !.role = account[call[c].user].role,
                                    !.phase = IF call[c].kind = "login" THEN "signing"
                                              ELSE "issued"]
  <2>1. InFlight(c) /\ UNCHANGED server /\ call' = [call EXCEPT ![c] = new]
    BY <1>10 DEF LoadRoles, InFlight
  <2>2. new.phase # "revoking"
    BY <2>1, InFlightTyped DEF Request
  <2> HIDE DEF new
  <2> QED BY <1>2, <2>1, <2>2
<1>11. ASSUME NEW f \in Tokens, FamilyExpires(f) PROVE LogOutReachesAll'
  <2>1. /\ UNCHANGED <<minted, index, unlisted, call>>
        /\ \A g \in Tokens : live'[g] \in {NoToken, live[g]}
    BY <1>11 DEF FamilyExpires, Typed, StoreTyped
  <2> QED BY <2>1, ReachKept DEF At
<1>12. ASSUME NEW u \in Users, IndexExpires(u) PROVE LogOutReachesAll'
  <2>1. /\ UNCHANGED <<minted, call>> /\ unlisted \subseteq unlisted'
        /\ index' = index \ FamiliesOf(u)
        /\ \A f \in Tokens : live'[f] # NoToken /\ minted[f].user = u => f \in unlisted'
    BY <1>12, ListExpired
  <2>2. \A g \in Tokens : live'[g] \in {NoToken, live[g]}
    BY <1>12, ListExpired
  <2>3. \A f \in index \cap Tokens : f \in index' \/ live'[f] = NoToken \/ f \in unlisted'
    BY <2>1 DEF FamiliesOf
  <2> QED BY <2>1, <2>2, <2>3, ReachKept DEF At
<1>13. ASSUME NEW u \in Users, NEW a, Change(u, a) PROVE LogOutReachesAll'
  <2>1. /\ UNCHANGED server
        /\ \A c \in Calls : call'[c] =
             IF InFlight(c) /\ call[c].user = u /\ call[c].since # {}
             THEN [call[c] EXCEPT !.since = @ \cup {a}] ELSE call[c]
    BY <1>13 DEF Change
  <2>2. ASSUME NEW c \in Calls, At(c, "refresh", "revoking")'
        PROVE  /\ At(c, "refresh", "revoking")
               /\ call'[c].user = call[c].user /\ call'[c].families = call[c].families
    <3>1. InFlight(c)
      BY <2>1, <2>2 DEF At, InFlight
    <3>2. call[c] \in Request
      BY <3>1, InFlightTyped
    <3> QED BY <2>1, <2>2, <3>1, <3>2 DEF At, Request, InFlight
  <2> QED BY <2>1, <2>2, ReachKept DEF server
<1>14. CASE UNCHANGED vars
  BY <1>14, ReachKept DEF vars, server, At
<1> QED
  BY <1>5, <1>6, <1>7, <1>8, <1>9, <1>10, <1>11, <1>12, <1>13, <1>14, ReachRotated, ReachStarted,
     ReachRead, ReachCommitted
     DEF Next, RefreshAccessToken, Login, Logout, ReceiveTokens, ReceiveRefusal, ReceiveLogout,
     LoseAnswer, Disable, Demote

-----------------------------------------------------------------------------
\* What the store and the accounts promise, in every reachable state.
SessionInv == Typed /\ Spending /\ Authority /\ Safe /\ LogOutReachesAll

LEMMA InvariantHolds == Spec => []SessionInv
<1>1. Init => SessionInv
  <2> SUFFICES ASSUME Init PROVE SessionInv
    OBVIOUS
  <2>1. Typed
    BY TypedInitially
  <2>2. Len(minted) = 0
    BY DEF Init
  <2>3. Spending /\ Authority
    BY <2>2 DEF Init, Spending, LiveIsUnspent, TokenSpentOnce, Authority, InFlight
  <2>4. SafeClient
    BY DEF Init, SafeClient, OneRefresh, NoRevoking, HeldIsGood, FamiliesApart, CookieIsGood,
       Refreshing, Holding, NewFamily, InFlight, Good
  <2>5. LogOutReachesAll
    BY DEF Init, LogOutReachesAll
  <2> QED BY <2>1, <2>3, <2>4, <2>5 DEF SessionInv, Safe
<1>2. SessionInv /\ [Next]_vars => SessionInv'
  BY TypedStep, SpendingStep, AuthorityStep, SafeStep, ReachStep DEF SessionInv
<1> QED BY <1>1, <1>2, PTL DEF Spec

(* The store names only tokens that exist, and the live token of a family is  *)
(* one of that family, whatever logins, rotations and revocations interleave. *)
THEOREM SessionsTypeCorrect == Spec => []TypeOK
<1>1. SessionInv => TypeOK
  BY DEF SessionInv, Typed, TokensTyped, StoreTyped, ClientTyped, TypeOK, Accounts, Token
<1> QED BY <1>1, InvariantHolds, PTL

(* No refresh token is ever exchanged for two others, however many requests   *)
(* present it at once.                                                        *)
THEOREM TokensAreSpentOnce == Spec => []TokenSpentOnce
<1>1. SessionInv => TokenSpentOnce
  BY DEF SessionInv, Spending
<1> QED BY <1>1, InvariantHolds, PTL

(* Tokens are issued only to an account that was active, and with a role it   *)
(* held, at some moment since the server took the request up.                 *)
THEOREM AuthorityIsFresh == Spec => []FreshAuthority
<1>1. SessionInv => FreshAuthority
  BY DEF SessionInv, Authority, Fresh, FreshAuthority
<1> QED BY <1>1, InvariantHolds, PTL

(* Reuse detection does not strike the user's own browser unless two tabs     *)
(* refreshed at once, an answer was lost, a refresh failed after its token    *)
(* was exchanged, or somebody was disabled.                                   *)
THEOREM AppKeepsItsUsers == Spec => []AppNeverLogsItselfOut
<1>1. SessionInv => AppNeverLogsItselfOut
  BY DEF SessionInv, Safe, SafeClient, Excused, AppNeverLogsItselfOut
<1> QED BY <1>1, InvariantHolds, PTL

(* Every live session is on its user's list and on the copy of it a           *)
(* revocation under way has read, except one whose login overtook a           *)
(* revocation and one that outlived the list.                                 *)
THEOREM LogOutFindsSessions == Spec => []LogOutReachesAll
<1>1. SessionInv => LogOutReachesAll
  BY DEF SessionInv
<1> QED BY <1>1, InvariantHolds, PTL
=============================================================================
