------------------------------- MODULE Guests -------------------------------
(***************************************************************************)
(* Guest profiles: who sees them, who sees the ID number, and what is left *)
(* of them once erased.  Queries name a guest by id or by a search term and *)
(* leave it to row-level security to keep to the property; a profile is     *)
(* read without a lock before its blacklist flag is written, and with one   *)
(* before it is erased.                                                     *)
(***************************************************************************)
EXTENDS Access

CONSTANTS
  Guests,
  PropertyOf   \* the property whose row a guest is

VARIABLE row   \* guests

\* The ID number is three columns, written together by encodeIdNumber.
Fields == {"identity", "idNumber"}

NoRow == [exists |-> FALSE, personal |-> {}, erased |-> FALSE, blacklisted |-> FALSE]

Init ==
  /\ AccessInit
  /\ row = [g \in Guests |-> NoRow]

-----------------------------------------------------------------------------
\* Policy tenant_isolation, forced on every role: a transaction scoped to a
\* property reads and writes that property's rows.
TenantIsolation(g, scope) == PropertyOf[g] = scope

\* What a statement of request r can see.
Visible(r) == {g \in Guests : row[g].exists /\ TenantIsolation(g, request[r].scope)}

Locked(g) == \E r \in Requests : request[r].op = "anonymiseGuest" /\ g \in request[r].rows

\* The handler of op reads the row of g.
Reads(r, op, g) ==
  /\ request[r].op = op
  /\ request[r].rows = {}
  /\ g \in Visible(r)
  /\ request' = [request EXCEPT ![r].rows = {g}]
  /\ UNCHANGED accessVars

Commits(r, op) ==
  /\ request[r].op = op
  /\ request[r].rows # {}
  /\ End(r)
  /\ UNCHANGED accessVars

Target(r) == CHOOSE g \in request[r].rows : TRUE

\* guest, searchGuests, guestByIdNumber, guestStays: whatever matches.
Search(r) ==
  /\ request[r].op = "searchGuests"
  /\ request[r].rows = {}
  /\ Visible(r) # {}
  /\ request' = [request EXCEPT ![r].rows = Visible(r)]
  /\ UNCHANGED <<accessVars, row>>

CreateGuest(r, g, given) ==
  /\ request[r].op = "createGuest"
  /\ ~row[g].exists
  /\ TenantIsolation(g, request[r].scope)
  /\ row' = [row EXCEPT ![g] = [NoRow EXCEPT !.exists = TRUE, !.personal = given]]
  /\ End(r)
  /\ UNCHANGED accessVars

\* A number is on file and its reader is entered in the audit log.
Reveal(r, g) ==
  /\ Reads(r, "revealIdNumber", g)
  /\ "idNumber" \in row[g].personal
  /\ UNCHANGED row

\* SELECT .. FOR UPDATE; an erased profile is left as it is.
AnonymiseLock(r, g) ==
  /\ Reads(r, "anonymiseGuest", g)
  /\ ~Locked(g)
  /\ ~row[g].erased
  /\ UNCHANGED row

AnonymiseCommit(r) ==
  /\ Commits(r, "anonymiseGuest")
  /\ row' = [row EXCEPT ![Target(r)].personal = {}, ![Target(r)].erased = TRUE]

BlacklistRead(r, g) ==
  /\ Reads(r, "setGuestBlacklisted", g)
  /\ UNCHANGED row

\* Mutant: the whole row is written back as it was read, before the erasure.
BlacklistWholeRow(r, b) ==
  /\ Commits(r, "setGuestBlacklisted")
  /\ ~Locked(Target(r))
  /\ row' = [row EXCEPT ![Target(r)].blacklisted = b, ![Target(r)].personal = Fields]

\* The UPDATE waits for the row and sets one column.
BlacklistCommit(r, b) ==
  /\ Commits(r, "setGuestBlacklisted")
  /\ ~Locked(Target(r))
  /\ row' = [row EXCEPT ![Target(r)].blacklisted = b]

\* Not found, an error, a lost connection, or the end of a query or of a look at
\* an ID number.
Rollback(r) ==
  /\ request[r] # Idle
  /\ End(r)
  /\ UNCHANGED <<accessVars, row>>

Handle(r) ==
  \/ Search(r) \/ AnonymiseCommit(r) \/ Rollback(r)
  \/ \E g \in Guests : Reveal(r, g) \/ AnonymiseLock(r, g) \/ BlacklistRead(r, g)
  \/ \E g \in Guests, given \in {{"identity"}, Fields} : CreateGuest(r, g, given)
  \/ \E b \in BOOLEAN : BlacklistCommit(r, b)

Asked == {"searchGuests", "createGuest", "revealIdNumber", "setGuestBlacklisted", "anonymiseGuest"}

Next ==
  \/ AccessNext /\ UNCHANGED row
  \/ \E r \in Requests : Handle(r)
  \/ \E r \in Requests, u \in Users, op \in Asked, p \in Properties :
       BeginRequest(r, u, op, p) /\ UNCHANGED row

Spec == Init /\ [][Next]_<<accessVars, request, row>>

-----------------------------------------------------------------------------
(* Properties.                                                             *)

\* Whatever rows a request reaches, its user held, at the property those rows
\* belong to and no longer than one token's life before the guards let the
\* request in, a role the operation allows ("a manager demoted to front desk
\* loses cashiering within one access-token lifetime").
TouchesAreGranted ==
  \A r \in Requests : request[r] # Idle =>
     \A g \in request[r].rows : \E role \in Permitted[request[r].op] :
       HeldLately(request[r].user, PropertyOf[g], role, request[r].since)

\* "We destroy the personal data and keep the skeleton": an erased profile
\* says nothing about anyone, whoever else was at work on it.
ErasureHolds ==
  \A g \in Guests : row[g].erased => row[g].exists /\ row[g].personal = {}
=============================================================================
