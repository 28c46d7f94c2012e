------------------------------- MODULE Access -------------------------------
(***************************************************************************)
(* Who may do what at which hotel.  A request passes three guards - a valid *)
(* access token, a role at the property it names, a role the operation      *)
(* allows - and then works in a transaction scoped to that property.  The   *)
(* roles are those the token was signed with: grants that change afterwards *)
(* are noticed when it expires.                                             *)
(***************************************************************************)
EXTENDS Integers, FiniteSets, TLC

CONSTANTS
  Users, Properties,
  Requests,       \* requests in flight at once
  InitialGrants,  \* who works where, as what
  Lifetime,       \* of an access token, in ticks
  MaxClock,       \* bound: ticks
  MaxRevoked      \* bound: grants taken away

Role == {"ADMIN", "MANAGER", "FRONT_DESK", "HOUSEKEEPING", "POS_OPERATOR", "AUDITOR"}

ASSUME GrantsAssumption   == InitialGrants \subseteq Users \X Properties \X Role
ASSUME LifetimeAssumption == Lifetime \in Nat \ {0} /\ MaxClock \in Nat

-----------------------------------------------------------------------------
(* The operations of each resolver and the roles that may call them.       *)

Managers  == {"ADMIN", "MANAGER"}
Desk      == Managers \cup {"FRONT_DESK"}
Till      == Desk \cup {"POS_OPERATOR"}
Reporters == Managers \cup {"AUDITOR"}

For(roles, operations) == [o \in operations |-> roles]

ReservationOps ==
  For(Role, {"availability", "quote", "reservation", "reservations", "arrivals", "departures"})
    @@ For(Desk, {"createReservation", "cancelReservation", "modifyReservation",
                  "assignRoom", "checkIn", "checkOut"})

FrontDeskOps == For(Role, {"frontDeskBoard"})
TapeChartOps == For(Role, {"tapeChart"})
PropertyOps  == For(Role, {"currentProperty"})

FolioOps ==
  For(Desk \cup {"AUDITOR"}, {"folio"})
    @@ For(Desk, {"postCharge", "postPayment", "issueInvoice"})
    @@ For(Managers, {"voidFolioLine"})

GuestOps ==
  For(Role, {"guest", "searchGuests", "guestByIdNumber", "guestStays"})
    @@ For(Desk, {"createGuest"})
    @@ For(Managers, {"revealIdNumber", "setGuestBlacklisted"})
    @@ For({"ADMIN"}, {"anonymiseGuest"})

HousekeepingOps ==
  For(Role, {"housekeepingBoard"})
    @@ For(Managers, {"housekeepingAttendants", "generateHousekeepingBoard",
                      "createHousekeepingTask", "assignHousekeepingTask",
                      "inspectHousekeepingTask"})
    @@ For(Managers \cup {"HOUSEKEEPING"}, {"startHousekeepingTask", "completeHousekeepingTask"})

InventoryOps ==
  For(Role, {"roomTypes", "rooms", "ratePlans", "ratePrices"})
    @@ For(Managers, {"createRoomType", "createRoom", "createRatePlan", "setRatePrices"})
    @@ For(Desk \cup {"HOUSEKEEPING"}, {"updateRoomStatus"})

PosOps ==
  For(Till, {"outlets", "menu", "openOrders", "posOrder", "chargeableRooms", "openOrder",
             "addOrderLine", "removeOrderLine", "chargeOrderToRoom", "voidOrder"})

NightAuditOps == For(Managers, {"runNightAudit"}) @@ For(Reporters, {"nightAuditRuns"})

ReportingOps == For(Reporters, {"occupancyReport", "dailyRevenueReport"})

ChannelOps ==
  For(Managers, {"channels", "channelBookings", "channelSyncLog", "simulatedAri",
                 "connectChannel", "setChannelEnabled", "mapChannelRoomType",
                 "mapChannelRatePlan", "resyncChannel", "simulateChannelBooking"})

Permitted ==
  ReservationOps @@ FrontDeskOps @@ TapeChartOps @@ PropertyOps @@ FolioOps @@ GuestOps @@ HousekeepingOps @@ InventoryOps
    @@ PosOps @@ NightAuditOps @@ ReportingOps @@ ChannelOps

-----------------------------------------------------------------------------
VARIABLES
  now,
  grants,     \* user_property_roles
  heldUntil,  \* history: the last tick each grant was in force
  token,      \* each user's access token: the roles it carries, its expiry
  request     \* what each request in flight is doing

accessVars == <<now, grants, heldUntil, token>>

NoToken == [roles |-> {}, expires |-> 0]
Idle    == [op |-> "none"]

\* What user u held at p, as what, within one token's life of tick t.
HeldLately(u, p, role, t) ==
  LET g == <<u, p, role>>
  IN  g \in InitialGrants /\ heldUntil[g] + Lifetime >= t

AccessInit ==
  /\ now = 0
  /\ grants = InitialGrants
  /\ heldUntil = [g \in InitialGrants |-> 0]
  /\ token = [u \in Users |-> NoToken]
  /\ request = [r \in Requests |-> Idle]

-----------------------------------------------------------------------------
(* Tokens, grants and time.                                                *)

\* Mutant: a refresh carries over the roles of the token it replaces.
RolesFromToken(u) ==
  IF token[u] = NoToken THEN {<<g[2], g[3]>> : g \in {x \in grants : x[1] = u}}
                        ELSE token[u].roles

\* Read afresh from the database, in a transaction scoped to the user.
LoadRoles(u) == {<<g[2], g[3]>> : g \in {x \in grants : x[1] = u}}

\* login, or refreshToken.
SignIn(u) ==
  /\ token' = [token EXCEPT ![u] = [roles |-> LoadRoles(u), expires |-> now + Lifetime]]
  /\ UNCHANGED <<now, grants, heldUntil, request>>

\* Roles are taken away outside the application.
Revoke(g) ==
  /\ g \in grants
  /\ Cardinality(InitialGrants \ grants) < MaxRevoked
  /\ grants' = grants \ {g}
  /\ UNCHANGED <<now, heldUntil, token, request>>

Tick ==
  /\ now < MaxClock
  /\ now' = now + 1
  /\ heldUntil' = [g \in InitialGrants |-> IF g \in grants THEN now + 1 ELSE heldUntil[g]]
  /\ UNCHANGED <<grants, token, request>>

-----------------------------------------------------------------------------
(* The guards.                                                             *)

\* JwtAuthGuard.
Authenticated(u) == now < token[u].expires

\* PropertyContextGuard takes one of the roles the token claims at p.
RolesAt(u, p) == {c[2] : c \in {x \in token[u].roles : x[1] = p}}

\* RolesGuard lets the request through to a transaction scoped to p.
BeginRequest(r, u, op, p) ==
  /\ request[r] = Idle
  /\ Authenticated(u)
  /\ \E role \in RolesAt(u, p) : role \in Permitted[op]
  /\ request' = [request EXCEPT ![r] = [op |-> op, user |-> u, scope |-> p, since |-> now,
                                        rows |-> {}]]
  /\ UNCHANGED accessVars

End(r) == request' = [request EXCEPT ![r] = Idle]

AccessNext ==
  \/ \E u \in Users : SignIn(u)
  \/ \E g \in InitialGrants : Revoke(g)
  \/ Tick
=============================================================================
