------------------------------ MODULE MCGuests ------------------------------
(* A guest of one hotel, which Bob runs and where Ann works at the desk;    *)
(* Ann also manages another hotel. Two requests at once.                    *)
EXTENDS Guests

CONSTANTS ann, bob, alpha, beta, g1, r1, r2

Staff == {<<ann, alpha, "MANAGER">>, <<ann, beta, "FRONT_DESK">>, <<bob, beta, "ADMIN">>}
Homes == g1 :> beta
RequestSymmetry == Permutations({r1, r2})

\* The permissions say what the roles are for: the till's operators change
\* nothing but orders, auditors and housekeepers take no money, and each
\* property's ledger is corrected by its managers alone.
Queries == {"availability", "quote", "reservation", "reservations", "arrivals", "departures",
          "tapeChart", "frontDeskBoard", "currentProperty", "folio", "guest", "searchGuests",
          "guestByIdNumber", "guestStays", "housekeepingBoard", "housekeepingAttendants",
          "roomTypes", "rooms", "ratePlans", "ratePrices", "outlets", "menu", "openOrders",
          "posOrder", "chargeableRooms", "nightAuditRuns", "occupancyReport",
          "dailyRevenueReport", "channels", "channelBookings", "channelSyncLog", "simulatedAri"}
Changes(role) == {op \in DOMAIN Permitted \ Queries : role \in Permitted[op]}

ASSUME Separation ==
  /\ Queries \subseteq DOMAIN Permitted
  /\ Changes("POS_OPERATOR") = DOMAIN PosOps \ Queries
  /\ Changes("AUDITOR") = {}
  /\ Changes("HOUSEKEEPING") \cap (DOMAIN FolioOps \cup DOMAIN PosOps \cup DOMAIN ReservationOps) = {}
  /\ \A op \in DOMAIN Permitted : "ADMIN" \in Permitted[op]
=============================================================================
