# Formal verification of the hotel operating system

TLA+ specifications of the parts of this repository where several people and
processes change the same rows: the front desk and the counters that sell rooms,
guests' bills, restaurant orders and the night audit, the housekeeping board, the
outbox and the sales channels, sessions, and who may reach which guest's row. TLC
checks the specifications on small hotels; TLAPS proves the most important results
for hotels of any size.

Contents: [the system](#the-system) ·
[modules and code](#modules-and-code) · [what the runs show](#what-the-runs-show) ·
[bounds](#bounds) · [fairness](#fairness) · [proofs](#proofs) ·
[where the code and its documents differ](#where-the-code-and-its-documents-differ) ·
[plan](#plan) · [not modelled](#not-modelled) · [running it](#running-it)

## The system

The API is a NestJS monolith (`src/apps/api/src`) over one PostgreSQL database at
READ COMMITTED, with Valkey for sessions and a Next.js client (`src/apps/web`). A
service method is one transaction (`shared/unit-of-work.ts`) that writes the rows,
the audit log and the outbox events together. Atomicity within a method therefore
comes for free; what does not is everything a method reads without a row lock, and
everything that takes more than one transaction.

| Component | State | Operations | Hard part | Correct means |
|---|---|---|---|---|
| Reservations (`modules/reservations/application/reservations.service.ts`, `availability.service.ts`) | reservations, their room lines, `room_type_availability.sold` per type and night, the `no_double_booking` exclusion constraint | create, cancel, modifyDates, assignRoom, and the reads | two sales of the last room; a counter changed by five different handlers; assignRoom does not lock the reservation | the counters are exactly the live lines; no type is oversold; no room has two guests on one night |
| Stays (`stay.service.ts`) | the same rows, `rooms.status`, the folio | checkIn, checkOut | lines, balance and rooms are read without locks and written later | status, room board and bill move together |
| Status machines (`packages/domain`) | – | the TRANSITIONS tables | handlers that write without consulting them | every status change is in the table |
| Folio ledger (`modules/folio`) | folios, append-only lines, invoices | postCharge, postPayment, voidLine, close, issueInvoice; the audit's room charges | a void reads the line before it locks; a posting or a room charge beside a closing; rates and dates that change mid-stay | a void takes its tax with it and happens once; each night is billed like a quote of it |
| Money and tax (`packages/domain/src/money.ts`, the taxing code of quote, folio and audit) | – | rounding, tax, allocation | three places tax an amount | they agree up to rounding; a split loses nothing |
| Point of sale (`modules/pos`) | outlets, orders | open, add, remove, charge to room, void | a double tap; an edit beside the charge; the folio is found by room without a lock | an order is on one bill exactly once |
| Inventory (`modules/inventory`) | rooms, room types, rate plans and prices | updateRoomStatus, setRatePrices, creation | a room leaving service while it is sold or assigned | the manual moves keep out of the desk's |
| Night audit (`modules/night-audit`) | `night_audit_runs`, the business date | run: five steps in order, each its own transaction | failure and crash between steps; two operators; the desk booking, moving and cancelling meanwhile | nobody charged twice, no day skipped, a closed day stays closed, every day closes |
| Reporting (`modules/reporting`) | `daily_stats` | snapshotDaily, reports | the row is upserted | a closed day's figures agree with the ledger and never change |
| Housekeeping (`modules/housekeeping`, `packages/domain/src/housekeeping-task-machine.ts`) | tasks, the room statuses they move, lost property | generate board, create, assign, start, complete, inspect | two queries of the board with a check-out between them; a failed inspection beside the desk | no room falls off the board; no unfit room is sold; an occupied room stays so |
| Outbox (`shared/outbox`, `shared/events`, `shared/events/pubsub.ts`) | `outbox_events` | drain, publish, mark | failing handlers, replicas, a crash before the mark | every event reaches every handler at least once |
| Channel manager (`modules/channels`) | channels, mappings, inbound receipts, outbound pushes | ingest; enqueue, push, retry; connect, enable, map, resync | redelivery and crash between four transactions; a push whose snapshot is old; two relays on one night | one reservation per delivery; the channel ends with the latest availability |
| Sessions (`modules/identity/application`, `modules/identity/infra/session-store.ts`, `apps/web/lib/auth-context.tsx`, `apollo-client.ts`) | refresh-token families in Valkey, the browser's cookie and tabs | login, refresh with rotation, reuse detection, logout | revoking is several commands; tabs share a cookie; answers get lost, requests fail half-way, keys expire | a token is spent once; a disabled account gets nothing; the application does not log its own user out; a revocation finds every session |
| Access and tenancy (`modules/identity/guards`, `db/tenant-transaction.ts`, `drizzle/0001_rls_policies.sql`, the resolvers) | roles in a token, grants in the database, row-level security | three guards, then a transaction scoped to one property | roles outlive the grant they came from | every row reached was within a role lately held at its property |
| Guests (`modules/guests`) | profiles, the audit trail | create, search, reveal the ID number, blacklist, erase | a read in one statement, a write in a later one, an erasure between | an erased profile stays empty; nobody reads a row they may not |

How they interact: check-in and check-out call the folio service and write rooms in
the reservation's own transaction. The night audit reads reservations, writes folio
lines, releases counters, moves the business date that every posting takes, and
calls reporting and housekeeping. A restaurant order posts through the folio service
inside its own transaction. Bookings from channels go through
`ReservationsService.create`. Everything else hears of a change through the outbox:
the worker that queues availability for the channels and the bridge to the browsers'
subscriptions are its two handlers.

## Modules and code

| Module | Models | With |
|---|---|---|
| `HotelMachines` | `reservation-state-machine.ts`, `room-status-machine.ts`, half-open nights | – |
| `RoomNights` | what the desk promises, with nothing of how: claims on nights of rooms | abstract specification |
| `FrontDesk` | create, cancel, modifyDates, assignRoom, updateRoomStatus, postings, checkIn, checkOut, the audit's charging and no-show steps, the change of date | implements `RoomNights` |
| `NightAudit` | `run()`: run row, five steps, recording, failures, crashes, several operators, beside a desk that books, moves, cancels, checks in and out | – |
| `Money` | rounding, tax, allocation | used by `FolioLedger` |
| `FolioLedger` | folio lines, voids, room charges at the rates of the moment, changes of rates and departures, check-out | used by `PosOrders` |
| `PosOrders` | restaurant orders charged to a room | composes with `FolioLedger` |
| `Outbox` | bookings, rooms out of order, the events emitted, the relay and its replicas | used by `ChannelSync` |
| `ChannelSync` | the worker, the push queue, the sync relay, the manager's configuration | used by `ChannelManager` |
| `ChannelManager` | deliveries from channels beside the desk | composes the two above |
| `Housekeeping` | the tasks of a day, beside the desk | – |
| `Sessions` | `AuthService` and `SessionStore` beside a browser with several tabs | – |
| `Access` | guards, grants, tokens, the roles of every operation | used by `Guests` |
| `Guests` | guest profiles under row-level security | composes with `Access` |
| `FrontDesk_proof` | theorems about types, locks, rooms, counters, statuses, bills, the room board | extends `FrontDesk` |
| `FrontDesk_refinement` | that the desk implements `RoomNights` | extends `FrontDesk_proof` |
| `NightAudit_proof` | theorems about charges, run rows, statistics and the business date | extends `NightAudit` |
| `PosOrders_proof` | theorems about sums, voids, orders and quotes | extends `PosOrders` |
| `ChannelManager_proof` | theorems about deliveries, events and what channels know | extends `ChannelManager` |
| `Housekeeping_proof` | theorems about tasks, rooms and boards | extends `Housekeeping` |
| `Sessions_proof` | theorems about tokens and authority | extends `Sessions` |
| `Guests_proof` | theorems about touched rows and erasure | extends `Guests` |

An `MC…` module beside a component gives TLC its small instances. `PROJECT.json`
maps every definition to the lines it stands for.

### FrontDesk and RoomNights

* `status`, `stay` are the reservation's columns; every handler writes the same
  values to the reservation's lines, so a line keeps only `roomOf`. `sold[t][n]` is
  one counter row. `total - blocked` is recomputed from the rooms by each
  `ensureAndLock`, so it is the operator `Sellable` and not a variable.
* A handler that reads everything it acts on under row locks is **one action**:
  create, cancel, modifyDates, postings, updateRoomStatus. assignRoom reads the
  room's status without a lock; what that allows (an assigned room that is out of
  order) also arises when the room is taken out of order a moment later, so it too
  is one action.
* checkIn, checkOut and the audit's charging and no-show steps act on rows they have
  not locked, so each is a **read** that stores in `pending[s]` what it saw, and a **commit** that writes from
  that memory. `Locked(r)` is the row lock check-in and check-out hold from their
  read on; the audit's steps and `assignRoom` do not ask for it before reading, and
  the no-show commit waits for it because its UPDATE does. `RoomChargesCommit` waits
  for nothing: it adds to whatever folio its list names, settled or not, because the
  audit inserts lines without locking the folio or looking at its status. `Rollback(s)` covers a refused
  guard, a deadlock victim, a lost connection and a crash: the transaction leaves
  nothing behind.
* `Overlaps` is the set of pairs ⟨p, op⟩ such that op may commit while a p has read
  and not yet committed. It is how a run or a theorem says which races it excludes:
  the full set is the code. `MoveInHouse` and `JoinOccupied` say whether clerks use
  two things the code lets them do (see [below](#where-the-code-and-its-documents-differ)).
* Every reservation starts CONFIRMED, as `create` writes it; nothing in the code
  creates an ENQUIRY. `folioFor`'s opening of a missing folio on posting is not
  reachable: check-in opens it.
* One folio per reservation, its balance an integer within ±`MaxBalance`; whether
  check-out asks for zero is the point, what the lines are called is `FolioLedger`'s.
* `AdvanceBusinessDate` is the audit's fourth step as the desk sees it.
* `RoomNights` has a booking's life and the room nights each line claims. Under the
  mapping a line claims the nights of its room while its booking is live, which the
  code computes from three columns; counters, board, folios and pending reads are
  not seen. `KeepsRoomNights` is `RoomNights!Spec` under that mapping.

### NightAudit

* `op[o]` is one call of `run()`: the date it read at the start, the position in
  `AUDIT_STEPS`, the steps it found done (`skip`), its own list (`done`), and between
  the read and the write of the charging or the no-show step the lines it `listed`.
  `Crash` drops it.
* The phases are the transactions of the call: `start` (the property was read),
  `insert` (no run row was found), `step`, `post` (the in-house list was read), `sweep` (the no-shows were listed),
  `record` (the step committed, `recordSteps` did not yet).
* `FailStep` is the catch block: it writes FAILED with the call's own list. It also
  happens when recording a step throws, and then the list holds that step.
  `NoRateLoaded` is the one failure the desk's data causes; `StepFault` is any other.
* `charged[l][d]` counts the ROOM lines of a night; the unique index behind
  `ON CONFLICT DO NOTHING` is in `Charge`. `extra` counts all other lines of a date.
  A rate is either loaded for a date or not (`priced`).
* Nothing is locked between a step's list and its write: `PostRoomCharges` charges and
  `MarkNoShows` writes NO_SHOW to whatever was listed. The counters of the latter are in
  `FrontDesk`, the money of the former in `FolioLedger`.
* The desk: `Create` and `ModifyDates` (to any dates, begun or gone ones included, as the
  code allows), `Cancel`, `CheckIn`, `CheckOut`, `PostExtra`, `PriceNight`. Two
  histories say what it does to the audit: `swept`, the dates whose no-shows were marked,
  and `late`, the lines a booking or a change of dates put on a date when its no-shows
  had been listed.
* `DeskDuringAudit = FALSE` keeps the desk still from a date's first call until the
  date has moved, across failures and restarts.

### Money, FolioLedger, PosOrders

* A ledger line has what a correction depends on: amount, its tax, parent, what it
  reverses, date, and a `source` (the folio screen, the night audit or an order), so
  that `ref` and `description` are not strings. A posting is one call of `Post`: the
  charge and its tax lines, or a void's reversals, in one transaction.
* `voidLine` reads the line and looks for its reversal before `loadOpenFolio` takes the
  lock, and looks for its tax children after it; its insert runs into the unique index
  on `reverses_line_id`: `VoidLineRead` stores the line, `VoidLineCommit` reverses it
  `WithChildren`, once (`OneReversalPerLine`). Check-out and charging an order to a room
  are read and commit as well; the order's row lock is `LockOrder`.
* The night audit's charging is `RoomChargesRead`, the in-house list for the date the
  call audits, which with two operators may be a date that has passed, and
  `RoomChargesCommit`, the insert on whatever folios are listed. The list is everybody
  in the house who leaves later: it does not ask when they were to arrive, and
  check-in does not either, so a guest who came early pays for those nights too, and so
  does one whose stay was extended. `SetRatePrices` and `ModifyDates` (of the departure)
  run beside it; the audit bills the rate of the grid at that moment, not the booking's
  quote. `loaded` remembers every rate a date has had.
* A tax table is chosen at the start: nothing in the application changes it. A tax
  has a name, a type, a rate in basis points and a threshold; a property has one tax
  of a name (`taxes_property_name_uq`), so a posting's lines are told apart by their
  `Parts`. `ChargeLines` honours the threshold; `NightLines` and `QuoteTotal` do not,
  because `buildRoomCharge` of the audit and the quote do not. `MayRewriteLines` is the
  missing UPDATE privilege on `folio_lines`.
* `close` is in `CheckOutCommit`, its only caller.

### Outbox, ChannelSync, ChannelManager

* A booking has a room type and a set of nights; whether the sale fits is `CanHold`,
  the outcome of what `FrontDesk` models with counters and locks. Each change emits
  its event in the same step, as `Outbox.emit` does inside the unit of work.
* `rooms` counts the rooms of a type that are neither OOO nor OOS, which the
  availability subtracts live. `ChangeRoomStatus` takes one out of order or brings it
  back, and emits nothing that the worker hears.
* `drain[q]` is a replica's transaction: rows claimed with SKIP LOCKED, still to
  publish, delivered. `publish` awaits every handler of an event; the two that exist
  are in `PublishEvent`. The worker queues in a transaction of its own and swallows
  its errors; the bridge's failure makes the event undelivered, and the worker then
  queues a second time on the retry.
* `unseen` are bookings a browser would show as they were before the last change; the
  bridge clears one by telling it to refetch.
* `sync[s]` is the sync relay's transaction: claimed rows, the push under way with
  its snapshot, those sent and those failed. Reading the availability and calling the
  channel are separate steps, so a booking can change between them. A crash rolls the
  rows back and the channel keeps what it heard.
* `excused` records the nights the code tells no channel about: a no-show's release, a
  room that goes out of order or comes back, a failed queueing, a channel switched on or
  re-mapped, nights beyond the resync's horizon at the start; and those two replicas
  push at once, when the older numbers may land last. A night stops being excused when a
  push reads it again (`BuildAri`) or a `Resync`, which covers `Horizon` (30 days in the
  code), queues it.
* A delivery is four transactions (`RecordReceipt`, `ResolveMapping`,
  `CreateReservation`, `Confirm` or `Reject`), `CallFails` between any two. A
  redelivery finds the receipt and changes nothing; it is the guard `FirstDelivery`.

### Housekeeping

* One business day. `task[<<room, type>>]` is the row under the unique key (room,
  type, date). `complete` and `inspect` lock the task, then the room, so each is
  three steps with `job[j]` holding what was read; `assign`, `start` and `createTask`
  lock one row and are one action.
* `generateBoard` takes no lock and is three statements, which see three different
  moments: `GenerateBoardGuests`, `GenerateBoardDirty`, and the inserts of
  `GenerateBoardCommit`. A room made dirty after the second waits for the next run.
* The desk appears as far as it moves rooms: `CheckIn`, `CheckOut`,
  `UpdateRoomStatus`, all through the room machine.
* `unfit` is history: a room an inspector turned down and nobody has reported clean.

### Sessions

* `live[f]` is the key `rt:<user>:<family>`, `index` the set `rt:families:<user>`;
  each script or MULTI of the store is one step, and every query of `AuthService`
  another. A token is the index of its minting and remembers the one it replaced.
* A request is in flight until its answer arrives, and the answer may be lost. The
  tabs share the cookie; `refreshOnce` holds within one tab only, since its promise is
  a module variable of a page.
* There is no clock: an access token may be refused at any moment, which is when a tab
  refreshes, and a family's key or a user's list may expire at any moment
  (`FamilyExpires`, `IndexExpires`; a rotation renews the family's life only, a login
  both).
* `Fails(c)`: a query, a command of the store or the signing throws. Before the token is
  exchanged that costs nothing; after `rotate` the new token is live and never handed
  out. `logout` swallows the store's errors, so its cookie goes and the family may stay.
* Three histories: `strained` (two tabs refreshed at once, or a new token was lost),
  `tripped` (reuse was detected), `unlisted` (families whose login overtook a
  revocation, which reads the list and deletes it in two steps, or that outlived the
  list).

### Access and Guests

* `Permitted` is the `@Roles` of all 69 queries and mutations; `Authenticated`,
  `RolesAt` and `BeginRequest` are the three guards in their order. A token carries
  the roles it was signed with until it expires, and `SignIn` reads them afresh.
  Grants are only ever taken away, outside the application.
* `TenantIsolation` is the row-level security policy: every statement of a request is
  confined to the property its transaction was scoped to. Here it is evaluated at each
  read, not where the code would have put a WHERE.
* The statements of a handler are steps: reveal reads, then commits; blacklist
  reads without a lock, then updates one column; anonymise locks, then clears. The rows
  of the audit log are not modelled. `Search` is any of the four queries that return profiles.

## What the runs show

TLC finishes each of these without an error.

| Run | Properties | Shows |
|---|---|---|
| `desk_any_overlap` | `TypeOK`, `NoDoubleBooking` | Under every overlap the code allows, the no-show step included, no room is promised to two live stays on a night and no counter becomes negative. |
| `desk_alone` | `SoldMatchesHeld`, `NeverOversold`, `FolioFollowsStay`, `SettledAtZero` | If nothing commits beside the no-show step, no posting or room charge falls inside a check-out and no check-out beside the charging step, the counters are the live lines, no night is oversold, folios follow stays and settled ones are at zero. All other handlers overlap freely. A party of two room types competes with a single booking, so a sale must also move only its own type. |
| `desk_careful` | `RoomBoardAgrees`, `KeepsRoomNights` | If clerks neither move guests who are in-house nor check anybody in to an occupied room, and nobody assigns a room or checks in beside a check-in, the board says OCCUPIED exactly where a guest is; and the desk implements `RoomNights`. |
| `audit_two_operators` | `TypeOK`, `OneRoomChargePerNight`, `ClosedDaysAreClosed`, `RecordedStepsHappened`, `NeverWedged`, `DateMovesByOne` | Two operators at once, a desk that books and moves bookings, a fault anywhere: nobody is charged twice for a night, the date moves one audited day at a time, a closed day has its statistics and whoever is still expected on it was put there after its no-shows were listed, a recorded step has happened, and the current date's run never blocks it. |
| `audit_desk_closed` | `SnapshotAgreesWithLedger`, `NightsCharged` | With the desk closed, two racing operators and a fault still charge everyone in the house who stays past the night and freeze figures that agree with the ledger. |
| `audit_progress` | `FrozenSnapshot`, `EveryDayCloses` | One operator at a time, beside a desk that books and moves bookings, never rewrites a closed day's statistics, whatever fails; and every day closes. |
| `ledger` | `TypeOK`, `VoidsAreWhole`, `OrderBilledOnce`, `BillFollowsQuote` | Two requests at a time on two bills, two charging calls among them, under a slab tax and an inclusive one, with rates and departures that change: a void reverses the charge and all its tax, each line once; an order is on one bill with what it came to; what the audit has billed is, but for rounding, a quote of those nights, each once, at a rate its date has had. |
| `channel_deliveries` | `TypeOK`, `OneReservationPerDelivery`, `NeverHalfHappens`, `NoSilentDrift`, `ScreensFollow` | A booking delivered twice at once competes with the desk for one room, over two outbox replicas, two sync relays, a room going out of order and a fault anywhere: one reservation, a receipt that tells the truth, every change of availability still on its way or excused, every stale screen still to be told. |
| `channel_sync` | `ChannelsCatchUp` | Failed pushes, crashed batches, failed handlers and a manager's resync: once changes stop, an enabled channel ends up with the availability there is. |
| `housekeeping` | `TypeOK`, `GuestRoomsStayOccupied`, `UnfitStaysUnsold`, `ClaimedWorkIsKept`, `BoardMissesNobody` | Two attendants and a supervisor work while the desk checks guests in and out: an occupied room stays so, a room that failed inspection is not sold, work stays with its owner, the board leaves out no room that had a guest or was dirty when it asked. |
| `sessions` | `TypeOK`, `TokenSpentOnce`, `FreshAuthority`, `AppNeverLogsItselfOut`, `LogOutReachesAll` | Two tabs with one cookie, a lost answer, a request that fails half-way or an expired key, an account disabled or demoted in mid-flight: a refresh token is exchanged once, tokens carry authority the account lately had, and reuse detection strikes the application's own user, and a session escapes a revocation, only in the cases named [below](#where-the-code-and-its-documents-differ). |
| `guests` | `TouchesAreGranted`, `ErasureHolds` | A clerk who is a manager elsewhere and an owner, roles withdrawn and tokens expiring, two requests at once: nobody reaches rows outside a role they lately held there, an erased profile stays empty. |

Each property has a mutant: a definition marked `Mutant` beside the one it distorts
(a dropped WHERE, a lock not taken, a swapped step, a result ignored), under which TLC
finds the property violated in the same run.

TLC also evaluates three kinds of assumption before it starts: the modules' own about
their constants; `AllocationIsExact` of `MCPosOrders` (a split of an amount loses
nothing and its parts differ by a unit at most, which `SplitsAreExact` proves for every
amount); and `Separation` of `MCGuests` (the
till's operators change nothing but orders, auditors change nothing, housekeepers take
no money, an administrator may do everything).

## Bounds

Every bound is a named constant. Deadlock checking is off in every run because dates,
postings, faults, tokens and changes are bounded, so behaviours end. Symmetry is used
for people, requests and rooms that are alike, and in no run with a liveness property.

* **FrontDesk**: three dates, so two nights: stays can overlap, touch and contain each
  other. Two sessions let any two check-ins, check-outs or no-show steps overlap; all
  other handlers need none. `desk_any_overlap` has one line per booking and two rooms,
  and every overlap. `desk_alone` has a party of two types, a single booking and one
  room of each type, so a night sells out and a room can go out of order;
  `MaxBalance` 1 with one amount lets a folio owe, be overpaid and be even, by a posting
  or by the audit's charging step.
  `desk_careful` has three rooms of one type, so a party of two and a single guest are
  in the house together and a batch of no-shows gives back several lines of one night.
* **NightAudit**: three dates, so two audits follow each other and a late call for the
  first meets the second. `audit_desk_closed` has one guest for both nights, another for
  the second night only and one other posting per date. The two runs with an open desk
  have one booking, which may be there from the start or be made later, and one new
  booking or change of dates (`audit_two_operators`) or two (`audit_progress`): enough
  to arrive on a day that is being swept, and a second booking would meet only the same
  steps. Two operators (a third could only repeat what the second does to the first) or
  one; one or two faults.
* **Ledger**: two guests, one for two nights and one for one; three postings and changes of
  rates or departures together, enough for a charge, its void and an order, for two
  nights and a void, or for a night, a new rate and the next night; one other rate; one
  order of a line, added and removed at will, whose tax does not divide evenly; two
  sessions, so two calls may charge one night. The cheap night is under the slab's threshold and the dear one
  above it.
* **Channels**: one room for two nights and one channel, so one sale decides whether
  another fits. `channel_deliveries`: two bookings, a delivery given to two calls at
  once, two relays with batches of two, two sync relays with batches of one, one fault,
  two changes of bookings or rooms. `channel_sync`: one booking with two changes, one
  relay and one sync relay with batches of one and two, one configuration step; a
  liveness check needs the smaller instance, and what several relays do to each other is
  `channel_deliveries`' question. Its `Horizon` is the first of the two nights, so a
  resync leaves a night out.
* **Housekeeping**: one room with all its task types, since every handler is about one
  room; two attendants who may claim the same task, a supervisor, two open
  transactions.
* **Sessions**: one user, two tabs, two requests in flight, three tokens: a login and
  two rotations, or two logins and one. One fault: a lost answer, a failed request or
  an expired key.
* **Guests**: two users with roles at two properties, one profile, two requests. Tokens
  live one tick of a clock that reaches two, so one can outlive the role it carries and
  then expire. One role is withdrawn.

## Fairness

Only the two runs with liveness use it.

* `audit_progress`: a call that has begun takes its next step (the process runs, the
  database answers); while days are left somebody presses the button again (the audit
  has no scheduler, a person runs it every night); a missing rate is loaded in the end.
* `channel_sync`: both relays poll on a timer (`outbox.relay.ts`,
  `channel-sync.relay.ts`), so a replica that can take a step does, and the delay after
  a failed push runs out. Nobody is bound to book, deliver or configure anything.

All are weak. Failures and crashes are not fair, only bounded: with failures that never
end neither the audit nor a push completes, in the code as here.

## Proofs

TLAPS proves the following for every value of the constants that satisfies the
modules' named assumptions (identifiers well formed, sets finite where they are counted
or added up, taxes of a table told apart by their names, bounds natural numbers). A
theorem about the code with a gap closed has that as an explicit hypothesis: it is
never an assumption of the module, and the instance a run checks satisfies it.

### FrontDesk_proof, FrontDesk_refinement

| Theorem | Extra assumption |
|---|---|
| `TypeCorrect`: `TypeOK` | – |
| `LocksAreEnough`: `LocksHold` | – |
| `RoomsAreNeverDoubleBooked`: `NoDoubleBooking` | – |
| `CountersAreExact`: `SoldMatchesHeld` | `NoShowAlone` |
| `NightsAreNeverOversold`: `NeverOversold` | `NoShowAlone` |
| `StatusesMoveLegally`: `LegalTransitionsOnly` | `NoShowAlone` |
| `BillsFollowStays`: `FolioFollowsStay` | `NoShowAlone` |
| `FoliosSettleAtZero`: `SettledAtZero` | `PostingWaits` |
| `BoardsAgree`: `RoomBoardAgrees` | `DeskTakesTurns` |
| `DeskKeepsRoomNights`: `KeepsRoomNights` | `NoShowAlone` |

`NoShowAlone` says no handler commits between the no-show step's read and its commit;
`PostingWaits` that no posting and no charging step of the audit commits between a
check-out's balance check and its commit, and no check-out between the charging step's
list and its insert. `DeskTakesTurns` adds to `NoShowAlone` that nobody assigns a room or checks
another guest in beside a check-in, and that clerks neither move guests who are
in-house nor check anybody in to an occupied room. The code ensures none of the three
(see below): the theorems say how large the gaps are. With them closed, everything else
may overlap.

None of the properties is inductive on its own. What is added, and why:

* `LocksHold` – a commit writes a status decided at the read; the step is legal only
  because the row lock kept the status.
* `Booked` – the lines of a reservation that does not exist yet have no room;
  otherwise creating it could double-book one.
* `Fresh` – what a no-show step has read is still so; the release by `Returned` equals
  the lines that stop holding, and its floor at zero is never used.
* `SoldWithinRooms` – the counters, not the lines, are what a sale is checked against;
  with `SoldMatchesHeld` this gives `NeverOversold`. Rooms out of order only make the
  check stricter.
* `BillsOpen` – a booking has no bill before its guest arrives and an open one while they
  stay. The charging step does not look at the folio's status, so this is what makes the
  folios it finds through guests open ones.
* `BalanceRead` – while a check-out is open, the balance it found zero is zero; while a
  charging step is open, none of the folios it listed has been settled.
* `RoomsRead`, `RoomToThemselves` – the rooms a check-in or check-out wrote down are
  still those of its lines when it writes to the board, and two bookings in the house
  never share a room, so a departure vacates nobody else's. `RoomBoardAgrees` needs both.

The counting argument is one lemma about cardinalities: the lines held before and
after a step differ by exactly the reservation's own lines of that type on that night.

The refinement adds `RoomsAssigned`: a check-in under way has a room for every line. It is
proved step by step: each handler is one booking's step of `RoomNights` (a booking, a
claim, an arrival, an end) or leaves the mapped state alone.

### NightAudit_proof

`AuditTypeCorrect`, `NobodyIsChargedTwice`, `AuditIsNeverWedged`,
`DateMovesOneDayAtATime`, for any number of operators, faults, lines and dates, and an
open desk. The invariant adds `CallsAreTrue` (a call audits a date that has come; it
lists as done, or has passed, the change of date only if the date has moved) and `RowsAreTrue` (the same of
a run row, and a completed row lies in the past).

`ClosedDaysWereWorked` and `RowsTellTheTruth` rest on `NothingSkipped`: each call's
list, and its position, count only steps that have happened
(`CallsCountWhatHappened`); each row lists only such steps (`RowsListWhatHappened`); a
date is passed only after its no-shows and statistics (`DaysAreWorked`). For who is
still expected on a closed day there is `LateIsKnown`: everybody due on a day that was
swept was put on it late, and everybody due on a day being swept is on the list or was. With two
operators a row is overwritten with either one's list, so the row's truth rests on every
call's list being true and not on the row's history.

The four below rest on `LedgerInv`, which holds if the desk stands still from a date's
first call until the date has moved (`~DeskDuringAudit`); the code does not ask for it.

| Theorem | Extra assumption |
|---|---|
| `StatisticsAgreeWithLedger`: `SnapshotAgreesWithLedger` | `~DeskDuringAudit` |
| `EveryNightIsCharged`: `NightsCharged` | `~DeskDuringAudit` |
| `StatisticsStayFrozen`: `FrozenSnapshot` | `~DeskDuringAudit` |
| `StatisticsStayFrozenAlone`: `FrozenSnapshot` | `[]OneCallAtATime` |

`LedgerInv` says that what a call or a row counts as done is still done *as it would be
done now*: the in-house list a call holds is the one it would read again
and nobody it has listed as a no-show is in the house (`ListsAreCurrent`), a charging step counted as done has charged everybody who stays
(`CallsCountSettled`, `RowsListSettled`), and a snapshot counted as done is what would
be taken again. That is why a second operator's repetition of any step changes nothing,
and why a date that has moved is settled for good (`MovedDaysSettled`). The last theorem
needs none of it: the desk may work, and one invariant (`PastItsDay`) says that a call
alone has changed the date itself before its day can close, so it is past the step that
writes the statistics.

### PosOrders_proof

`BillsTypeCorrect` (`TypeOK`), `CorrectionsAreWhole` (`VoidsAreWhole`),
`OrdersAreBilledOnce` (`OrderBilledOnce`) and `BillsFollowQuotes` (`BillFollowsQuote`),
for any number of folios, orders, requests and tax tables, and `SplitsAreExact` for any
amount and number of parts. The invariant has the
ledger's part, `LinesNumbered` (a line's number names it; tax hangs from the charge of
its own posting; a reversal points at a line that exists) with `RequestsTyped`, and the
orders' part, `ChargesExclude` (an order being charged is open and held by one request)
and `Billed`. A void's read is stale when it commits, and the proof shows why that is
harmless: charge and tax were posted together, lines are never removed, and a second
reversal of any of them makes the whole void fail.

Bills are sums over sets of lines, and the community modules add a set up by taking one
chosen element after another. That the order makes no difference is induction over
finite sets. The library states induction for a predicate, which the provers cannot
instantiate; `BySubsets` and `ByNaturals` state it for a *set* of subsets or numbers,
and follow from the existence of a least counterexample. From them come `SumUnfolds` (the
fold is what its recursion says), `SumOut`, `SumAdd`, `SumSame`, `SumLinear`,
`SumUnion` and `SumImage`, which the rest cites.

`BillsFollowQuotes` rests on one fact about rounding (`RoundedDivIsNearest`: off by half
at most) and an invariant, `Nightly`: for every date a bill has either no line of the
night audit or exactly the lines of one posting at a rate the date has had, whole and
unchanged by anything posted, voided, settled, repriced or extended since.

### ChannelManager_proof

`ChannelsTypeCorrect` (`TypeOK`), `DeliveriesAreBookedOnce`
(`OneReservationPerDelivery`), `DeliveriesGetAnOutcome` (`NeverHalfHappens`),
`BrowsersAreTold` (`ScreensFollow`) and `DriftIsOnItsWay` (`NoSilentDrift`), for any number of relays,
syncers, channels, deliveries and concurrent calls. The invariant is `OutboxInv` and
`InboundInv`. The first says that no two relays hold one row (`BatchesApart`, which is
SKIP LOCKED) and that for a booking a browser shows stale an event is still there that
nobody is about to mark (`Told`). The second says that a delivery past its receipt
belongs to one call (`CallsOwn`) and that receipts, calls and bookings tell one story
(`ReceiptsAgree`).

The invariant of `DriftIsOnItsWay`, `Drift`,
names for every night of a watched channel where the truth is: in an event nobody has
delivered (`EventAwaited`), in a row still to be pushed (`PushAwaited`), in the numbers
of a push under way (`OnItsWay`), or with the channel, while nothing under way could
overwrite it (`Known`). Two sync relays that push one night at once
break that, whichever lands last, which is why the step that lands a push excuses the
nights another has under way (number 13
[below](#where-the-code-and-its-documents-differ)). `NoSilentDrift` alone is not inductive: a row under way counts as
still to come there, even if its numbers were taken before the last booking. `SyncInv`
says that two relays hold no row together, that a row has one number, and that a code
belongs to one room type of a channel.

### Housekeeping_proof

`BoardTypeCorrect`, `GuestsKeepTheirRooms`, `UnfitRoomsStayUnsold`,
`TasksKeepTheirOwner`, `BoardsAreComplete`, for any staff, rooms and open transactions.
Beside the first three, the invariant has `LocksExclude` (two transactions hold no row
together), `ReadsHold` (what was read under a lock is still so) and `BoardsOwe` (a
board being built has found a task for every room that had a guest, or was dirty, when
it asked for those).

### Sessions_proof

`SessionsTypeCorrect`, `TokensAreSpentOnce`, `AuthorityIsFresh`, `AppKeepsItsUsers`,
`LogOutFindsSessions` (`LogOutReachesAll`). The invariant is `Typed`, `Spending` (a family's live token has not been exchanged yet),
`Authority` (what a request has read of the account was so after it arrived) and
`Safe`. The longest argument is the last: unless one of the excused things happened, at
most one request is refreshing, no request holds a spent token, a login's family is
nobody else's, and the cookie is unspent or about to be replaced by an answer under
way; so nothing that is presented was spent.

### Guests_proof

`EveryTouchIsGranted`, `ErasedGuestsStayErased`, over any users,
properties, roles and requests. `Access` contributes `GrantsAreTimed` (a grant was held
until the moment it was withdrawn), `TokensAreRecent` (a token's roles were held when it
was signed, at most a lifetime ago) and `RequestsAreLetIn` (an admitted request has a
role for its operation); `Guests` adds `ReachedRowsExist`.

### Model-checked only

`EveryDayCloses` and `ChannelsCatchUp`: liveness under fairness is out of the prover's
reach. Every other property of the runs is also a theorem.

## Where the code and its documents differ

Where a constant brings it back, it is named.

1. **Check-in into an occupied room.** `moveRoom` returns when the room already has the
   target status (`stay.service.ts:231`), so a check-in succeeds in a room whose last
   guest has not left. The header promises VACANT_* → OCCUPIED. (`desk_careful` with
   `JoinOccupied = TRUE` violates `RoomBoardAgrees`.)
2. **Reassigning an in-house guest.** `assignRoom` accepts a line that is CHECKED_IN and
   writes `room_id` alone (`reservations.service.ts:341`): the new room shows VACANT,
   the old one OCCUPIED. (`MoveInHouse = TRUE`.)
3. **A posting beside a check-out.** The balance is read without the folio's lock
   (`stay.service.ts:166`), a charge commits, `close()` settles a folio that owes. And a
   room charge of the audit goes on whatever folio its list names: the list is read
   without a lock (`night-audit.service.ts:210-227`) and the insert (line 279) looks at
   no status, so a check-out in between leaves a settled folio with a balance.
   (`desk_alone` with `Overlaps <- Everything` violates `SettledAtZero`.)
4. **No-shows from a stale list.** The list is read without locks and the UPDATE has no
   condition on the status (`night-audit.service.ts:373`, `411`): a guest who checks in
   meanwhile goes to NO_SHOW and their nights are sold again. (`desk_alone` with
   `Overlaps <- Everything` violates `SoldMatchesHeld` and `FolioFollowsStay`.)
5. **A failure after the date has moved.** `run()` audits the current business date
   (`night-audit.service.ts:92`), so a run that failed at its last step is never
   resumed, contrary to the comment at lines 123-124.
6. **Arrivals during the audit.** A guest checked in after the in-house list was read
   (line 210) and before the date moves is never charged for the night.
   (`audit_desk_closed` with `DeskDuringAudit = TRUE` violates `NightsCharged` and
   `SnapshotAgreesWithLedger`.) A booking created for the audited date, or moved onto
   it, after its no-shows were listed stays CONFIRMED on a day that closes, also when a
   resumed call skips the step; the next audit sweeps it. `ClosedDaysAreClosed` allows
   it (`late`).
7. **Statistics rewritten.** `snapshotDaily` upserts, so a second operator still at that
   step rewrites a day that has closed. (`audit_progress` with two operators violates
   `FrozenSnapshot`.)
8. **The night audit's tax.** `buildRoomCharge` and the quote ignore the threshold that
   the folio's own posting honours: a cheap room is taxed by the audit and not when the
   desk posts the same amount. With an INCLUSIVE tax the audit's step updates
   `folio_lines`, which the application's role may not do, and fails.
9. **Two invoices.** `issueInvoice` looks for an earlier one without a lock.
10. **A delivery cut short** leaves its receipt RECEIVED, and the channel's redelivery is
    answered DUPLICATE; nobody finishes it. `NeverHalfHappens` allows it after a fault.
11. **Nights billed.** Neither check-in (`stay.service.ts:43-127`) nor the audit's list
    asks when a guest was to arrive, so an early guest pays for the nights before the
    booking too; and the audit bills the grid's rate of the moment,
    as its comment intends (`night-audit.service.ts:199-201`), so not the quote's.
    `BillFollowsQuote` therefore speaks of the nights charged and of the rates their
    dates have had.
12. **Nights the channels are not told about**: a no-show's release, and a room that goes
    out of order or comes back (or is created), emit no event the worker listens to, and
    a failed enqueueing is swallowed. They are `excused` until a push reads them again or
    a resync queues them, which it does for 30 days.
13. **Two replicas of the sync relay** pushing one night may land the older snapshot
    last, although the claim is written for a second replica
    (`channel-sync.relay.ts:121-122`). The nights they push at once are `excused`;
    otherwise `channel_deliveries` violates `NoSilentDrift`.
14. **Housekeeping.** A room dirtied again after its task was inspected gets no new one
    that day, because the board inserts on conflict do nothing. Completing a task of any
    type turns a dirty room clean, while the comment speaks of DEPARTURE. A guest who
    checks in between the two looks of `generateBoard` is on neither list, and a room
    dirtied after the second is on none before the next run.
15. **Lost tokens.** The second tab to refresh with the shared cookie looks like theft to
    `rotate`: the family is revoked and the user is logged out everywhere that used it.
    So does a single tab whose answer was lost, or whose refresh threw after `rotate`
    (`auth.service.ts:95`, then 109, 117 or 182-190): the new token is live and the
    browser keeps the spent one. (`strained`.)
16. **Refresh across a logout.** A refresh in flight while the user logs out and in again
    overwrites the new access token with the old session's when it arrives.
17. **Sessions off the list.** The index is kept "so 'log out everywhere' is possible"
    (`session-store.ts:34`), but `revokeAllForUser` reads it and then deletes it: a
    family started in between lives on outside it. A rotation renews the family's life
    (lines 66-85) and only a login the index's (37-49), so a session may outlive the
    list. And `logout` swallows the store's errors, so a family may outlive its logout.
    `LogOutReachesAll` names the first two (`unlisted`).
18. **`UNAUTHENTICATED` in production.** `formatError` (`app.module.ts:94-103`) hides the
    code for which the client's silent refresh waits (`apollo-client.ts:121-130`).
19. **Roles of a socket** are fixed when it opens and outlive a demotion.
20. **Erasure.** The `guest.created` audit entry keeps name and e-mail.
21. **Payments voided** are counted under charges by the reports, since their reversal is
    an ADJUSTMENT line.
22. **`channel-sync-machine.ts`**'s transition functions are called by no service.

## Plan

Done: the front desk with its abstract specification and refinement, the night audit,
ledger and orders, outbox and channels in both directions, housekeeping, sessions, access
and guests, each with proofs: every invariant and action property of the runs is a
theorem, liveness is not.

Left, in this order:

| Step | What | Why |
|---|---|---|
| 1 | an abstract specification of a channel's view, implemented by `ChannelManager` | what `Drift` says, as a promise to the channel |
| 2 | `CounterLocks`: the row locks of two sales taken one at a time | which orders of room types deadlock |
| 3 | invoices, over `FolioLedger` | two numbers for one folio |

## Not modelled

* Validation of single values, formatting, currency mismatches, encryption of guest
  columns and the search index of ID numbers: nothing is shared between actors there.
* Read-only queries (tape chart, grid, quotes, reports) except as the definitions the
  properties read; pages, forms and query documents of the web client.
* `issueInvoice`: it writes a document that no handler reads again.
  `GuestsService.update` and `grantRole`: they have no caller.
* Outlets, menus, properties, tax tables, room types and rate plans: seeded, or one
  insert each. The rates a push carries along.
* Subscriptions' transport, `myProperties` (which needs no property), the depth limit.
* The connection pool and its transaction-local settings: `Access` takes the scope a
  transaction was given. Every module but `Access` and `Guests` is within one property.
* Clocks in `Sessions`: keys may expire, and an access token may be refused, whenever.
* The rows of `audit_log`. `createRoom`: like a room coming back it tells no channel.
* Start-up, configuration and seeding.

## Running it

    tlc -workers 2 -config desk_alone.cfg MCFrontDesk
    tlapm FrontDesk_proof.tla

| Configurations | Module |
|---|---|
| `desk_any_overlap`, `desk_alone`, `desk_careful` | `MCFrontDesk` |
| `audit_two_operators`, `audit_desk_closed`, `audit_progress` | `MCNightAudit` |
| `ledger` | `MCPosOrders` |
| `channel_deliveries`, `channel_sync` | `MCChannelManager` |
| `housekeeping` | `MCHousekeeping` |
| `sessions` | `MCSessions` |
| `guests` | `MCGuests` |

`tlapm` takes each module whose name ends in `_proof`, and `FrontDesk_refinement`.
