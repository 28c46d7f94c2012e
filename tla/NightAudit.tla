----------------------------- MODULE NightAudit -----------------------------
(***************************************************************************)
(* The night audit of one property: five steps, each in a transaction of   *)
(* its own, with a run row per business date that remembers which of them  *)
(* are done. Operators press the button, press it again after a failure,   *)
(* press it at once, or lose the process in between.                       *)
(*                                                                         *)
(* The steps that charge rooms and mark no-shows read a list and write     *)
(* from it later, so each is two actions; the other steps read and write   *)
(* in one. The desk's part is what the steps look at: bookings, their      *)
(* dates, check-in, check-out, a posting on the current business date and  *)
(* the rate grid.                                                          *)
(***************************************************************************)
EXTENDS Integers, FiniteSets

CONSTANTS
  Lines,           \* reservation rooms, some booked before the audits begin
  Arrival,         \* [Lines -> Dates], as first booked
  Departure,       \* [Lines -> Dates], as first booked
  LastDate,        \* bound: dates are 1..LastDate, days 1..LastDate-1 close
  Operators,       \* concurrent callers of run()
  MaxFaults,       \* bound: failed steps and crashes in a behaviour
  MaxChanges,      \* bound: new reservations and changes of dates
  MaxExtra,        \* bound: other postings per business date
  Unpriced,        \* dates whose rate is not loaded at first
  DeskDuringAudit  \* the desk works while the date's audit is unfinished

Dates == 1 .. LastDate
Days  == 1 .. (LastDate - 1)

ASSUME StaysAssumption ==
  /\ LastDate \in Nat \ {0, 1}
  /\ Arrival \in [Lines -> Dates]
  /\ Departure \in [Lines -> Dates]
  /\ \A l \in Lines : Arrival[l] < Departure[l]
  /\ IsFiniteSet(Lines)
ASSUME ScopeAssumption ==
  /\ MaxFaults \in Nat
  /\ MaxChanges \in Nat
  /\ MaxExtra \in Nat
  /\ Unpriced \subseteq Days
  /\ DeskDuringAudit \in BOOLEAN

\* Mutants: the statistics are taken before the rooms are charged; the date
\* moves before the statistics are taken.
SnapshotFirst == <<"SNAPSHOT_STATS", "POST_ROOM_CHARGES", "MARK_NO_SHOWS",
                   "ADVANCE_BUSINESS_DATE", "GENERATE_HOUSEKEEPING_BOARD">>
AdvanceFirst == <<"POST_ROOM_CHARGES", "MARK_NO_SHOWS", "ADVANCE_BUSINESS_DATE",
                  "SNAPSHOT_STATS", "GENERATE_HOUSEKEEPING_BOARD">>

AuditSteps == <<"POST_ROOM_CHARGES", "MARK_NO_SHOWS", "SNAPSHOT_STATS",
                "ADVANCE_BUSINESS_DATE", "GENERATE_HOUSEKEEPING_BOARD">>
Steps == {AuditSteps[i] : i \in 1 .. 5}

VARIABLES
  businessDate,  \* properties.business_date
  status,        \* reservation_rooms.status of each line, NONE before it is booked
  arrival,       \* reservation_rooms.arrival_date
  departure,     \* reservation_rooms.departure_date
  charged,       \* ROOM charges by line and night, counted
  extra,         \* other lines posted on each business date
  priced,        \* dates in the rate grid
  snapshot,      \* reporting.daily_stats
  board,         \* dates whose housekeeping board was generated
  swept,         \* history: dates whose no-shows were marked
  late,          \* history: lines put on a date after its no-shows were listed
  runs,          \* shared.night_audit_runs, one row per date
  op,            \* each operator's call of run()
  changes,       \* new reservations and changes of dates so far
  faults         \* faults so far

stays == <<status, arrival, departure, late, changes>>
books == <<stays, charged, extra, priced, snapshot, board, swept>>
vars  == <<businessDate, books, runs, op, faults>>

NoRun == [status |-> "NONE", done |-> {}]
NoSnapshot == [taken |-> FALSE, sold |-> 0, charges |-> 0]
Call(phase, date) ==
  [phase |-> phase, date |-> date, at |-> 1, skip |-> {}, done |-> {}, listed |-> {}]
Idle == Call("idle", 1)

Calls == [phase: {"idle", "start", "insert", "step", "post", "sweep", "record"},
          date: Dates, at: 1 .. 6, skip: SUBSET Steps,
          done: SUBSET Steps, listed: SUBSET Lines]

Statuses == {"NONE", "CONFIRMED", "CHECKED_IN", "CHECKED_OUT", "CANCELLED", "NO_SHOW"}

TypeOK ==
  /\ businessDate \in Dates
  /\ status \in [Lines -> Statuses]
  /\ arrival \in [Lines -> Dates] /\ departure \in [Lines -> Dates]
  /\ charged \in [Lines -> [Dates -> Nat]]
  /\ extra \in [Dates -> 0 .. MaxExtra]
  /\ priced \subseteq Dates
  /\ snapshot \in [Dates -> [taken: BOOLEAN, sold: Nat, charges: Nat]]
  /\ board \subseteq Dates
  /\ swept \subseteq Days /\ late \subseteq Lines \X Days
  /\ runs \in [Dates -> [status: {"NONE", "RUNNING", "FAILED", "COMPLETED"},
                         done: SUBSET Steps]]
  /\ op \in [Operators -> Calls]
  /\ changes \in 0 .. MaxChanges
  /\ faults \in 0 .. MaxFaults

Init ==
  /\ businessDate = 1
  /\ status \in [Lines -> {"NONE", "CONFIRMED"}]
  /\ arrival = Arrival /\ departure = Departure
  /\ charged = [l \in Lines |-> [d \in Dates |-> 0]]
  /\ extra = [d \in Dates |-> 0]
  /\ priced = Dates \ Unpriced
  /\ snapshot = [d \in Dates |-> NoSnapshot]
  /\ board = {}
  /\ swept = {} /\ late = {}
  /\ runs = [d \in Dates |-> NoRun]
  /\ op = [o \in Operators |-> Idle]
  /\ changes = 0
  /\ faults = 0

-----------------------------------------------------------------------------
(* The desk.                                                               *)

\* With DeskDuringAudit = FALSE the desk stands still from the moment an audit
\* starts until the date has moved, through failures and restarts.
DeskMayWork ==
  \/ DeskDuringAudit
  \/ runs[businessDate].status = "NONE" /\ \A o \in Operators : op[o].phase = "idle"

\* Confirmed, to arrive by then and not in the house.
Due(l, d) == status[l] = "CONFIRMED" /\ arrival[l] <= d

\* The no-shows of the date have been marked, or are listed and about to be.
Sweeping(d) == d \in swept \/ \E o \in Operators : op[o].phase = "sweep" /\ op[o].date = d

\* The line has these dates from now on, and is late for those of them whose
\* no-shows it has missed.
Rebook(l, from, to) ==
  /\ DeskMayWork
  /\ changes < MaxChanges
  /\ from < to
  /\ arrival' = [arrival EXCEPT ![l] = from]
  /\ departure' = [departure EXCEPT ![l] = to]
  /\ changes' = changes + 1
  /\ late' = late \cup
       { <<l, d>> : d \in {d \in Days : Sweeping(d) /\ from <= d /\ ~Due(l, d)} }
  /\ UNCHANGED <<businessDate, charged, extra, priced, snapshot, board, swept, runs, op, faults>>

\* A reservation may be created for, and moved to, a date that has begun or gone.
Create(l, from, to) ==
  /\ status[l] = "NONE"
  /\ status' = [status EXCEPT ![l] = "CONFIRMED"]
  /\ Rebook(l, from, to)

ModifyDates(l, from, to) ==
  /\ status[l] \in {"CONFIRMED", "CHECKED_IN"}
  /\ <<from, to>> # <<arrival[l], departure[l]>>
  /\ Rebook(l, from, to)
  /\ UNCHANGED status

DeskMoves(l, from, to) ==
  /\ DeskMayWork
  /\ status[l] = from
  /\ status' = [status EXCEPT ![l] = to]
  /\ UNCHANGED <<businessDate, arrival, departure, late, changes, charged, extra, priced, snapshot,
                 board, swept, runs, op, faults>>

Cancel(l)   == DeskMoves(l, "CONFIRMED", "CANCELLED")
CheckIn(l)  == DeskMoves(l, "CONFIRMED", "CHECKED_IN")
CheckOut(l) == DeskMoves(l, "CHECKED_IN", "CHECKED_OUT")

\* Any other charge: it takes the business date of the moment.
PostExtra ==
  /\ DeskMayWork
  /\ \E l \in Lines : status[l] = "CHECKED_IN"
  /\ extra[businessDate] < MaxExtra
  /\ extra' = [extra EXCEPT ![businessDate] = @ + 1]
  /\ UNCHANGED <<businessDate, stays, charged, priced, snapshot, board, swept, runs, op, faults>>

PriceNight(d) ==
  /\ d \notin priced
  /\ priced' = priced \cup {d}
  /\ UNCHANGED <<businessDate, stays, charged, extra, snapshot, board, swept, runs, op, faults>>

-----------------------------------------------------------------------------
(* run().                                                                  *)

\* The first position from i on whose step is not skipped; 6 is past the end.
NextAt(i, skip) ==
  CHOOSE j \in i .. 6 :
    /\ j = 6 \/ AuditSteps[j] \notin skip
    /\ \A k \in i .. (j - 1) : AuditSteps[k] \in skip

At(o, step) == op[o].phase = "step" /\ op[o].at < 6 /\ AuditSteps[op[o].at] = step

\* loadProperty: the business date is read in a transaction of its own.
Start(o) ==
  /\ op[o].phase = "idle"
  /\ businessDate < LastDate
  /\ op' = [op EXCEPT ![o] = Call("start", businessDate)]
  /\ UNCHANGED <<businessDate, books, runs, faults>>

\* Mutant: a failed run is refused like a completed one.
StartOrRefuse(o) ==
  LET row == runs[op[o].date] IN
  /\ op[o].phase = "start"
  /\ op' = [op EXCEPT ![o] =
       IF row.status = "NONE" THEN [@ EXCEPT !.phase = "insert"]
       ELSE IF row.status \in {"COMPLETED", "FAILED"} THEN Idle
       ELSE [@ EXCEPT !.phase = "step", !.at = NextAt(1, row.done),
                      !.skip = row.done, !.done = row.done]]
  /\ UNCHANGED <<businessDate, books, runs, faults>>

\* startOrResume: a completed run refuses, an unfinished one is taken up, and
\* without a row there is nothing to lock.
StartOrResume(o) ==
  LET row == runs[op[o].date] IN
  /\ op[o].phase = "start"
  /\ op' = [op EXCEPT ![o] =
       IF row.status = "NONE" THEN [@ EXCEPT !.phase = "insert"]
       ELSE IF row.status = "COMPLETED" THEN Idle
       ELSE [@ EXCEPT !.phase = "step", !.at = NextAt(1, row.done),
                      !.skip = row.done, !.done = row.done]]
  /\ UNCHANGED <<businessDate, books, runs, faults>>

\* The insert, or the unique index refusing the second of two first calls.
InsertRun(o) ==
  LET d == op[o].date IN
  /\ op[o].phase = "insert"
  /\ IF runs[d].status = "NONE"
     THEN /\ runs' = [runs EXCEPT ![d] = [status |-> "RUNNING", done |-> {}]]
          /\ op' = [op EXCEPT ![o] = [@ EXCEPT !.phase = "step"]]
     ELSE op' = [op EXCEPT ![o] = Idle] /\ UNCHANGED runs
  /\ UNCHANGED <<businessDate, books, faults>>

Executed(o) == op' = [op EXCEPT ![o] = [@ EXCEPT !.phase = "record", !.listed = {}]]

\* Mutant: one night too few.
StayingLonger(d) == {l \in Lines : status[l] = "CHECKED_IN" /\ departure[l] > d + 1}

\* The in-house lines that stay past tonight, read without a lock.
Staying(d) == {l \in Lines : status[l] = "CHECKED_IN" /\ departure[l] > d}

ReadInHouse(o) ==
  /\ At(o, "POST_ROOM_CHARGES")
  /\ op' = [op EXCEPT ![o] = [@ EXCEPT !.phase = "post", !.listed = Staying(op[o].date)]]
  /\ UNCHANGED <<businessDate, books, runs, faults>>

\* Mutant: the insert without the unique index.
ChargeAgain(l, d, o) ==
  IF l \in op[o].listed /\ d = op[o].date THEN charged[l][d] + 1 ELSE charged[l][d]

\* The one-room-charge-per-night index has an entry for the line and the date.
AlreadyCharged(l, d) == charged[l][d] > 0

\* INSERT .. ON CONFLICT DO NOTHING.
Charge(l, d, o) ==
  IF l \in op[o].listed /\ d = op[o].date /\ ~AlreadyCharged(l, d)
  THEN 1 ELSE charged[l][d]

PostRoomCharges(o) ==
  /\ op[o].phase = "post"
  /\ op[o].listed = {} \/ op[o].date \in priced
  /\ charged' = [l \in Lines |-> [d \in Dates |-> Charge(l, d, o)]]
  /\ Executed(o)
  /\ UNCHANGED <<businessDate, stays, extra, priced, snapshot, board, swept, runs, faults>>

\* Mutant: arrivals before the audit date instead of on or before it.
EarlierStragglers(d) == {l \in Lines : status[l] = "CONFIRMED" /\ arrival[l] < d}

Stragglers(d) == {l \in Lines : Due(l, d)}

ReadStragglers(o) ==
  /\ At(o, "MARK_NO_SHOWS")
  /\ op' = [op EXCEPT ![o] = [@ EXCEPT !.phase = "sweep", !.listed = Stragglers(op[o].date)]]
  /\ UNCHANGED <<businessDate, books, runs, faults>>

\* Whatever became of the lines since they were listed.
MarkNoShows(o) ==
  /\ op[o].phase = "sweep"
  /\ status' = [l \in Lines |-> IF l \in op[o].listed THEN "NO_SHOW" ELSE status[l]]
  /\ swept' = swept \cup {op[o].date}
  /\ Executed(o)
  /\ UNCHANGED <<businessDate, arrival, departure, late, changes, charged, extra, priced, snapshot,
                 board, runs, faults>>

ChargesOn(d) == Cardinality({l \in Lines : charged[l][d] > 0}) + extra[d]

\* ReportingService.snapshotDaily upserts over the date's row.
SnapshotDaily(d, stats) == snapshot' = [snapshot EXCEPT ![d] = stats]

\* Computed from the live rows.
SnapshotStats(o) ==
  LET d == op[o].date IN
  /\ At(o, "SNAPSHOT_STATS")
  /\ SnapshotDaily(d,
       [taken |-> TRUE, charges |-> ChargesOn(d),
        sold |-> Cardinality({l \in Lines : /\ status[l] = "CHECKED_IN"
                                             /\ arrival[l] <= d /\ departure[l] > d})])
  /\ Executed(o)
  /\ UNCHANGED <<businessDate, stays, charged, extra, priced, board, swept, runs, faults>>

\* Mutants: the update without its condition, as an increment and as a store.
AdvanceAnyDate(o) ==
  /\ At(o, "ADVANCE_BUSINESS_DATE")
  /\ businessDate' = businessDate + 1
  /\ Executed(o)
  /\ UNCHANGED <<books, runs, faults>>

StoreNextDate(o) ==
  /\ At(o, "ADVANCE_BUSINESS_DATE")
  /\ businessDate' = op[o].date + 1
  /\ Executed(o)
  /\ UNCHANGED <<books, runs, faults>>

\* Conditional on the date still being the audit's own.
AdvanceBusinessDate(o) ==
  LET d == op[o].date IN
  /\ At(o, "ADVANCE_BUSINESS_DATE")
  /\ businessDate' = IF businessDate = d THEN d + 1 ELSE businessDate
  /\ Executed(o)
  /\ UNCHANGED <<books, runs, faults>>

GenerateBoard(o) ==
  /\ At(o, "GENERATE_HOUSEKEEPING_BOARD")
  /\ board' = board \cup {op[o].date + 1}
  /\ Executed(o)
  /\ UNCHANGED <<businessDate, stays, charged, extra, priced, snapshot, swept, runs, faults>>

\* The steps this call has seen done, the one it is about to record included.
Results(o) ==
  IF op[o].phase = "record" THEN op[o].done \cup {AuditSteps[op[o].at]} ELSE op[o].done

\* Mutant: recordSteps marks the run complete after its first step.
RecordCompleted(o) ==
  /\ op[o].phase = "record"
  /\ runs' = [runs EXCEPT ![op[o].date] = [status |-> "COMPLETED", done |-> Results(o)]]
  /\ op' = [op EXCEPT ![o] = [@ EXCEPT !.phase = "step", !.done = Results(o),
                                       !.at = NextAt(op[o].at + 1, op[o].skip)]]
  /\ UNCHANGED <<businessDate, books, faults>>

\* recordSteps(RUNNING): the row takes this call's own list.
Record(o) ==
  /\ op[o].phase = "record"
  /\ runs' = [runs EXCEPT ![op[o].date] = [status |-> "RUNNING", done |-> Results(o)]]
  /\ op' = [op EXCEPT ![o] = [@ EXCEPT !.phase = "step", !.done = Results(o),
                                       !.at = NextAt(op[o].at + 1, op[o].skip)]]
  /\ UNCHANGED <<businessDate, books, faults>>

\* recordSteps(COMPLETED), then night_audit.completed.
Finish(o) ==
  /\ op[o].phase = "step" /\ op[o].at = 6
  /\ runs' = [runs EXCEPT ![op[o].date] = [status |-> "COMPLETED", done |-> op[o].done]]
  /\ op' = [op EXCEPT ![o] = Idle]
  /\ UNCHANGED <<businessDate, books, faults>>

\* Mutant: resuming counts a FAILED entry of the list as done.
FailStepAsDone(o) ==
  /\ op[o].phase \in {"step", "post", "sweep", "record"} /\ op[o].at < 6
  /\ runs' = [runs EXCEPT ![op[o].date] =
                [status |-> "FAILED", done |-> op[o].done \cup {AuditSteps[op[o].at]}]]
  /\ op' = [op EXCEPT ![o] = Idle]
  /\ UNCHANGED <<businessDate, books>>

\* A step, or the recording of one, throws: that transaction is rolled back, the
\* row says FAILED and the caller gets the error.
FailStep(o) ==
  /\ op[o].phase \in {"step", "post", "sweep", "record"} /\ op[o].at < 6
  /\ runs' = [runs EXCEPT ![op[o].date] = [status |-> "FAILED", done |-> Results(o)]]
  /\ op' = [op EXCEPT ![o] = Idle]
  /\ UNCHANGED <<businessDate, books>>

NoRateLoaded(o) ==
  /\ op[o].phase = "post"
  /\ op[o].listed # {} /\ op[o].date \notin priced
  /\ FailStep(o)
  /\ UNCHANGED faults

StepFault(o) ==
  /\ faults < MaxFaults
  /\ FailStep(o)
  /\ faults' = faults + 1

\* The process dies, or bookkeeping fails, between two transactions of a call.
Crash(o) ==
  /\ op[o].phase # "idle"
  /\ faults < MaxFaults
  /\ op' = [op EXCEPT ![o] = Idle]
  /\ faults' = faults + 1
  /\ UNCHANGED <<businessDate, books, runs>>

-----------------------------------------------------------------------------
Proceed(o) ==
  \/ StartOrResume(o)
  \/ InsertRun(o)
  \/ ReadInHouse(o)
  \/ PostRoomCharges(o)
  \/ NoRateLoaded(o)
  \/ ReadStragglers(o)
  \/ MarkNoShows(o)
  \/ SnapshotStats(o)
  \/ AdvanceBusinessDate(o)
  \/ GenerateBoard(o)
  \/ Record(o)
  \/ Finish(o)

Next ==
  \/ \E l \in Lines, from, to \in Dates : Create(l, from, to)
  \/ \E l \in Lines, from, to \in Dates : ModifyDates(l, from, to)
  \/ \E l \in Lines : Cancel(l)
  \/ \E l \in Lines : CheckIn(l)
  \/ \E l \in Lines : CheckOut(l)
  \/ PostExtra
  \/ \E d \in Dates : PriceNight(d)
  \/ \E o \in Operators : Start(o)
  \/ \E o \in Operators : Proceed(o)
  \/ \E o \in Operators : StepFault(o)
  \/ \E o \in Operators : Crash(o)

Spec == Init /\ [][Next]_vars

\* A call that has begun goes on; somebody presses the button again as long as
\* days are left, and the missing rates are loaded in the end. The desk is free
\* to do nothing.
FairSpec ==
  /\ Spec
  /\ \A o \in Operators : WF_vars(Start(o)) /\ WF_vars(Proceed(o))
  /\ \A d \in Dates : WF_vars(PriceNight(d))

-----------------------------------------------------------------------------
(* Properties.                                                             *)

\* No guest is charged twice for a night, however often and however many
\* operators run the audit and whatever becomes of the stay meanwhile.
OneRoomChargePerNight == \A l \in Lines, d \in Dates : charged[l][d] <= 1

\* The hotel's date never moves back and never skips a day nobody audited.
DateMovesByOne ==
  [][businessDate' # businessDate =>
       /\ businessDate' = businessDate + 1
       /\ \E o \in Operators : op[o].date = businessDate]_vars

\* Every closed day has its statistics taken and its no-shows marked: neither
\* step is lost to a failure, a crash or another operator's list of steps. Who is
\* still expected on a day that has closed was put on it, by a new reservation or
\* a change of dates, when its no-shows had been listed.
DayIsClosed(d) ==
  /\ snapshot[d].taken
  /\ \A l \in Lines : Due(l, d) => <<l, d>> \in late
ClosedDaysAreClosed == \A d \in Days : d < businessDate => DayIsClosed(d)

\* When the date moves, every guest staying that night has the night's charge.
NightsCharged ==
  [][businessDate' # businessDate =>
       \A l \in Lines :
         status[l] = "CHECKED_IN" /\ departure[l] > businessDate
           => charged[l][businessDate] = 1]_vars

\* The statistics of a closed day count every line posted on that day.
SnapshotAgreesWithLedger ==
  \A d \in Days : d < businessDate => snapshot[d].charges = ChargesOn(d)

\* The statistics of a closed day never change again.
FrozenSnapshot ==
  [][\A d \in Days : d < businessDate => snapshot'[d] = snapshot[d]]_vars

\* What the row lists as done was done: resuming skips nothing.
RecordedStepsHappened ==
  \A d \in Days :
    /\ "SNAPSHOT_STATS" \in runs[d].done => snapshot[d].taken
    /\ "ADVANCE_BUSINESS_DATE" \in runs[d].done => businessDate > d
    /\ "GENERATE_HOUSEKEEPING_BOARD" \in runs[d].done => (d + 1) \in board

\* The current day's run is never already complete: startOrResume would then
\* refuse every audit and the hotel could not close another day.
NeverWedged == runs[businessDate].status # "COMPLETED"

\* As long as somebody keeps running the audit, every day closes in the end,
\* whatever fails in between and although a night has no rate at first.
EveryDayCloses == \A d \in Days : (businessDate = d) ~> (businessDate > d)
=============================================================================
