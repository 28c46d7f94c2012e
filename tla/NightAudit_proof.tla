-------------------------- MODULE NightAudit_proof --------------------------
(***************************************************************************)
(* Theorems about the night audit, for any number of operators, lines,     *)
(* days and faults.                                                        *)
(***************************************************************************)
EXTENDS NightAudit, FiniteSetTheorems, TLAPS

\* What the desk may do, and what it leaves alone.
DeskActs ==
  \/ \E l \in Lines, from, to \in Dates : Create(l, from, to) \/ ModifyDates(l, from, to)
  \/ \E l \in Lines : Cancel(l) \/ CheckIn(l) \/ CheckOut(l)
  \/ PostExtra

LEMMA DeskFrame ==
  ASSUME DeskActs
  PROVE  DeskMayWork /\ UNCHANGED <<businessDate, charged, priced, snapshot, board, swept, runs, op,
                                    faults>>
BY DEF DeskActs, Create, ModifyDates, Rebook, Cancel, CheckIn, CheckOut, DeskMoves, PostExtra, stays

\* What an action of a call, a fault or a rate leaves alone.
LEMMA AuditFrame ==
  /\ \A d \in Dates : PriceNight(d) =>
       UNCHANGED <<businessDate, stays, charged, extra, snapshot, board, swept, runs, op>>
  /\ \A o \in Operators :
       /\ Start(o) \/ StartOrResume(o) \/ ReadInHouse(o) \/ ReadStragglers(o) \/ Crash(o) =>
            UNCHANGED <<businessDate, stays, charged, extra, snapshot, board, swept, runs>>
       /\ InsertRun(o) \/ NoRateLoaded(o) \/ StepFault(o) \/ FailStep(o) \/ Record(o) \/ Finish(o) =>
            UNCHANGED <<businessDate, stays, charged, extra, snapshot, board, swept>>
       /\ PostRoomCharges(o) =>
            UNCHANGED <<businessDate, stays, extra, snapshot, board, swept, runs>>
       /\ MarkNoShows(o) => UNCHANGED <<businessDate, charged, extra, snapshot, board, runs>>
       /\ SnapshotStats(o) =>
            UNCHANGED <<businessDate, stays, charged, extra, board, swept, runs>>
       /\ AdvanceBusinessDate(o) =>
            UNCHANGED <<stays, charged, extra, snapshot, board, swept, runs>>
       /\ GenerateBoard(o) =>
            UNCHANGED <<businessDate, stays, charged, extra, snapshot, swept, runs>>
<1>1. ASSUME NEW d \in Dates, PriceNight(d)
      PROVE  UNCHANGED <<businessDate, stays, charged, extra, snapshot, board, swept, runs, op>>
  BY <1>1 DEF PriceNight
<1>2. ASSUME NEW o \in Operators,
             Start(o) \/ StartOrResume(o) \/ ReadInHouse(o) \/ ReadStragglers(o) \/ Crash(o)
      PROVE  UNCHANGED <<businessDate, stays, charged, extra, snapshot, board, swept, runs>>
  BY <1>2 DEF Start, StartOrResume, ReadInHouse, ReadStragglers, Crash, books
<1>3. ASSUME NEW o \in Operators,
             InsertRun(o) \/ NoRateLoaded(o) \/ StepFault(o) \/ FailStep(o) \/ Record(o) \/ Finish(o)
      PROVE  UNCHANGED <<businessDate, stays, charged, extra, snapshot, board, swept>>
  BY <1>3 DEF InsertRun, NoRateLoaded, StepFault, FailStep, Record, Finish, books
<1>4. ASSUME NEW o \in Operators
      PROVE  /\ PostRoomCharges(o) =>
                  UNCHANGED <<businessDate, stays, extra, snapshot, board, swept, runs>>
             /\ MarkNoShows(o) => UNCHANGED <<businessDate, charged, extra, snapshot, board, runs>>
             /\ SnapshotStats(o) =>
                  UNCHANGED <<businessDate, stays, charged, extra, board, swept, runs>>
             /\ AdvanceBusinessDate(o) =>
                  UNCHANGED <<stays, charged, extra, snapshot, board, swept, runs>>
             /\ GenerateBoard(o) =>
                  UNCHANGED <<businessDate, stays, charged, extra, snapshot, swept, runs>>
  BY DEF PostRoomCharges, MarkNoShows, SnapshotStats, AdvanceBusinessDate, GenerateBoard, books
<1> QED BY <1>1, <1>2, <1>3, <1>4

\* Who writes what.
LEMMA WhoWrites ==
  ASSUME [Next]_vars
  PROVE  /\ UNCHANGED businessDate \/ \E o \in Operators : AdvanceBusinessDate(o)
         /\ UNCHANGED charged \/ \E o \in Operators : PostRoomCharges(o)
         /\ UNCHANGED snapshot \/ \E o \in Operators : SnapshotStats(o)
         /\ UNCHANGED board \/ \E o \in Operators : GenerateBoard(o)
         /\ UNCHANGED swept \/ \E o \in Operators : MarkNoShows(o)
         /\ UNCHANGED stays \/ DeskActs \/ \E o \in Operators : MarkNoShows(o)
         /\ UNCHANGED extra \/ DeskActs
         /\ UNCHANGED runs \/ \E o \in Operators :
              InsertRun(o) \/ Record(o) \/ Finish(o) \/ FailStep(o)
         /\ UNCHANGED op \/ \E o \in Operators : Proceed(o) \/ Start(o) \/ StepFault(o) \/ Crash(o)
<1>1. CASE DeskActs
  BY <1>1, DeskFrame
<1>2. CASE \E d \in Dates : PriceNight(d)
  BY <1>2, AuditFrame
<1>3. ASSUME NEW o \in Operators, Proceed(o) \/ Start(o) \/ StepFault(o) \/ Crash(o)
      PROVE  /\ UNCHANGED businessDate \/ AdvanceBusinessDate(o)
             /\ UNCHANGED charged \/ PostRoomCharges(o)
             /\ UNCHANGED snapshot \/ SnapshotStats(o)
             /\ UNCHANGED board \/ GenerateBoard(o)
             /\ UNCHANGED swept \/ MarkNoShows(o)
             /\ UNCHANGED stays \/ MarkNoShows(o)
             /\ UNCHANGED extra
             /\ UNCHANGED runs \/ InsertRun(o) \/ Record(o) \/ Finish(o) \/ FailStep(o)
  BY <1>3, AuditFrame DEF Proceed, NoRateLoaded, StepFault
<1>4. CASE UNCHANGED vars
  BY <1>4 DEF vars, books
<1> QED BY <1>1, <1>2, <1>3, <1>4 DEF Next, DeskActs

LEMMA StepsAreFive ==
  /\ \A i \in 1 .. 5 : AuditSteps[i] \in Steps
  /\ AuditSteps[1] = "POST_ROOM_CHARGES"
  /\ AuditSteps[2] = "MARK_NO_SHOWS"
  /\ AuditSteps[3] = "SNAPSHOT_STATS"
  /\ AuditSteps[4] = "ADVANCE_BUSINESS_DATE"
  /\ AuditSteps[5] = "GENERATE_HOUSEKEEPING_BOARD"
BY DEF AuditSteps, Steps

\* A call that is at a step is at that step's position.
LEMMA StepsAreInOrder ==
  ASSUME NEW o \in Operators, op[o] \in Calls
  PROVE  /\ At(o, "POST_ROOM_CHARGES") => op[o].at = 1
         /\ At(o, "MARK_NO_SHOWS") => op[o].at = 2
         /\ At(o, "SNAPSHOT_STATS") => op[o].at = 3
         /\ At(o, "ADVANCE_BUSINESS_DATE") => op[o].at = 4
         /\ At(o, "GENERATE_HOUSEKEEPING_BOARD") => op[o].at = 5
<1>1. ASSUME op[o].at < 6 PROVE op[o].at \in {1, 2, 3, 4, 5}
  BY <1>1 DEF Calls
<1> QED BY <1>1, StepsAreFive DEF At

\* The scan for the next step stays in the list and passes only over steps the
\* caller was told are done, the change of date for one.
LEMMA NextAtFinds ==
  ASSUME NEW i \in 1 .. 6, NEW skip
  PROVE  /\ NextAt(i, skip) \in i .. 6
         /\ i <= 4 /\ NextAt(i, skip) > 4 => "ADVANCE_BUSINESS_DATE" \in skip
         /\ \A k \in i .. (NextAt(i, skip) - 1) : AuditSteps[k] \in skip
<1> DEFINE P(j) == /\ j = 6 \/ AuditSteps[j] \notin skip
                   /\ \A k \in i .. (j - 1) : AuditSteps[k] \in skip
<1>1. \E j \in i .. 6 : P(j)
  <2>1. CASE \A k \in i .. 5 : AuditSteps[k] \in skip
    BY <2>1
  <2>2. CASE i \in 1 .. 5 /\ AuditSteps[i] \notin skip
    BY <2>2
  <2>3. CASE i + 1 \in 1 .. 5 /\ AuditSteps[i] \in skip /\ AuditSteps[i + 1] \notin skip
    BY <2>3
  <2>4. CASE /\ i + 2 \in 1 .. 5 /\ AuditSteps[i + 2] \notin skip
             /\ \A k \in i .. (i + 1) : AuditSteps[k] \in skip
    BY <2>4
  <2>5. CASE /\ i + 3 \in 1 .. 5 /\ AuditSteps[i + 3] \notin skip
             /\ \A k \in i .. (i + 2) : AuditSteps[k] \in skip
    BY <2>5
  <2>6. CASE /\ i + 4 \in 1 .. 5 /\ AuditSteps[i + 4] \notin skip
             /\ \A k \in i .. (i + 3) : AuditSteps[k] \in skip
    BY <2>6
  <2> QED BY <2>1, <2>2, <2>3, <2>4, <2>5, <2>6
<1>2. NextAt(i, skip) \in i .. 6 /\ P(NextAt(i, skip))
  BY <1>1 DEF NextAt
<1>3. ASSUME i <= 4, NextAt(i, skip) > 4 PROVE "ADVANCE_BUSINESS_DATE" \in skip
  <2>1. 4 \in i .. (NextAt(i, skip) - 1)
    BY <1>2, <1>3
  <2> QED BY <1>2, <2>1, StepsAreFive
<1> QED BY <1>2, <1>3

-----------------------------------------------------------------------------
\* What a call of run() may rely on while it walks the steps: it audits a day
\* that can close, it charges only guests who stay past that day, and it is past
\* the change of date only when the date has indeed moved.
CallIsTrue(c, today) ==
  /\ c.phase # "idle" => c.date < LastDate
  /\ c.date <= today
  /\ c.phase \in {"start", "insert", "post"} => c.at = 1
  /\ c.phase = "record" => c.at <= 5
  /\ c.phase = "sweep" => c.at = 2
  /\ \/ "ADVANCE_BUSINESS_DATE" \in c.done \cup c.skip
     \/ c.phase = "step" /\ c.at > 4
     \/ c.phase = "record" /\ c.at > 3
     => today > c.date
CallsAreTrue == \A o \in Operators : CallIsTrue(op[o], businessDate)

RowsAreTrue ==
  \A d \in Dates :
    \/ "ADVANCE_BUSINESS_DATE" \in runs[d].done
    \/ runs[d].status = "COMPLETED"
    => businessDate > d

AuditInv == TypeOK /\ CallsAreTrue /\ RowsAreTrue /\ OneRoomChargePerNight

LEMMA AuditInit == Init => AuditInv
<1> SUFFICES ASSUME Init PROVE AuditInv
  OBVIOUS
<1>1. TypeOK
  BY StaysAssumption, ScopeAssumption
  DEF Init, TypeOK, Dates, Days, NoRun, NoSnapshot, Idle, Call, Calls, Statuses
<1>2. CallsAreTrue /\ RowsAreTrue
  BY DEF Init, CallsAreTrue, CallIsTrue, RowsAreTrue, Idle, Call, NoRun
<1>3. OneRoomChargePerNight
  BY DEF Init, OneRoomChargePerNight
<1> QED BY <1>1, <1>2, <1>3 DEF AuditInv

\* A step of the desk moves neither the date nor a run nor a charge.
LEMMA DeskStep == AuditInv /\ DeskActs => AuditInv'
<1> SUFFICES ASSUME AuditInv, DeskActs PROVE AuditInv'
  OBVIOUS
<1>1. UNCHANGED <<businessDate, charged, priced, snapshot, board, swept, runs, op, faults>>
  BY DeskFrame
<1>2. TypeOK
  BY DEF AuditInv
<1> DEFINE WellTyped == /\ status' \in [Lines -> Statuses] /\ arrival' \in [Lines -> Dates]
                        /\ departure' \in [Lines -> Dates] /\ late' \subseteq Lines \X Days
                        /\ changes' \in 0 .. MaxChanges /\ extra' \in [Dates -> 0 .. MaxExtra]
<1>3. WellTyped
  <2>1. ASSUME NEW l \in Lines, NEW from \in Dates, NEW to \in Dates, Rebook(l, from, to),
               status' \in [Lines -> Statuses]
        PROVE  WellTyped
    BY <1>2, <2>1, ScopeAssumption DEF TypeOK, Rebook
  <2>2. ASSUME NEW l \in Lines, NEW from \in Dates, NEW to \in Dates,
               Create(l, from, to) \/ ModifyDates(l, from, to)
        PROVE  WellTyped
    <3>1. Rebook(l, from, to) /\ status' \in [Lines -> Statuses]
      BY <1>2, <2>2 DEF TypeOK, Create, ModifyDates, Statuses
    <3> QED BY <2>1, <3>1
  <2>3. ASSUME NEW l \in Lines, Cancel(l) \/ CheckIn(l) \/ CheckOut(l) PROVE WellTyped
    BY <1>2, <2>3 DEF TypeOK, Cancel, CheckIn, CheckOut, DeskMoves, Statuses
  <2>4. ASSUME PostExtra PROVE WellTyped
    BY <1>2, <2>4, ScopeAssumption DEF TypeOK, PostExtra, stays
  <2> QED BY <2>2, <2>3, <2>4 DEF DeskActs
<1>4. TypeOK'
  BY <1>1, <1>2, <1>3 DEF TypeOK
<1>5. CallsAreTrue' /\ RowsAreTrue' /\ OneRoomChargePerNight'
  BY <1>1 DEF AuditInv, CallsAreTrue, RowsAreTrue, OneRoomChargePerNight
<1> QED BY <1>4, <1>5 DEF AuditInv

\* Replacing one call's record keeps the others true, if the date does not move
\* back.
LEMMA CallStep ==
  ASSUME AuditInv, NEW o \in Operators, NEW new \in Calls,
         op' = [op EXCEPT ![o] = new], CallIsTrue(new, businessDate'),
         businessDate' \in Int, businessDate' >= businessDate
  PROVE  op' \in [Operators -> Calls] /\ CallsAreTrue'
<1>1. \A p \in Operators : op'[p] = IF p = o THEN new ELSE op[p]
  BY DEF AuditInv, TypeOK
<1>2. \A p \in Operators : op[p].date \in Int /\ businessDate \in Int
  BY StaysAssumption DEF AuditInv, TypeOK, Calls, Dates
<1>3. \A p \in Operators : CallIsTrue(op[p], businessDate) => CallIsTrue(op[p], businessDate')
  BY <1>2 DEF CallIsTrue
<1> QED BY <1>1, <1>3 DEF AuditInv, TypeOK, CallsAreTrue

-----------------------------------------------------------------------------
\* The actions that change nothing but the caller's own record.
LEMMA StartStep ==
  ASSUME AuditInv, NEW o \in Operators, Start(o) \/ ReadInHouse(o) \/ ReadStragglers(o) \/ Crash(o)
  PROVE  AuditInv'
<1>1. UNCHANGED <<businessDate, books, runs>> /\ faults' \in 0 .. MaxFaults
  BY ScopeAssumption DEF Start, ReadInHouse, ReadStragglers, Crash, AuditInv, TypeOK
<1>2. businessDate' \in Int /\ businessDate' >= businessDate
  BY <1>1, StaysAssumption DEF AuditInv, TypeOK, Dates
<1>3. op' \in [Operators -> Calls] /\ CallsAreTrue'
  <2>1. CASE Start(o)
    <3>1. Call("start", businessDate) \in Calls
      BY StaysAssumption DEF Call, Calls, AuditInv, TypeOK, Dates
    <3>2. CallIsTrue(Call("start", businessDate), businessDate')
      BY <1>1, <1>2, <2>1 DEF Start, Call, CallIsTrue
    <3> QED BY <1>2, <2>1, <3>1, <3>2, CallStep DEF Start
  <2>2. CASE ReadInHouse(o)
    <3> DEFINE new == [op[o] EXCEPT !.phase = "post", !.listed = Staying(op[o].date)]
    <3>1. op[o] \in Calls /\ CallIsTrue(op[o], businessDate) /\ op[o].phase = "step"
      BY <2>2 DEF AuditInv, TypeOK, CallsAreTrue, ReadInHouse, At
    <3>2. new \in Calls
      BY <3>1 DEF Calls, Staying
    <3>3. CallIsTrue(new, businessDate')
      BY <1>1, <2>2, <3>1, StepsAreInOrder DEF CallIsTrue, Calls, Staying, ReadInHouse
    <3>4. op' = [op EXCEPT ![o] = new]
      BY <2>2 DEF ReadInHouse
    <3> HIDE DEF new
    <3> QED BY <1>2, <3>2, <3>3, <3>4, CallStep
  <2>3. CASE Crash(o)
    <3>1. Idle \in Calls /\ CallIsTrue(Idle, businessDate')
      BY <1>1, StaysAssumption DEF Idle, Call, Calls, Dates, CallIsTrue, AuditInv, TypeOK
    <3> QED BY <1>2, <2>3, <3>1, CallStep DEF Crash
  <2>4. CASE ReadStragglers(o)
    <3> DEFINE new == [op[o] EXCEPT !.phase = "sweep", !.listed = Stragglers(op[o].date)]
    <3>1. op[o] \in Calls /\ CallIsTrue(op[o], businessDate) /\ op[o].phase = "step"
      BY <2>4 DEF AuditInv, TypeOK, CallsAreTrue, ReadStragglers, At
    <3>2. new \in Calls
      BY <3>1 DEF Calls, Stragglers
    <3>3. CallIsTrue(new, businessDate')
      BY <1>1, <2>4, <3>1, StepsAreInOrder DEF CallIsTrue, Calls, Stragglers, ReadStragglers
    <3>4. op' = [op EXCEPT ![o] = new]
      BY <2>4 DEF ReadStragglers
    <3> HIDE DEF new
    <3> QED BY <1>2, <3>2, <3>3, <3>4, CallStep
  <2> QED BY <2>1, <2>2, <2>3, <2>4
<1>4. TypeOK'
  BY <1>1, <1>3 DEF AuditInv, TypeOK, books, stays
<1>5. RowsAreTrue' /\ OneRoomChargePerNight'
  BY <1>1 DEF AuditInv, RowsAreTrue, OneRoomChargePerNight, books
<1> QED BY <1>3, <1>4, <1>5 DEF AuditInv

\* A step that did its work leaves the caller about to record it.
LEMMA ExecutedStep ==
  ASSUME AuditInv, NEW o \in Operators, Executed(o), op[o].at <= 5, op[o].phase # "idle",
         businessDate' \in Int, businessDate' >= businessDate,
         op[o].at > 3 => businessDate' > op[o].date
  PROVE  op' \in [Operators -> Calls] /\ CallsAreTrue'
<1> DEFINE new == [op[o] EXCEPT !.phase = "record", !.listed = {}]
<1>1. op[o] \in Calls /\ CallIsTrue(op[o], businessDate)
  BY DEF AuditInv, TypeOK, CallsAreTrue
<1>2. new \in Calls
  BY <1>1 DEF Calls
<1>3. businessDate \in Int /\ op[o].date \in Int
  BY StaysAssumption DEF AuditInv, TypeOK, Calls, Dates
<1>4. CallIsTrue(new, businessDate')
  BY <1>1, <1>3 DEF CallIsTrue, Calls
<1>5. op' = [op EXCEPT ![o] = new]
  BY DEF Executed
<1> HIDE DEF new
<1> QED BY <1>2, <1>4, <1>5, CallStep

\* Charging: at most one charge per night.
LEMMA ChargeStep ==
  ASSUME AuditInv, NEW o \in Operators, PostRoomCharges(o)
  PROVE  AuditInv'
<1>1. /\ op[o] \in Calls /\ CallIsTrue(op[o], businessDate)
      /\ op[o].phase = "post" /\ op[o].at \in 1 .. 6
  BY DEF AuditInv, TypeOK, CallsAreTrue, PostRoomCharges, Calls
<1>2. \A l \in Lines, d \in Dates : charged'[l][d] = Charge(l, d, o)
  BY DEF PostRoomCharges
<1>3. charged' \in [Lines -> [Dates -> Nat]]
  BY DEF PostRoomCharges, Charge, AlreadyCharged, AuditInv, TypeOK
<1>4. OneRoomChargePerNight'
  BY <1>1, <1>2 DEF Charge, AlreadyCharged, AuditInv, OneRoomChargePerNight, CallIsTrue
<1>5. businessDate' \in Int /\ businessDate' >= businessDate
  BY StaysAssumption DEF PostRoomCharges, AuditInv, TypeOK, Dates
<1>6. op' \in [Operators -> Calls] /\ CallsAreTrue'
  BY <1>1, <1>5, ExecutedStep DEF PostRoomCharges, CallIsTrue
<1>7. TypeOK' /\ RowsAreTrue'
  BY <1>3, <1>6 DEF PostRoomCharges, AuditInv, TypeOK, RowsAreTrue, stays
<1> QED BY <1>4, <1>6, <1>7 DEF AuditInv

\* The other steps, one transaction each.
LEMMA BookStep ==
  ASSUME AuditInv, NEW o \in Operators,
         MarkNoShows(o) \/ SnapshotStats(o) \/ GenerateBoard(o)
  PROVE  AuditInv'
<1>1. /\ op[o] \in Calls /\ CallIsTrue(op[o], businessDate)
      /\ op[o].phase \in {"step", "sweep"} /\ op[o].at \in 1 .. 5
      /\ op[o].date \in Dates /\ op[o].date < LastDate
  BY DEF AuditInv, TypeOK, CallsAreTrue, CallIsTrue, Calls,
         MarkNoShows, SnapshotStats, GenerateBoard, At
<1>2. /\ UNCHANGED <<businessDate, charged, extra, priced, runs, faults>>
      /\ Executed(o)
  BY DEF MarkNoShows, SnapshotStats, GenerateBoard
<1>3. businessDate' \in Int /\ businessDate' >= businessDate
  BY <1>2, StaysAssumption DEF AuditInv, TypeOK, Dates
<1>4. op[o].at > 3 => businessDate' > op[o].date
  BY <1>1, <1>2, StepsAreInOrder DEF MarkNoShows, SnapshotStats, GenerateBoard, CallIsTrue
<1>5. op' \in [Operators -> Calls] /\ CallsAreTrue'
  BY <1>1, <1>2, <1>3, <1>4, ExecutedStep
<1>6. TypeOK'
  <2>1. CASE MarkNoShows(o)
    <3>1. op[o].date \in Days /\ op[o].listed \subseteq Lines
      BY <1>1, StaysAssumption DEF Days, Dates, Calls
    <3>2. status' \in [Lines -> Statuses]
      BY <2>1 DEF MarkNoShows, AuditInv, TypeOK, Statuses
    <3> QED BY <1>2, <1>5, <2>1, <3>1, <3>2 DEF AuditInv, TypeOK, MarkNoShows
  <2>2. CASE SnapshotStats(o)
    <3>1. \A S \in SUBSET Lines : Cardinality(S) \in Nat
      BY StaysAssumption, FS_Subset, FS_CardinalityType
    <3>2. ChargesOn(op[o].date) \in Nat
      <4>1. Cardinality({l \in Lines : charged[l][op[o].date] > 0}) \in Nat
        BY <3>1
      <4>2. extra[op[o].date] \in Nat
        BY <1>1, ScopeAssumption DEF AuditInv, TypeOK
      <4> QED BY <4>1, <4>2 DEF ChargesOn
    <3>3. snapshot' \in [Dates -> [taken: BOOLEAN, sold: Nat, charges: Nat]]
      BY <2>2, <3>1, <3>2 DEF SnapshotStats, SnapshotDaily, AuditInv, TypeOK
    <3> QED BY <1>2, <1>5, <2>2, <3>3 DEF AuditInv, TypeOK, SnapshotStats, SnapshotDaily, stays
  <2>3. CASE GenerateBoard(o)
    <3>1. op[o].date + 1 \in Dates
      BY <1>1, StaysAssumption DEF Dates
    <3> QED BY <1>2, <1>5, <2>3, <3>1 DEF AuditInv, TypeOK, GenerateBoard, stays
  <2> QED BY <2>1, <2>2, <2>3
<1>7. RowsAreTrue' /\ OneRoomChargePerNight'
  BY <1>2 DEF AuditInv, RowsAreTrue, OneRoomChargePerNight
<1> QED BY <1>5, <1>6, <1>7 DEF AuditInv

\* The date moves past the day the caller audits, or had moved already.
LEMMA AdvanceStep ==
  ASSUME AuditInv, NEW o \in Operators, AdvanceBusinessDate(o)
  PROVE  AuditInv'
<1>1. /\ op[o] \in Calls /\ CallIsTrue(op[o], businessDate)
      /\ op[o].phase = "step" /\ op[o].at = 4
      /\ op[o].date \in Dates /\ op[o].date < LastDate /\ op[o].date <= businessDate
  BY StepsAreInOrder
  DEF AuditInv, TypeOK, CallsAreTrue, CallIsTrue, Calls, AdvanceBusinessDate, At
<1>2. UNCHANGED <<books, runs, faults>> /\ Executed(o)
  BY DEF AdvanceBusinessDate
<1>3. /\ businessDate' \in Dates /\ businessDate' >= businessDate
      /\ businessDate' > op[o].date
      /\ businessDate \in Int /\ businessDate' \in Int
  <2>1. businessDate \in Dates /\ LastDate \in Nat
    BY StaysAssumption DEF AuditInv, TypeOK
  <2>2. businessDate' = IF businessDate = op[o].date THEN op[o].date + 1 ELSE businessDate
    BY DEF AdvanceBusinessDate
  <2> QED BY <1>1, <2>1, <2>2 DEF Dates
<1>4. op' \in [Operators -> Calls] /\ CallsAreTrue'
  BY <1>1, <1>2, <1>3, ExecutedStep
<1>5. TypeOK'
  BY <1>2, <1>3, <1>4 DEF AuditInv, TypeOK, books, stays
<1>6. RowsAreTrue'
  BY <1>2, <1>3, StaysAssumption DEF AuditInv, RowsAreTrue, Dates
<1>7. OneRoomChargePerNight'
  BY <1>2 DEF AuditInv, OneRoomChargePerNight, books
<1> QED BY <1>4, <1>5, <1>6, <1>7 DEF AuditInv

\* What a call may write into a run row without making it lie.
LEMMA RowStep ==
  ASSUME AuditInv, NEW d \in Dates,
         NEW s \in {"NONE", "RUNNING", "FAILED", "COMPLETED"}, NEW done \in SUBSET Steps,
         runs' = [runs EXCEPT ![d] = [status |-> s, done |-> done]],
         "ADVANCE_BUSINESS_DATE" \in done \/ s = "COMPLETED" => businessDate > d,
         UNCHANGED <<businessDate, books>>, op' \in [Operators -> Calls], CallsAreTrue',
         faults' \in 0 .. MaxFaults
  PROVE  AuditInv'
<1>1. \A e \in Dates : runs'[e] = IF e = d THEN [status |-> s, done |-> done] ELSE runs[e]
  BY DEF AuditInv, TypeOK
<1>2. TypeOK'
  BY DEF AuditInv, TypeOK, books, stays
<1>3. RowsAreTrue'
  BY <1>1 DEF AuditInv, RowsAreTrue
<1>4. OneRoomChargePerNight'
  BY DEF AuditInv, OneRoomChargePerNight, books
<1> QED BY <1>2, <1>3, <1>4 DEF AuditInv

\* Starting: the row's list of steps is taken over as it is.
LEMMA StartOrResumeStep ==
  ASSUME AuditInv, NEW o \in Operators, StartOrResume(o)
  PROVE  AuditInv'
<1> DEFINE d == op[o].date
           row == runs[d]
           resumed == [op[o] EXCEPT !.phase = "step", !.at = NextAt(1, row.done),
                                    !.skip = row.done, !.done = row.done]
           inserting == [op[o] EXCEPT !.phase = "insert"]
<1>1. /\ op[o] \in Calls /\ CallIsTrue(op[o], businessDate)
      /\ op[o].phase = "start" /\ d \in Dates /\ d < LastDate
  BY DEF AuditInv, TypeOK, CallsAreTrue, CallIsTrue, Calls, StartOrResume
<1>2. /\ row.done \in SUBSET Steps
      /\ "ADVANCE_BUSINESS_DATE" \in row.done => businessDate > d
  BY <1>1 DEF AuditInv, TypeOK, RowsAreTrue
<1>3. /\ businessDate' \in Int /\ businessDate' >= businessDate
      /\ businessDate' = businessDate /\ UNCHANGED <<books, runs, faults>>
  BY StaysAssumption DEF StartOrResume, AuditInv, TypeOK, Dates
<1>4. Idle \in Calls /\ CallIsTrue(Idle, businessDate')
  BY <1>3, StaysAssumption DEF Idle, Call, Calls, Dates, CallIsTrue, AuditInv, TypeOK
<1>5. inserting \in Calls /\ CallIsTrue(inserting, businessDate')
  BY <1>1, <1>3 DEF Calls, CallIsTrue
<1>6. resumed \in Calls /\ CallIsTrue(resumed, businessDate')
  <2>1. NextAt(1, row.done) \in 1 .. 6
        /\ (NextAt(1, row.done) > 4 => "ADVANCE_BUSINESS_DATE" \in row.done)
    BY NextAtFinds
  <2>2. resumed \in Calls
    BY <1>1, <1>2, <2>1 DEF Calls
  <2> QED BY <1>1, <1>2, <1>3, <2>1, <2>2 DEF CallIsTrue, Calls
<1>7. \E new \in {inserting, Idle, resumed} : op' = [op EXCEPT ![o] = new]
  <2>1. CASE row.status = "NONE"
    BY <2>1 DEF StartOrResume
  <2>2. CASE row.status = "COMPLETED"
    BY <2>2 DEF StartOrResume
  <2>3. CASE row.status \notin {"NONE", "COMPLETED"}
    BY <2>3 DEF StartOrResume
  <2> QED BY <2>1, <2>2, <2>3
<1>8. op' \in [Operators -> Calls] /\ CallsAreTrue'
  <2> HIDE DEF inserting, resumed
  <2>1. PICK new \in Calls : /\ op' = [op EXCEPT ![o] = new]
                             /\ CallIsTrue(new, businessDate')
    BY <1>4, <1>5, <1>6, <1>7
  <2> QED BY <1>3, <2>1, CallStep
<1> QED BY <1>3, <1>8 DEF AuditInv, TypeOK, RowsAreTrue, OneRoomChargePerNight, books, stays

\* A new row lists no step; a refused insert changes nothing.
LEMMA InsertRunStep ==
  ASSUME AuditInv, NEW o \in Operators, InsertRun(o)
  PROVE  AuditInv'
<1> DEFINE d == op[o].date
           begun == [op[o] EXCEPT !.phase = "step"]
<1>1. /\ op[o] \in Calls /\ CallIsTrue(op[o], businessDate)
      /\ op[o].phase = "insert" /\ d \in Dates
  BY DEF AuditInv, TypeOK, CallsAreTrue, Calls, InsertRun
<1>2. /\ businessDate' \in Int /\ businessDate' >= businessDate
      /\ businessDate' = businessDate /\ UNCHANGED <<books, faults>>
      /\ faults' \in 0 .. MaxFaults
  BY StaysAssumption DEF InsertRun, AuditInv, TypeOK, Dates
<1>3. CASE runs[d].status = "NONE"
  <2>1. begun \in Calls /\ CallIsTrue(begun, businessDate')
    BY <1>1, <1>2 DEF Calls, CallIsTrue
  <2>2. op' = [op EXCEPT ![o] = begun]
        /\ runs' = [runs EXCEPT ![d] = [status |-> "RUNNING", done |-> {}]]
    BY <1>3 DEF InsertRun
  <2>3. op' \in [Operators -> Calls] /\ CallsAreTrue'
    <3> HIDE DEF begun
    <3> QED BY <1>2, <2>1, <2>2, CallStep
  <2>4. /\ {} \in SUBSET Steps
        /\ ~("ADVANCE_BUSINESS_DATE" \in {} \/ "RUNNING" = "COMPLETED")
    OBVIOUS
  <2> QED BY <1>1, <1>2, <2>2, <2>3, <2>4, RowStep
<1>4. CASE runs[d].status # "NONE"
  <2>1. op' = [op EXCEPT ![o] = Idle] /\ UNCHANGED runs
    BY <1>4 DEF InsertRun
  <2>2. Idle \in Calls /\ CallIsTrue(Idle, businessDate')
    BY <1>2, StaysAssumption DEF Idle, Call, Calls, Dates, CallIsTrue, AuditInv, TypeOK
  <2>3. op' \in [Operators -> Calls] /\ CallsAreTrue'
    BY <1>2, <2>1, <2>2, CallStep
  <2> QED
    BY <1>2, <2>1, <2>3 DEF AuditInv, TypeOK, RowsAreTrue, OneRoomChargePerNight, books, stays
<1> QED BY <1>3, <1>4

\* Recording a step, finishing and failing all write the caller's own list.
LEMMA RecordStep ==
  ASSUME AuditInv, NEW o \in Operators, Record(o) \/ Finish(o) \/ FailStep(o),
         faults' \in 0 .. MaxFaults
  PROVE  AuditInv'
<1> DEFINE d == op[o].date
<1>1. /\ op[o] \in Calls /\ CallIsTrue(op[o], businessDate)
      /\ d \in Dates /\ op[o].done \in SUBSET Steps /\ op[o].at \in 1 .. 6
  BY DEF AuditInv, TypeOK, CallsAreTrue, Calls
<1>2. /\ UNCHANGED <<businessDate, books>>
      /\ businessDate' \in Int /\ businessDate' >= businessDate
  BY StaysAssumption DEF Record, Finish, FailStep, AuditInv, TypeOK, Dates
<1>3. Idle \in Calls /\ CallIsTrue(Idle, businessDate')
  BY <1>2, StaysAssumption DEF Idle, Call, Calls, Dates, CallIsTrue, AuditInv, TypeOK
<1>4. /\ Results(o) \in SUBSET Steps
      /\ "ADVANCE_BUSINESS_DATE" \in Results(o) => businessDate > d
  <2>1. CASE op[o].phase = "record"
    <3>1. op[o].at \in 1 .. 5
      BY <1>1, <2>1 DEF CallIsTrue
    <3>2. /\ AuditSteps[op[o].at] \in Steps
          /\ AuditSteps[op[o].at] = "ADVANCE_BUSINESS_DATE" => op[o].at = 4
      BY <3>1, StepsAreFive
    <3> QED BY <1>1, <2>1, <3>2 DEF CallIsTrue, Results
  <2>2. CASE op[o].phase # "record"
    BY <1>1, <2>2 DEF CallIsTrue, Results
  <2> QED BY <2>1, <2>2
<1>5. CASE Finish(o) \/ FailStep(o)
  <2>1. op' = [op EXCEPT ![o] = Idle]
    BY <1>5 DEF Finish, FailStep
  <2>2. op' \in [Operators -> Calls] /\ CallsAreTrue'
    BY <1>2, <1>3, <2>1, CallStep
  <2>3. CASE Finish(o)
    <3>1. businessDate > d
      BY <1>1, <2>3 DEF Finish, CallIsTrue
    <3> QED BY <1>1, <1>2, <2>2, <2>3, <3>1, RowStep DEF Finish
  <2>4. CASE FailStep(o)
    BY <1>1, <1>2, <1>4, <2>2, <2>4, RowStep DEF FailStep
  <2> QED BY <1>5, <2>3, <2>4
<1>6. CASE Record(o)
  <2> DEFINE next == NextAt(op[o].at + 1, op[o].skip)
             new == [op[o] EXCEPT !.phase = "step", !.done = Results(o), !.at = next]
  <2>1. op[o].phase = "record" /\ op[o].at \in 1 .. 5 /\ d < LastDate
    BY <1>1, <1>6 DEF Record, CallIsTrue
  <2>2. /\ next \in (op[o].at + 1) .. 6
        /\ op[o].at + 1 <= 4 /\ next > 4 => "ADVANCE_BUSINESS_DATE" \in op[o].skip
    BY <2>1, NextAtFinds
  <2>3. next \in 1 .. 6
    BY <2>1, <2>2
  <2>4. next > 4 => businessDate > d
    BY <1>1, <2>1, <2>2 DEF CallIsTrue
  <2>5. new \in Calls
    <3> HIDE DEF next
    <3> QED BY <1>1, <1>4, <2>3 DEF Calls
  <2>6. CallIsTrue(new, businessDate')
    <3> HIDE DEF next
    <3> QED BY <1>1, <1>2, <1>4, <2>1, <2>4 DEF CallIsTrue, Calls
  <2>7. /\ op' = [op EXCEPT ![o] = new]
        /\ runs' = [runs EXCEPT ![d] = [status |-> "RUNNING", done |-> Results(o)]]
    BY <1>6 DEF Record
  <2>8. op' \in [Operators -> Calls] /\ CallsAreTrue'
    <3> HIDE DEF new
    <3> QED BY <1>2, <2>5, <2>6, <2>7, CallStep
  <2> HIDE DEF new
  <2> QED BY <1>1, <1>2, <1>4, <2>7, <2>8, RowStep
<1> QED BY <1>5, <1>6

-----------------------------------------------------------------------------
LEMMA AuditStep == AuditInv /\ [Next]_vars => AuditInv'
<1> SUFFICES ASSUME AuditInv, [Next]_vars PROVE AuditInv'
  OBVIOUS
<1>1. CASE DeskActs
  BY <1>1, DeskStep
<1>3. ASSUME NEW d \in Dates, PriceNight(d) PROVE AuditInv'
  <2>1. TypeOK'
    BY <1>3 DEF AuditInv, TypeOK, PriceNight, stays
  <2> QED BY <1>3, <2>1
          DEF AuditInv, PriceNight, CallsAreTrue, RowsAreTrue, OneRoomChargePerNight
<1>4. ASSUME NEW o \in Operators, Start(o) \/ Crash(o) PROVE AuditInv'
  BY <1>4, StartStep
<1>5. ASSUME NEW o \in Operators, Proceed(o) PROVE AuditInv'
  <2>1. faults \in 0 .. MaxFaults
    BY DEF AuditInv, TypeOK
  <2>2. CASE ReadInHouse(o) \/ ReadStragglers(o)
    BY <2>2, StartStep
  <2>3. CASE StartOrResume(o)
    BY <2>3, StartOrResumeStep
  <2>8. CASE InsertRun(o)
    BY <2>8, InsertRunStep
  <2>4. CASE PostRoomCharges(o)
    BY <2>4, ChargeStep
  <2>5. CASE MarkNoShows(o) \/ SnapshotStats(o) \/ GenerateBoard(o)
    BY <2>5, BookStep
  <2>6. CASE AdvanceBusinessDate(o)
    BY <2>6, AdvanceStep
  <2>7. CASE NoRateLoaded(o) \/ Record(o) \/ Finish(o)
    BY <2>1, <2>7, RecordStep DEF NoRateLoaded, Record, Finish
  <2> QED BY <1>5, <2>2, <2>3, <2>4, <2>5, <2>6, <2>7, <2>8 DEF Proceed
<1>6. ASSUME NEW o \in Operators, StepFault(o) PROVE AuditInv'
  <2>1. faults' \in 0 .. MaxFaults
    BY <1>6, ScopeAssumption DEF StepFault, AuditInv, TypeOK
  <2> QED BY <1>6, <2>1, RecordStep DEF StepFault
<1>7. CASE UNCHANGED vars
  BY <1>7 DEF vars, books, stays, AuditInv, TypeOK, CallsAreTrue, RowsAreTrue, OneRoomChargePerNight
<1> QED BY <1>1, <1>3, <1>4, <1>5, <1>6, <1>7 DEF Next, DeskActs

LEMMA AuditInvariant == Spec => []AuditInv
BY AuditInit, AuditStep, PTL DEF Spec

-----------------------------------------------------------------------------
\* The variables keep their types, whatever operators, faults and the desk do:
\* in particular no audit moves the date past LastDate or walks past its list.
THEOREM AuditTypeCorrect == Spec => []TypeOK
BY AuditInvariant, PTL DEF AuditInv

\* No guest is charged twice for a night, however many operators run the audit,
\* wherever they fail and start again and however the stay changes: the
\* conditional insert of postRoomCharges is enough.
THEOREM NobodyIsChargedTwice == Spec => []OneRoomChargePerNight
BY AuditInvariant, PTL DEF AuditInv

\* startOrResume never refuses the current business date: a run row is only
\* completed, by any operator, after the date has moved past it.
THEOREM AuditIsNeverWedged == Spec => []NeverWedged
<1>1. AuditInv => NeverWedged
  BY StaysAssumption DEF AuditInv, TypeOK, RowsAreTrue, NeverWedged, Dates
<1> QED BY <1>1, AuditInvariant, PTL

\* The business date moves by one, and only for a call that audits that date:
\* two operators at once do not skip a day.
THEOREM DateMovesOneDayAtATime == Spec => DateMovesByOne
<1>1. AuditInv /\ [Next]_vars =>
        [businessDate' # businessDate =>
           /\ businessDate' = businessDate + 1
           /\ \E o \in Operators : op[o].date = businessDate]_vars
  <2> SUFFICES ASSUME AuditInv, Next, businessDate' # businessDate
               PROVE  /\ businessDate' = businessDate + 1
                      /\ \E o \in Operators : op[o].date = businessDate
    BY DEF vars
  <2>1. PICK o \in Operators : AdvanceBusinessDate(o)
    BY WhoWrites
  <2> QED BY <2>1 DEF AdvanceBusinessDate
<1> QED BY <1>1, AuditInvariant, PTL DEF Spec, DateMovesByOne

-----------------------------------------------------------------------------
\* What a step leaves behind for its date. None of it is ever taken back.
Happened(s, d) ==
  /\ s = "SNAPSHOT_STATS" => snapshot[d].taken
  /\ s = "MARK_NO_SHOWS" => d \in swept
  /\ s = "ADVANCE_BUSINESS_DATE" => businessDate > d
  /\ s = "GENERATE_HOUSEKEEPING_BOARD" => (d + 1) \in board

\* The steps a call counts as done: those on its list, those it was told to
\* skip, those before its position and the one it is about to record.
Counted(c, s) ==
  \/ s \in c.done \cup c.skip
  \/ /\ c.phase \in {"step", "post", "sweep", "record"}
     /\ \E k \in 1 .. 5 : s = AuditSteps[k] /\ (k < c.at \/ (k = c.at /\ c.phase = "record"))

CallsCountWhatHappened ==
  \A o \in Operators, d \in Dates, s \in Steps :
    op[o].date = d /\ Counted(op[o], s) => Happened(s, d)
RowsListWhatHappened == \A d \in Dates : \A s \in runs[d].done : Happened(s, d)
DaysAreWorked == \A d \in Days : d < businessDate => snapshot[d].taken /\ d \in swept
NothingSkipped == CallsCountWhatHappened /\ RowsListWhatHappened /\ DaysAreWorked

\* A step of the audit cannot be undone.
LEMMA WhatHappenedStays ==
  ASSUME AuditInv, [Next]_vars, NEW s \in Steps, NEW d \in Dates, Happened(s, d)
  PROVE  Happened(s, d)'
<1>1. snapshot[d].taken => snapshot'[d].taken
  <2>1. UNCHANGED snapshot \/ \E o \in Operators : SnapshotStats(o)
    BY WhoWrites
  <2>2. ASSUME NEW o \in Operators, SnapshotStats(o) PROVE snapshot[d].taken => snapshot'[d].taken
    <3>1. PICK stats : stats.taken /\ snapshot' = [snapshot EXCEPT ![op[o].date] = stats]
      <4>1. \A n, m : [taken |-> TRUE, charges |-> n, sold |-> m].taken
        OBVIOUS
      <4> QED BY <2>2, <4>1 DEF SnapshotStats, SnapshotDaily
    <3>2. DOMAIN snapshot = Dates
      BY DEF AuditInv, TypeOK
    <3> QED BY <3>1, <3>2
  <2> QED BY <2>1, <2>2
<1>2. swept \subseteq swept'
  BY WhoWrites DEF MarkNoShows
<1>3. businessDate' >= businessDate /\ businessDate \in Int /\ businessDate' \in Int /\ d \in Int
  <2>1. businessDate \in Int /\ d \in Int
    BY StaysAssumption DEF AuditInv, TypeOK, Dates
  <2>2. UNCHANGED businessDate \/ \E o \in Operators : AdvanceBusinessDate(o)
    BY WhoWrites
  <2> QED BY <2>1, <2>2 DEF AdvanceBusinessDate
<1>4. board \subseteq board'
  BY WhoWrites DEF GenerateBoard
<1> QED BY <1>1, <1>2, <1>3, <1>4 DEF Happened

\* A call that starts from nothing, or ends, counts nothing.
LEMMA FreshCallsCountNothing ==
  \A phase \in {"idle", "start"} : \A d, s : ~Counted(Call(phase, d), s)
BY DEF Counted, Call

\* The operator's call does the work of step s.
Does(o, s) ==
  \/ s = "POST_ROOM_CHARGES" /\ PostRoomCharges(o)
  \/ s = "MARK_NO_SHOWS" /\ MarkNoShows(o)
  \/ s = "SNAPSHOT_STATS" /\ SnapshotStats(o)
  \/ s = "ADVANCE_BUSINESS_DATE" /\ AdvanceBusinessDate(o)
  \/ s = "GENERATE_HOUSEKEEPING_BOARD" /\ GenerateBoard(o)

\* What one step can do to one operator's call.
LEMMA CallMoves ==
  ASSUME AuditInv, [Next]_vars, NEW o \in Operators
  PROVE  \/ op'[o] = op[o]
         \/ op'[o] = Idle
         \/ Start(o) /\ op'[o] = Call("start", businessDate)
         \/ StartOrResume(o) \/ InsertRun(o) \/ ReadInHouse(o) \/ ReadStragglers(o) \/ Record(o)
         \/ PostRoomCharges(o) \/ MarkNoShows(o) \/ SnapshotStats(o)
         \/ AdvanceBusinessDate(o) \/ GenerateBoard(o)
<1>1. \A p \in Operators : \A new : op' = [op EXCEPT ![p] = new] =>
        op'[o] = IF p = o THEN new ELSE op[o]
  BY DEF AuditInv, TypeOK
<1>2. ASSUME NEW p \in Operators, Proceed(p) \/ Start(p) \/ StepFault(p) \/ Crash(p), p # o
      PROVE  op'[o] = op[o]
  BY <1>1, <1>2 DEF Proceed, Start, StepFault, Crash, StartOrResume, InsertRun, ReadInHouse,
     ReadStragglers, PostRoomCharges, NoRateLoaded, FailStep, MarkNoShows, SnapshotStats, AdvanceBusinessDate,
     GenerateBoard, Record, Finish, Executed
<1>3. ASSUME StepFault(o) \/ Crash(o) \/ Finish(o) \/ NoRateLoaded(o)
      PROVE  op'[o] = Idle
  BY <1>1, <1>3 DEF StepFault, Crash, Finish, NoRateLoaded, FailStep
<1>4. ASSUME Start(o) PROVE op'[o] = Call("start", businessDate)
  BY <1>1, <1>4 DEF Start
<1>5. \/ UNCHANGED op
      \/ \E p \in Operators : Proceed(p) \/ Start(p) \/ StepFault(p) \/ Crash(p)
  BY WhoWrites
<1> QED BY <1>2, <1>3, <1>4, <1>5 DEF Proceed

\* Where each action leaves its call.
LEMMA CallEndsUp ==
  ASSUME AuditInv, NEW o \in Operators
  PROVE  /\ StartOrResume(o) \/ InsertRun(o) \/ Record(o) \/ Executed(o) =>
              op'[o].phase \in {"idle", "insert", "step", "record"}
         /\ ReadInHouse(o) =>
              /\ op'[o].phase = "post" /\ op'[o].date = op[o].date
              /\ op'[o].listed = Staying(op[o].date)
         /\ ReadStragglers(o) =>
              /\ op'[o].phase = "sweep" /\ op'[o].date = op[o].date
              /\ op'[o].listed = Stragglers(op[o].date)
<1>1. op[o] \in Calls
  BY DEF AuditInv, TypeOK
<1>2. ASSUME NEW new, op' = [op EXCEPT ![o] = new] PROVE op'[o] = new
  BY <1>2 DEF AuditInv, TypeOK
<1>3. \A a, l : /\ [op[o] EXCEPT !.phase = a].phase = a
                /\ [op[o] EXCEPT !.phase = a, !.listed = l].phase = a
                /\ [op[o] EXCEPT !.phase = a, !.listed = l].date = op[o].date
                /\ [op[o] EXCEPT !.phase = a, !.listed = l].listed = l
  BY <1>1 DEF Calls
<1>4. \A a, at, skip, done :
        /\ [op[o] EXCEPT !.phase = a, !.at = at, !.skip = skip, !.done = done].phase = a
        /\ [op[o] EXCEPT !.phase = a, !.done = done, !.at = at].phase = a
  BY <1>1 DEF Calls
<1>5. Idle.phase = "idle"
  BY DEF Idle, Call
<1>6. ASSUME StartOrResume(o) PROVE op'[o].phase \in {"idle", "insert", "step"}
  <2>1. CASE runs[op[o].date].status = "NONE"
    BY <1>2, <1>3, <1>6, <2>1 DEF StartOrResume
  <2>2. CASE runs[op[o].date].status = "COMPLETED"
    BY <1>2, <1>5, <1>6, <2>2 DEF StartOrResume
  <2>3. CASE runs[op[o].date].status \notin {"NONE", "COMPLETED"}
    <3> DEFINE done == runs[op[o].date].done
               at == NextAt(1, done)
    <3>1. op'[o] = [op[o] EXCEPT !.phase = "step", !.at = at, !.skip = done, !.done = done]
      BY <1>2, <1>6, <2>3 DEF StartOrResume
    <3> HIDE DEF done, at
    <3> QED BY <1>4, <3>1
  <2> QED BY <2>1, <2>2, <2>3
<1>7. ASSUME InsertRun(o) PROVE op'[o].phase \in {"idle", "step"}
  BY <1>2, <1>3, <1>5, <1>7 DEF InsertRun
<1>8. ASSUME Record(o) PROVE op'[o].phase = "step"
  <2> DEFINE done == Results(o)
             at == NextAt(op[o].at + 1, op[o].skip)
  <2>1. op'[o] = [op[o] EXCEPT !.phase = "step", !.done = done, !.at = at]
    BY <1>2, <1>8 DEF Record
  <2> HIDE DEF done, at
  <2> QED BY <1>4, <2>1
<1>9. ASSUME Executed(o) PROVE op'[o].phase = "record"
  <2>1. op'[o] = [op[o] EXCEPT !.phase = "record", !.listed = {}]
    BY <1>2, <1>9 DEF Executed
  <2> QED BY <1>3, <2>1
<1>10. ASSUME ReadInHouse(o)
       PROVE  /\ op'[o].phase = "post" /\ op'[o].date = op[o].date
              /\ op'[o].listed = Staying(op[o].date)
  <2>1. op'[o] = [op[o] EXCEPT !.phase = "post", !.listed = Staying(op[o].date)]
    BY <1>2, <1>10 DEF ReadInHouse
  <2> QED BY <1>3, <2>1
<1>11. ASSUME ReadStragglers(o)
       PROVE  /\ op'[o].phase = "sweep" /\ op'[o].date = op[o].date
              /\ op'[o].listed = Stragglers(op[o].date)
  <2>1. op'[o] = [op[o] EXCEPT !.phase = "sweep", !.listed = Stragglers(op[o].date)]
    BY <1>2, <1>11 DEF ReadStragglers
  <2> QED BY <1>3, <2>1
<1> QED BY <1>6, <1>7, <1>8, <1>9, <1>10, <1>11

\* What a call may come to count in one step: what it read in the row, and the
\* step it has just done.
LEMMA CountedGrows ==
  ASSUME AuditInv, [Next]_vars, NEW o \in Operators, NEW s \in Steps, Counted(op'[o], s)
  PROVE  /\ op'[o].date = op[o].date
         /\ op'[o].phase # "idle" => op[o].phase # "idle"
         /\ Counted(op[o], s) \/ s \in runs[op[o].date].done \/ Does(o, s)
<1>1. /\ op[o] \in Calls /\ CallIsTrue(op[o], businessDate)
      /\ op[o].date \in Dates /\ op[o].at \in 1 .. 6
      /\ op[o].done \subseteq Steps /\ op[o].skip \subseteq Steps
  BY DEF AuditInv, TypeOK, CallsAreTrue, Calls
<1>3. CASE op'[o] = op[o]
  BY <1>3
<1>4. CASE op'[o] \in {Idle, Call("start", businessDate)}
  BY <1>4, FreshCallsCountNothing DEF Idle
<1>5. ASSUME NEW new, op' = [op EXCEPT ![o] = new] PROVE op'[o] = new
  BY <1>5 DEF AuditInv, TypeOK
<1>6. CASE StartOrResume(o)
  <2> DEFINE row == runs[op[o].date]
             at == NextAt(1, row.done)
             inserting == [op[o] EXCEPT !.phase = "insert"]
             resumed == [op[o] EXCEPT !.phase = "step", !.at = at, !.skip = row.done,
                                      !.done = row.done]
  <2>1. op'[o] \in {inserting, Idle, resumed} /\ op[o].phase = "start"
    BY <1>5, <1>6 DEF StartOrResume
  <2>2. CASE op'[o] = inserting
    <3>1. /\ op'[o].date = op[o].date /\ op'[o].done = op[o].done
          /\ op'[o].skip = op[o].skip /\ op'[o].phase = "insert"
      BY <1>1, <2>2 DEF Calls
    <3> QED BY <2>1, <3>1 DEF Counted
  <2>3. CASE op'[o] = resumed
    <3>1. at \in 1 .. 6 /\ \A k \in 1 .. (at - 1) : AuditSteps[k] \in row.done
      BY NextAtFinds
    <3> HIDE DEF at
    <3>2. /\ op'[o].date = op[o].date /\ op'[o].done = row.done /\ op'[o].skip = row.done
          /\ op'[o].phase = "step" /\ op'[o].at = at
      BY <1>1, <2>3 DEF Calls
    <3>3. s \in row.done
      BY <3>1, <3>2 DEF Counted
    <3> QED BY <2>1, <3>2, <3>3
  <2>4. CASE op'[o] = Idle
    BY <2>4, FreshCallsCountNothing DEF Idle
  <2> QED BY <2>1, <2>2, <2>3, <2>4
<1>7. CASE InsertRun(o)
  <2> DEFINE begun == [op[o] EXCEPT !.phase = "step"]
  <2>1. op'[o] \in {begun, Idle} /\ op[o].phase = "insert" /\ op[o].at = 1
    BY <1>1, <1>5, <1>7 DEF InsertRun, CallIsTrue
  <2>2. CASE op'[o] = begun
    <3>1. /\ op'[o].date = op[o].date /\ op'[o].done = op[o].done
          /\ op'[o].skip = op[o].skip /\ op'[o].phase = "step" /\ op'[o].at = 1
      BY <1>1, <2>1, <2>2 DEF Calls
    <3> QED BY <2>1, <3>1 DEF Counted
  <2>3. CASE op'[o] = Idle
    BY <2>3, FreshCallsCountNothing DEF Idle
  <2> QED BY <2>1, <2>2, <2>3
<1>8. CASE ReadInHouse(o) \/ ReadStragglers(o)
  <2>1. /\ op[o].phase = "step"
        /\ \/ op'[o] = [op[o] EXCEPT !.phase = "post", !.listed = Staying(op[o].date)]
           \/ op'[o] = [op[o] EXCEPT !.phase = "sweep", !.listed = Stragglers(op[o].date)]
    BY <1>5, <1>8 DEF ReadInHouse, ReadStragglers, At
  <2>2. /\ op'[o].date = op[o].date /\ op'[o].done = op[o].done
        /\ op'[o].skip = op[o].skip /\ op'[o].phase \in {"post", "sweep"} /\ op'[o].at = op[o].at
    BY <1>1, <2>1 DEF Calls
  <2> QED BY <2>1, <2>2 DEF Counted
<1>9. CASE Record(o)
  <2> DEFINE at == NextAt(op[o].at + 1, op[o].skip)
             results == Results(o)
             new == [op[o] EXCEPT !.phase = "step", !.done = results, !.at = at]
  <2>0. op'[o] = new
    <3>1. op' = [op EXCEPT ![o] = new]
      BY <1>9 DEF Record
    <3> HIDE DEF new
    <3> QED BY <1>5, <3>1
  <2>1. op[o].phase = "record" /\ op[o].at \in 1 .. 5 /\ op'[o] = new
    BY <1>1, <1>9, <2>0 DEF Record, CallIsTrue
  <2>2. at \in (op[o].at + 1) .. 6
        /\ \A k \in (op[o].at + 1) .. (at - 1) : AuditSteps[k] \in op[o].skip
    BY <2>1, NextAtFinds
  <2>3. results = op[o].done \cup {AuditSteps[op[o].at]}
    BY <2>1 DEF Results
  <2> HIDE DEF at, results
  <2>4. /\ op'[o].date = op[o].date /\ op'[o].done = results
        /\ op'[o].skip = op[o].skip /\ op'[o].phase = "step" /\ op'[o].at = at
    BY <1>1, <2>1 DEF Calls
  <2>5. CASE s \in results \cup op[o].skip
    BY <2>1, <2>3, <2>4, <2>5 DEF Counted
  <2>6. ASSUME NEW k \in 1 .. 5, s = AuditSteps[k], k < at PROVE Counted(op[o], s)
    <3>1. CASE k <= op[o].at
      BY <2>1, <2>6, <3>1 DEF Counted
    <3>2. CASE k > op[o].at
      BY <2>1, <2>2, <2>6, <3>2 DEF Counted
    <3> QED BY <2>1, <3>1, <3>2
  <2> QED BY <2>1, <2>4, <2>5, <2>6 DEF Counted
<1>10. CASE \/ PostRoomCharges(o) \/ MarkNoShows(o) \/ SnapshotStats(o)
            \/ AdvanceBusinessDate(o) \/ GenerateBoard(o)
  <2>1. Executed(o) /\ op[o].phase \in {"step", "post", "sweep"} /\ op[o].at \in 1 .. 5
    BY <1>1, <1>10 DEF PostRoomCharges, MarkNoShows, SnapshotStats, AdvanceBusinessDate,
       GenerateBoard, At, CallIsTrue
  <2>2. op'[o] = [op[o] EXCEPT !.phase = "record", !.listed = {}]
    BY <1>5, <2>1 DEF Executed
  <2>3. /\ op'[o].date = op[o].date /\ op'[o].done = op[o].done /\ op'[o].skip = op[o].skip
        /\ op'[o].at = op[o].at /\ op'[o].phase = "record"
    BY <1>1, <2>2 DEF Calls
  <2>4. Counted(op[o], s) \/ s = AuditSteps[op[o].at]
    BY <2>1, <2>3 DEF Counted
  <2>5. ASSUME s = AuditSteps[op[o].at] PROVE Does(o, s)
    <3>1. CASE PostRoomCharges(o)
      BY <1>1, <2>5, <3>1, StepsAreFive DEF PostRoomCharges, CallIsTrue, Does
    <3>2. CASE MarkNoShows(o)
      BY <1>1, <2>5, <3>2, StepsAreFive DEF MarkNoShows, CallIsTrue, Does
    <3>3. CASE SnapshotStats(o)
      BY <2>5, <3>3 DEF SnapshotStats, At, Does
    <3>4. CASE AdvanceBusinessDate(o)
      BY <2>5, <3>4 DEF AdvanceBusinessDate, At, Does
    <3>5. CASE GenerateBoard(o)
      BY <2>5, <3>5 DEF GenerateBoard, At, Does
    <3> QED BY <1>10, <3>1, <3>2, <3>3, <3>4, <3>5
  <2> QED BY <2>1, <2>3, <2>4, <2>5
<1> QED BY <1>3, <1>4, <1>6, <1>7, <1>8, <1>9, <1>10, CallMoves

\* What a call is about to write into the row has happened.
LEMMA ResultsHappened ==
  ASSUME AuditInv, CallsCountWhatHappened, NEW o \in Operators,
         op[o].phase = "record" => op[o].at <= 5
  PROVE  /\ Results(o) \subseteq Steps
         /\ \A d \in Dates, s \in Results(o) : d = op[o].date => Happened(s, d)
<1>1. op[o] \in Calls /\ op[o].done \subseteq Steps /\ op[o].at \in 1 .. 6
  BY DEF AuditInv, TypeOK, Calls
<1>2. ASSUME NEW s \in Results(o) PROVE s \in Steps /\ Counted(op[o], s)
  <2>1. CASE s \in op[o].done
    BY <1>1, <2>1 DEF Counted
  <2>2. CASE op[o].phase = "record" /\ s = AuditSteps[op[o].at]
    <3>1. op[o].at \in 1 .. 5
      BY <1>1, <2>2
    <3> QED BY <2>2, <3>1, StepsAreFive DEF Counted
  <2> QED BY <1>2, <2>1, <2>2 DEF Results
<1> QED BY <1>2 DEF CallsCountWhatHappened

\* A row takes a call's list.
LEMMA RowLists ==
  ASSUME AuditInv, [Next]_vars, RowsListWhatHappened, NEW e \in Dates, NEW row,
         runs' = [runs EXCEPT ![e] = row], row.done \subseteq Steps,
         \A d \in Dates, s \in row.done : d = e => Happened(s, d)
  PROVE  RowsListWhatHappened'
<1>1. \A d \in Dates : runs'[d] = IF d = e THEN row ELSE runs[d]
  BY DEF AuditInv, TypeOK
<1>2. \A d \in Dates : runs[d].done \subseteq Steps
  BY DEF AuditInv, TypeOK
<1>3. ASSUME NEW d \in Dates, NEW s \in runs'[d].done PROVE Happened(s, d)'
  <2>1. s \in Steps /\ Happened(s, d)
    BY <1>1, <1>2, <1>3 DEF RowsListWhatHappened
  <2> QED BY <2>1, WhatHappenedStays
<1> QED BY <1>3 DEF RowsListWhatHappened

LEMMA RowsKept ==
  ASSUME AuditInv, [Next]_vars, RowsListWhatHappened, UNCHANGED runs
  PROVE  RowsListWhatHappened'
<1>1. \A d \in Dates : runs[d].done \subseteq Steps
  BY DEF AuditInv, TypeOK
<1>2. ASSUME NEW d \in Dates, NEW s \in runs'[d].done PROVE Happened(s, d)'
  <2>1. s \in Steps /\ Happened(s, d)
    BY <1>1, <1>2 DEF RowsListWhatHappened
  <2> QED BY <2>1, WhatHappenedStays
<1> QED BY <1>2 DEF RowsListWhatHappened

LEMMA CallsKeepCounting ==
  AuditInv /\ CallsCountWhatHappened /\ RowsListWhatHappened /\ [Next]_vars
    => CallsCountWhatHappened'
<1> SUFFICES ASSUME AuditInv, CallsCountWhatHappened, RowsListWhatHappened, [Next]_vars
             PROVE  CallsCountWhatHappened'
  OBVIOUS
<1>1. ASSUME NEW o \in Operators, NEW d \in Dates, NEW s \in Steps,
             op'[o].date = d, Counted(op'[o], s)
      PROVE  Happened(s, d)'
  <2>1. /\ op[o].date = d
        /\ Counted(op[o], s) \/ s \in runs[d].done \/ Does(o, s)
    BY <1>1, CountedGrows
  <2> op[o].date <= businessDate /\ businessDate \in Int /\ d \in Int
    BY StaysAssumption DEF AuditInv, CallsAreTrue, CallIsTrue, TypeOK, Dates
  <2>2. CASE Happened(s, d)
    BY <2>2, WhatHappenedStays
  <2>3. CASE Does(o, s)
    <3>1. CASE s = "POST_ROOM_CHARGES"
      BY <3>1 DEF Happened
    <3>2. CASE s = "MARK_NO_SHOWS" /\ MarkNoShows(o)
      BY <2>1, <3>2 DEF MarkNoShows, Happened
    <3>3. CASE s = "SNAPSHOT_STATS" /\ SnapshotStats(o)
      BY <2>1, <3>3 DEF SnapshotStats, SnapshotDaily, AuditInv, TypeOK, Happened
    <3>4. CASE s = "ADVANCE_BUSINESS_DATE" /\ AdvanceBusinessDate(o)
      <4>1. businessDate' = IF businessDate = d THEN d + 1 ELSE businessDate
        BY <2>1, <3>4 DEF AdvanceBusinessDate
      <4> QED BY <2>1, <3>4, <4>1 DEF Happened
    <3>5. CASE s = "GENERATE_HOUSEKEEPING_BOARD" /\ GenerateBoard(o)
      BY <2>1, <3>5 DEF GenerateBoard, Happened
    <3> QED BY <2>3, <3>1, <3>2, <3>3, <3>4, <3>5 DEF Does
  <2> QED BY <2>1, <2>2, <2>3 DEF CallsCountWhatHappened, RowsListWhatHappened
<1> QED BY <1>1 DEF CallsCountWhatHappened, Counted

LEMMA RowsKeepListing ==
  AuditInv /\ CallsCountWhatHappened /\ RowsListWhatHappened /\ [Next]_vars
    => RowsListWhatHappened'
<1> SUFFICES ASSUME AuditInv, CallsCountWhatHappened, RowsListWhatHappened, [Next]_vars
             PROVE  RowsListWhatHappened'
  OBVIOUS
<1>1. ASSUME NEW o \in Operators
      PROVE  /\ op[o].date \in Dates
             /\ op[o].phase = "record" => op[o].at <= 5
             /\ op[o].done \subseteq Results(o)
  BY DEF AuditInv, TypeOK, CallsAreTrue, CallIsTrue, Calls, Results
<1>2. ASSUME NEW o \in Operators, NEW st, NEW done \in SUBSET Results(o),
             runs' = [runs EXCEPT ![op[o].date] = [status |-> st, done |-> done]]
      PROVE  RowsListWhatHappened'
  <2> DEFINE e == op[o].date
             row == [status |-> st, done |-> done]
  <2>1. e \in Dates /\ row.done \subseteq Steps /\ runs' = [runs EXCEPT ![e] = row]
        /\ \A d \in Dates, s \in row.done : d = e => Happened(s, d)
    BY <1>1, <1>2, ResultsHappened
  <2> HIDE DEF e, row
  <2> QED BY <2>1, RowLists
<1>3. ASSUME NEW o \in Operators,
             InsertRun(o) \/ Record(o) \/ Finish(o) \/ FailStep(o)
      PROVE  RowsListWhatHappened'
  <2>1. \/ UNCHANGED runs
        \/ \E st \in {"RUNNING", "COMPLETED", "FAILED"}, done \in {{}, op[o].done, Results(o)} :
             runs' = [runs EXCEPT ![op[o].date] = [status |-> st, done |-> done]]
    BY <1>3 DEF InsertRun, Record, Finish, FailStep
  <2> QED BY <1>1, <1>2, <2>1, RowsKept
<1>4. \/ UNCHANGED runs
      \/ \E o \in Operators : InsertRun(o) \/ Record(o) \/ Finish(o) \/ FailStep(o)
  BY WhoWrites
<1> QED BY <1>3, <1>4, RowsKept

\* When the date moves, the mover has counted the steps before the change of date.
LEMMA DaysStayWorked ==
  AuditInv /\ NothingSkipped /\ [Next]_vars => DaysAreWorked'
<1> SUFFICES ASSUME AuditInv, NothingSkipped, [Next]_vars,
                    NEW d \in Days, d < businessDate'
             PROVE  (snapshot[d].taken /\ d \in swept)'
  BY DEF DaysAreWorked
<1>1. d \in Dates /\ businessDate \in Int /\ d \in Int
      /\ "SNAPSHOT_STATS" \in Steps /\ "MARK_NO_SHOWS" \in Steps
  <2>1. d \in Dates /\ d \in Int
    BY StaysAssumption DEF Dates, Days
  <2>2. businessDate \in Int
    BY StaysAssumption DEF Dates, AuditInv, TypeOK
  <2>3. "SNAPSHOT_STATS" \in Steps /\ "MARK_NO_SHOWS" \in Steps
    BY StepsAreFive
  <2> QED BY <2>1, <2>2, <2>3
<1>2. Happened("SNAPSHOT_STATS", d) /\ Happened("MARK_NO_SHOWS", d)
  <2>1. CASE d < businessDate
    BY <2>1 DEF NothingSkipped, DaysAreWorked, Happened
  <2>2. CASE ~(d < businessDate)
    <3>1. businessDate' # businessDate
      BY <2>2
    <3>2. PICK o \in Operators : AdvanceBusinessDate(o)
      BY <3>1, WhoWrites
    <3>3. op[o].date = d /\ op[o].phase = "step" /\ op[o].at = 4
      <4>1. op[o].phase = "step" /\ op[o].at = 4
        BY <3>2, StepsAreInOrder DEF AdvanceBusinessDate, At, AuditInv, TypeOK
      <4>2. businessDate = op[o].date /\ businessDate' = op[o].date + 1
        BY <3>1, <3>2 DEF AdvanceBusinessDate
      <4> QED BY <1>1, <2>2, <4>1, <4>2
    <3>4. Counted(op[o], "SNAPSHOT_STATS") /\ Counted(op[o], "MARK_NO_SHOWS")
      BY <3>3, StepsAreFive DEF Counted
    <3> QED BY <1>1, <3>3, <3>4 DEF NothingSkipped, CallsCountWhatHappened
  <2> QED BY <2>1, <2>2
<1>3. Happened("SNAPSHOT_STATS", d)' /\ Happened("MARK_NO_SHOWS", d)'
  BY <1>1, <1>2, WhatHappenedStays
<1> QED BY <1>3 DEF Happened

LEMMA NothingIsSkipped == Spec => []NothingSkipped
<1>1. Init => NothingSkipped
  BY StaysAssumption DEF Init, NothingSkipped, CallsCountWhatHappened, RowsListWhatHappened,
     DaysAreWorked, Counted, Idle, Call, NoRun, Days
<1>2. AuditInv /\ NothingSkipped /\ [Next]_vars => NothingSkipped'
  BY CallsKeepCounting, RowsKeepListing, DaysStayWorked DEF NothingSkipped
<1> QED BY <1>1, <1>2, AuditInvariant, PTL DEF Spec

-----------------------------------------------------------------------------
(* Who is still expected on a day that was swept.                          *)

\* Everybody due on a day whose no-shows were marked came late to it; everybody
\* due when they are about to be is on the list or came late.
LateIsKnown ==
  /\ \A d \in swept, l \in Lines : Due(l, d) => <<l, d>> \in late
  /\ \A o \in Operators, l \in Lines :
       op[o].phase = "sweep" /\ Due(l, op[o].date) =>
         l \in op[o].listed \/ <<l, op[o].date>> \in late

\* A guest the desk puts on a day that is being swept, or was, is late.
LEMMA DeskMarksLate ==
  ASSUME AuditInv, DeskActs, NEW l \in Lines, NEW d \in Days, Sweeping(d), Due(l, d)'
  PROVE  Due(l, d) \/ <<l, d>> \in late'
<1>0. TypeOK
  BY DEF AuditInv
<1>1. ASSUME NEW m \in Lines, NEW from \in Dates, NEW to \in Dates,
             Create(m, from, to) \/ ModifyDates(m, from, to)
      PROVE  Due(l, d) \/ <<l, d>> \in late'
  <2>1. Rebook(m, from, to) /\ (l # m => status'[l] = status[l])
    BY <1>0, <1>1 DEF Create, ModifyDates, TypeOK
  <2>2. CASE l # m
    BY <1>0, <2>1, <2>2 DEF Due, Rebook, TypeOK
  <2>3. CASE l = m
    <3>1. arrival'[l] = from /\ from <= d
      BY <1>0, <2>1, <2>3 DEF Due, Rebook, TypeOK
    <3> QED BY <2>1, <2>3, <3>1 DEF Rebook
  <2> QED BY <2>2, <2>3
<1>2. ASSUME NEW m \in Lines, Cancel(m) \/ CheckIn(m) \/ CheckOut(m) PROVE Due(l, d)
  BY <1>0, <1>2 DEF Due, Cancel, CheckIn, CheckOut, DeskMoves, TypeOK
<1>3. ASSUME PostExtra PROVE Due(l, d)
  BY <1>3 DEF Due, PostExtra, stays
<1> QED BY <1>1, <1>2, <1>3 DEF DeskActs

LEMMA LateStaysKnown == AuditInv /\ LateIsKnown /\ [Next]_vars => LateIsKnown'
<1> SUFFICES ASSUME AuditInv, LateIsKnown, [Next]_vars PROVE LateIsKnown'
  OBVIOUS
<1>1. /\ swept \subseteq Days
      /\ \A o \in Operators : op[o].phase # "idle" => op[o].date \in Days
  <2>1. ASSUME NEW o \in Operators, op[o].phase # "idle" PROVE op[o].date \in Days
    BY <2>1, StaysAssumption DEF AuditInv, TypeOK, CallsAreTrue, CallIsTrue, Calls, Dates, Days
  <2> QED BY <2>1 DEF AuditInv, TypeOK
<1>2. CASE DeskActs
  <2>1. UNCHANGED <<swept, op>>
    BY <1>2, DeskFrame
  <2>2. late \subseteq late'
    BY <1>2 DEF DeskActs, Create, ModifyDates, Rebook, Cancel, CheckIn, CheckOut, DeskMoves,
       PostExtra, stays
  <2>3. ASSUME NEW d \in swept, NEW l \in Lines, Due(l, d)' PROVE <<l, d>> \in late'
    <3>1. d \in Days /\ Sweeping(d)
      BY <1>1 DEF Sweeping
    <3> QED BY <1>2, <2>2, <2>3, <3>1, DeskMarksLate DEF LateIsKnown
  <2>4. ASSUME NEW o \in Operators, NEW l \in Lines, op[o].phase = "sweep", Due(l, op[o].date)'
        PROVE  l \in op[o].listed \/ <<l, op[o].date>> \in late'
    <3>1. PICK d \in Days : d = op[o].date /\ Sweeping(d)
      BY <1>1, <2>4 DEF Sweeping
    <3>2. Due(l, d)'
      BY <2>1, <2>4, <3>1
    <3> QED BY <1>2, <2>2, <2>4, <3>1, <3>2, DeskMarksLate DEF LateIsKnown
  <2> QED BY <2>1, <2>3, <2>4 DEF LateIsKnown
<1>3. ASSUME NEW o \in Operators, MarkNoShows(o) PROVE LateIsKnown'
  <2>1. UNCHANGED <<arrival, late>> /\ swept' = swept \cup {op[o].date} /\ op[o].phase = "sweep"
    BY <1>3 DEF MarkNoShows
  <2>2. \A l \in Lines : \A d : Due(l, d)' => Due(l, d) /\ l \notin op[o].listed
    BY <1>3, <2>1 DEF MarkNoShows, Due
  <2>3. \A d \in swept', l \in Lines : Due(l, d)' => <<l, d>> \in late'
    BY <2>1, <2>2 DEF LateIsKnown
  <2>4. ASSUME NEW p \in Operators, op'[p].phase = "sweep" PROVE op'[p] = op[p]
    <3>1. op[o] \in Calls /\ op' = [op EXCEPT ![o] = [op[o] EXCEPT !.phase = "record", !.listed = {}]]
      BY <1>3 DEF MarkNoShows, Executed, AuditInv, TypeOK
    <3>2. [op[o] EXCEPT !.phase = "record", !.listed = {}].phase # "sweep"
      BY <3>1 DEF Calls
    <3> DEFINE new == [op[o] EXCEPT !.phase = "record", !.listed = {}]
    <3> HIDE DEF new
    <3> QED BY <2>4, <3>1, <3>2 DEF new, AuditInv, TypeOK
  <2>5. ASSUME NEW p \in Operators, NEW l \in Lines, op'[p].phase = "sweep", Due(l, op[p].date)'
        PROVE  l \in op'[p].listed \/ <<l, op'[p].date>> \in late'
    BY <2>1, <2>2, <2>4, <2>5 DEF LateIsKnown
  <2>6. \A p \in Operators : op'[p].phase = "sweep" => op'[p].date = op[p].date
    BY <2>4
  <2> QED BY <2>3, <2>5, <2>6 DEF LateIsKnown, Due
<1>4. CASE UNCHANGED stays /\ UNCHANGED swept
  <2>1. \A l, d : Due(l, d)' = Due(l, d)
    BY <1>4 DEF Due, stays
  <2>2. ASSUME NEW p \in Operators, op'[p].phase = "sweep"
        PROVE  op'[p] = op[p] \/ (op'[p].date = op[p].date /\ op'[p].listed = Stragglers(op[p].date))
    <3>1. CASE op'[p] = Idle \/ op'[p] = Call("start", businessDate)
      BY <2>2, <3>1 DEF Idle, Call
    <3>2. CASE \/ PostRoomCharges(p) \/ MarkNoShows(p) \/ SnapshotStats(p)
               \/ AdvanceBusinessDate(p) \/ GenerateBoard(p)
      <4>1. Executed(p)
        BY <3>2 DEF PostRoomCharges, MarkNoShows, SnapshotStats, AdvanceBusinessDate, GenerateBoard
      <4> QED BY <2>2, <4>1, CallEndsUp
    <3>3. CASE StartOrResume(p) \/ InsertRun(p) \/ ReadInHouse(p) \/ ReadStragglers(p) \/ Record(p)
      BY <2>2, <3>3, CallEndsUp
    <3> QED BY <3>1, <3>2, <3>3, CallMoves
  <2>3. ASSUME NEW p \in Operators, NEW l \in Lines, op'[p].phase = "sweep", Due(l, op'[p].date)
        PROVE  l \in op'[p].listed \/ <<l, op'[p].date>> \in late
    BY <2>2, <2>3 DEF LateIsKnown, Stragglers
  <2>4. \A d \in swept', l \in Lines : Due(l, d) => <<l, d>> \in late'
    BY <1>4 DEF LateIsKnown, stays
  <2> QED BY <1>4, <2>1, <2>3, <2>4 DEF LateIsKnown, Due, stays
<1> QED BY <1>2, <1>3, <1>4, WhoWrites

\* Every day that has closed has its statistics taken and its no-shows marked,
\* whatever failed, crashed or ran beside it on the way; whoever is still expected
\* on it was put there when its no-shows had been listed.
THEOREM ClosedDaysWereWorked == Spec => []ClosedDaysAreClosed
<1>1. Init => LateIsKnown
  BY DEF Init, LateIsKnown, Idle, Call
<1>2. NothingSkipped /\ LateIsKnown => ClosedDaysAreClosed
  BY DEF NothingSkipped, DaysAreWorked, LateIsKnown, ClosedDaysAreClosed, DayIsClosed
<1> QED BY <1>1, <1>2, LateStaysKnown, AuditInvariant, NothingIsSkipped, PTL DEF Spec

\* What a run row lists as done was done, although operators overwrite each
\* other's lists: a call that resumes from the row skips nothing.
THEOREM RowsTellTheTruth == Spec => []RecordedStepsHappened
<1>1. NothingSkipped => RecordedStepsHappened
  BY StaysAssumption DEF NothingSkipped, RowsListWhatHappened, Happened, RecordedStepsHappened,
     Days, Dates
<1> QED BY <1>1, NothingIsSkipped, PTL

-----------------------------------------------------------------------------
(* What the statistics count. As long as the desk stands still while an    *)
(* audit runs, everything a call or a row counts as done stays done for the *)
(* day it audits, so a second operator repeats it without effect.          *)

\* A call of run() that has not returned.
AtWork(o) == op[o].phase # "idle"

\* The statistics the snapshot step would take of the day now.
Stats(d) ==
  [taken |-> TRUE, charges |-> ChargesOn(d),
   sold |-> Cardinality({l \in Lines : /\ status[l] = "CHECKED_IN"
                                        /\ arrival[l] <= d /\ departure[l] > d})]

\* What the charging step and the snapshot step leave behind for their date as
\* long as the desk stands still: everybody who stays is charged, and the
\* statistics are those that would be taken again.
ChargedUp(d) == \A l \in Staying(d) : charged[l][d] > 0
Took(d) == snapshot[d] = Stats(d) /\ ChargedUp(d)
Settled(s, d) ==
  /\ s = "POST_ROOM_CHARGES" => ChargedUp(d)
  /\ s = "SNAPSHOT_STATS" => Took(d)

\* Somebody works on the day, or may start to.
Open(d) == d = businessDate \/ \E o \in Operators : AtWork(o) /\ op[o].date = d

RowsBegin ==
  \A d \in Dates :
    /\ runs[d].status = "NONE" => runs[d].done = {}
    /\ d > businessDate => runs[d].status = "NONE"
ListsAreCurrent ==
  \A o \in Operators :
    /\ op[o].phase = "post" => op[o].listed = Staying(op[o].date)
    /\ op[o].phase = "sweep" => \A l \in op[o].listed : status[l] # "CHECKED_IN"
CallsCountSettled ==
  \A o \in Operators, d \in Dates, s \in Steps :
    AtWork(o) /\ op[o].date = d /\ Counted(op[o], s) => Settled(s, d)
RowsListSettled == \A d \in Dates : Open(d) => \A s \in runs[d].done : Settled(s, d)
MovedDaysSettled ==
  \A o \in Operators, d \in Dates :
    AtWork(o) /\ op[o].date = d /\ d < businessDate => Took(d)
LedgerInv ==
  /\ RowsBegin /\ ListsAreCurrent /\ CallsCountSettled /\ RowsListSettled
  /\ MovedDaysSettled /\ SnapshotAgreesWithLedger

LEMMA LedgerInit == Init => LedgerInv
<1> SUFFICES ASSUME Init PROVE LedgerInv
  OBVIOUS
<1>1. RowsBegin /\ RowsListSettled
  BY DEF Init, RowsBegin, RowsListSettled, NoRun
<1>2. \A o \in Operators : ~AtWork(o)
  BY DEF Init, AtWork, Idle, Call
<1>3. ListsAreCurrent /\ CallsCountSettled /\ MovedDaysSettled
  BY <1>2 DEF Init, Idle, Call, ListsAreCurrent, CallsCountSettled, MovedDaysSettled
<1>4. SnapshotAgreesWithLedger
  BY StaysAssumption DEF Init, SnapshotAgreesWithLedger, Days
<1> QED BY <1>1, <1>3, <1>4 DEF LedgerInv

\* A step that leaves the house, its dates and the other postings as they are.
SameHouse ==
  /\ \A l \in Lines : status'[l] = "CHECKED_IN" <=> status[l] = "CHECKED_IN"
  /\ UNCHANGED <<arrival, departure, extra>>

\* Only the desk brings guests into the house or takes them out, moves their
\* dates or posts other charges: the no-shows are not in the house.
LEMMA DeskAlone ==
  ASSUME AuditInv, ListsAreCurrent, [Next]_vars
  PROVE  DeskActs \/ SameHouse
<1>1. ASSUME NEW o \in Operators, MarkNoShows(o) PROVE SameHouse
  <2>1. \A l \in op[o].listed : status[l] # "CHECKED_IN"
    BY <1>1 DEF MarkNoShows, ListsAreCurrent
  <2> QED BY <1>1, <2>1 DEF MarkNoShows, SameHouse
<1>2. CASE UNCHANGED stays /\ UNCHANGED extra
  BY <1>2 DEF stays, SameHouse
<1>3. (\E o \in Operators : MarkNoShows(o)) => UNCHANGED extra
  BY DEF MarkNoShows
<1> QED BY <1>1, <1>2, <1>3, WhoWrites

\* With nobody in or out of the house the same guests stay the night.
LEMMA SameGuests ==
  ASSUME SameHouse, NEW d
  PROVE  /\ Staying(d)' = Staying(d)
         /\ {l \in Lines : status'[l] = "CHECKED_IN" /\ arrival'[l] <= d /\ departure'[l] > d}
            = {l \in Lines : status[l] = "CHECKED_IN" /\ arrival[l] <= d /\ departure[l] > d}
BY DEF Staying, SameHouse

\* The one writer of charges, seen line by line: an entry is never taken back,
\* and a new one is on the writer's list.
LEMMA ChargesGrow ==
  ASSUME AuditInv, [Next]_vars, NEW l \in Lines, NEW d \in Dates
  PROVE  /\ charged[l][d] > 0 => charged'[l][d] > 0
         /\ charged'[l][d] > 0 /\ ~(charged[l][d] > 0) =>
              \E o \in Operators :
                AtWork(o) /\ op[o].date = d /\ op[o].phase = "post" /\ l \in op[o].listed
<1>1. ASSUME NEW o \in Operators, PostRoomCharges(o)
      PROVE  /\ charged'[l][d] = Charge(l, d, o)
             /\ AtWork(o) /\ op[o].phase = "post"
  BY <1>1 DEF PostRoomCharges, AtWork
<1>2. CASE \E o \in Operators : PostRoomCharges(o)
  BY <1>1, <1>2 DEF Charge, AlreadyCharged
<1>3. CASE UNCHANGED charged
  BY <1>3
<1> QED
  BY <1>2, <1>3, WhoWrites

\* While the desk stands still a day that is charged up stays so, and then
\* nobody charges it again: what the ledger says of it is final.
LEMMA ChargedUpStays ==
  ASSUME AuditInv, ListsAreCurrent, [Next]_vars, NEW d \in Dates, ChargedUp(d),
         SameHouse
  PROVE  ChargedUp(d)' /\ Stats(d)' = Stats(d)
<1>1. Staying(d)' = Staying(d)
  BY SameGuests
<1>2. \A l \in Lines : charged'[l][d] > 0 <=> charged[l][d] > 0
  <2>1. \A o \in Operators :
          op[o].phase = "post" /\ op[o].date = d => op[o].listed \subseteq Staying(d)
    BY DEF ListsAreCurrent
  <2> QED BY <2>1, ChargesGrow DEF ChargedUp
<1>3. ChargedUp(d)'
  BY <1>1, <1>2 DEF ChargedUp, Staying
<1>4. {l \in Lines : charged'[l][d] > 0} = {l \in Lines : charged[l][d] > 0}
  BY <1>2
<1>5. ChargesOn(d)' = ChargesOn(d)
  BY <1>4 DEF ChargesOn, SameHouse
<1> QED BY <1>3, <1>5, SameGuests DEF Stats

\* The snapshot step takes the statistics of the moment.
LEMMA SnapshotIsStats ==
  ASSUME AuditInv, NEW o \in Operators, SnapshotStats(o)
  PROVE  /\ op[o].date \in Dates /\ AtWork(o) /\ op[o].at = 3 /\ op[o].phase = "step"
         /\ \A d \in Dates : snapshot'[d] = IF d = op[o].date THEN Stats(d) ELSE snapshot[d]
<1>1. op[o] \in Calls /\ op[o].date \in Dates /\ snapshot \in [Dates -> [taken: BOOLEAN, sold: Nat, charges: Nat]]
  BY DEF AuditInv, TypeOK, Calls
<1>2. AtWork(o) /\ op[o].at = 3 /\ op[o].phase = "step"
  BY <1>1, StepsAreInOrder DEF SnapshotStats, At, AtWork
<1>3. snapshot' = [snapshot EXCEPT ![op[o].date] = Stats(op[o].date)]
  BY DEF SnapshotStats, SnapshotDaily, Stats
<1> QED BY <1>1, <1>2, <1>3

\* The calls at work after a step were at work before it, on the same day, or
\* have just started on today.
LEMMA WhoIsAtWork ==
  ASSUME AuditInv, [Next]_vars, NEW o \in Operators, op'[o].phase # "idle"
  PROVE  \/ AtWork(o) /\ op'[o].date = op[o].date
         \/ op'[o].date = businessDate /\ businessDate' = businessDate
<1>1. op[o] \in Calls
  BY DEF AuditInv, TypeOK
<1>2. ASSUME NEW new, op' = [op EXCEPT ![o] = new] PROVE op'[o] = new
  BY <1>2 DEF AuditInv, TypeOK
<1>3. CASE StartOrResume(o)
  BY <1>1, <1>2, <1>3 DEF StartOrResume, AtWork, Calls, Idle, Call
<1>4. CASE InsertRun(o)
  BY <1>1, <1>2, <1>4 DEF InsertRun, AtWork, Calls, Idle, Call
<1>5. CASE ReadInHouse(o) \/ ReadStragglers(o)
  BY <1>1, <1>2, <1>5 DEF ReadInHouse, ReadStragglers, AtWork, At, Calls
<1>6. CASE Record(o)
  BY <1>1, <1>2, <1>6 DEF Record, AtWork, Calls
<1>7. CASE \/ PostRoomCharges(o) \/ MarkNoShows(o) \/ SnapshotStats(o)
           \/ AdvanceBusinessDate(o) \/ GenerateBoard(o)
  <2>1. Executed(o) /\ AtWork(o)
    BY <1>7 DEF PostRoomCharges, MarkNoShows, SnapshotStats, AdvanceBusinessDate,
       GenerateBoard, At, AtWork
  <2> QED BY <1>1, <1>2, <2>1 DEF Executed, Calls
<1>8. CASE Start(o) /\ op'[o] = Call("start", businessDate)
  BY <1>8 DEF Start, Call
<1> QED BY <1>3, <1>4, <1>5, <1>6, <1>7, <1>8, CallMoves DEF Idle, Call, AtWork

\* The date only moves on, and only for a call at its fourth step.
LEMMA WhoMovesTheDate ==
  ASSUME AuditInv, [Next]_vars
  PROVE  /\ businessDate \in Int /\ businessDate' \in {businessDate, businessDate + 1}
         /\ businessDate' # businessDate =>
              \E o \in Operators :
                /\ AtWork(o) /\ op[o].date = businessDate
                /\ op[o].phase = "step" /\ op[o].at = 4
<1>1. businessDate \in Int
  BY DEF AuditInv, TypeOK, Dates
<1>2. ASSUME NEW o \in Operators, AdvanceBusinessDate(o)
      PROVE  /\ op[o].phase = "step" /\ op[o].at = 4 /\ AtWork(o)
             /\ businessDate' = IF businessDate = op[o].date THEN op[o].date + 1 ELSE businessDate
  BY <1>2, StepsAreInOrder DEF AuditInv, TypeOK, AdvanceBusinessDate, At, AtWork
<1>3. UNCHANGED businessDate \/ \E o \in Operators : AdvanceBusinessDate(o)
  BY WhoWrites
<1> QED BY <1>1, <1>2, <1>3

\* A row is written by a call at work on its day, with steps the call counts.
LEMMA WhoWritesRows ==
  ASSUME AuditInv, [Next]_vars, NEW d \in Dates, runs'[d] # runs[d]
  PROVE  /\ runs'[d].status # "NONE"
         /\ \E o \in Operators :
              /\ AtWork(o) /\ op[o].date = d
              /\ \A s \in runs'[d].done : s \in Steps /\ Counted(op[o], s)
<1>1. ASSUME NEW o \in Operators
      PROVE  /\ op[o].date \in Dates /\ op[o].at \in 1 .. 6
             /\ op[o].phase = "record" => op[o].at <= 5
             /\ op[o].done \subseteq Steps
  BY DEF AuditInv, TypeOK, CallsAreTrue, CallIsTrue, Calls
<1>2. ASSUME NEW o \in Operators, NEW s \in Results(o) PROVE s \in Steps /\ Counted(op[o], s)
  <2>1. CASE s \in op[o].done
    BY <1>1, <2>1 DEF Counted
  <2>2. CASE op[o].phase = "record" /\ s = AuditSteps[op[o].at]
    <3>1. op[o].at \in 1 .. 5
      BY <1>1, <2>2
    <3> QED BY <2>2, <3>1, StepsAreFive DEF Counted
  <2> QED BY <1>2, <2>1, <2>2 DEF Results
<1>3. ASSUME NEW o \in Operators, NEW st, NEW done \in SUBSET Results(o),
             runs' = [runs EXCEPT ![op[o].date] = [status |-> st, done |-> done]],
             st # "NONE", AtWork(o)
      PROVE  /\ runs'[d].status # "NONE"
             /\ \E p \in Operators :
                  /\ AtWork(p) /\ op[p].date = d
                  /\ \A s \in runs'[d].done : s \in Steps /\ Counted(op[p], s)
  <2>1. d = op[o].date /\ runs'[d] = [status |-> st, done |-> done]
    BY <1>1, <1>3 DEF AuditInv, TypeOK
  <2> QED BY <1>2, <1>3, <2>1
<1>4. ASSUME NEW o \in Operators, InsertRun(o) \/ Record(o) \/ Finish(o) \/ FailStep(o)
      PROVE  \/ UNCHANGED runs
             \/ /\ AtWork(o)
                /\ \E st \in {"RUNNING", "COMPLETED", "FAILED"}, done \in {{}, op[o].done, Results(o)} :
                     runs' = [runs EXCEPT ![op[o].date] = [status |-> st, done |-> done]]
  BY <1>4 DEF InsertRun, Record, Finish, FailStep, AtWork
<1>5. \A o \in Operators : op[o].done \subseteq Results(o)
  BY DEF Results
<1>6. \/ UNCHANGED runs
      \/ \E o \in Operators : InsertRun(o) \/ Record(o) \/ Finish(o) \/ FailStep(o)
  BY WhoWrites
<1> QED BY <1>3, <1>4, <1>5, <1>6

\* The steps before a call's position count for it.
LEMMA EarlierStepsCount ==
  ASSUME NEW o \in Operators, op[o].phase = "step", op[o].at \in 1 .. 6
  PROVE  /\ op[o].at > 1 => Counted(op[o], "POST_ROOM_CHARGES")
         /\ op[o].at > 3 => Counted(op[o], "SNAPSHOT_STATS")
BY StepsAreFive DEF Counted

\* The desk works only while no call is at work and the day's audit has not
\* begun: nothing has been counted for the day.
LEMMA LedgerDeskStep ==
  ASSUME ~DeskDuringAudit, AuditInv, LedgerInv, DeskActs
  PROVE  LedgerInv'
<1>1. /\ \A o \in Operators : ~AtWork(o) /\ op[o].phase = "idle"
      /\ runs[businessDate].status = "NONE" /\ businessDate \in Dates
      /\ UNCHANGED <<businessDate, charged, snapshot, runs, op>>
  BY DeskFrame DEF DeskMayWork, AtWork, AuditInv, TypeOK
<1>2. \A o \in Operators : op'[o].phase = "idle"
  BY <1>1
<1>3. CallsCountSettled' /\ MovedDaysSettled'
  BY <1>2 DEF CallsCountSettled, MovedDaysSettled, AtWork
<1>4. ListsAreCurrent'
  BY <1>2 DEF ListsAreCurrent
<1>5. RowsBegin' /\ runs[businessDate].done = {}
  BY <1>1 DEF LedgerInv, RowsBegin
<1>6. RowsListSettled'
  BY <1>1, <1>2, <1>5 DEF RowsListSettled, Open, AtWork
<1>7. SnapshotAgreesWithLedger'
  <2>1. UNCHANGED extra \/ PostExtra
    BY DEF DeskActs, Create, ModifyDates, Rebook, Cancel, CheckIn, CheckOut, DeskMoves
  <2>2. ASSUME NEW d \in Days, d < businessDate PROVE extra'[d] = extra[d]
    <3>1. d \in Dates /\ d # businessDate
      BY <1>1, <2>2, StaysAssumption DEF Days, Dates
    <3> QED BY <2>1, <3>1 DEF PostExtra, AuditInv, TypeOK
  <2>3. ASSUME NEW d \in Days, d < businessDate PROVE ChargesOn(d)' = ChargesOn(d)
    BY <1>1, <2>2, <2>3 DEF ChargesOn
  <2> QED BY <1>1, <2>3 DEF LedgerInv, SnapshotAgreesWithLedger
<1> QED BY <1>3, <1>4, <1>5, <1>6, <1>7 DEF LedgerInv

\* While the desk stands still, what is settled for a day stays settled.
LEMMA TookStays ==
  ASSUME AuditInv, ListsAreCurrent, [Next]_vars, NEW d \in Dates, Took(d),
         SameHouse
  PROVE  Took(d)' /\ snapshot'[d] = snapshot[d]
<1>1. ChargedUp(d)' /\ Stats(d)' = Stats(d)
  BY ChargedUpStays DEF Took
<1>2. snapshot'[d] = Stats(d)
  <2>1. UNCHANGED snapshot \/ \E o \in Operators : SnapshotStats(o)
    BY WhoWrites
  <2> QED BY <2>1, SnapshotIsStats DEF Took
<1> QED BY <1>1, <1>2 DEF Took

LEMMA SettledStays ==
  ASSUME AuditInv, ListsAreCurrent, [Next]_vars, NEW d \in Dates, NEW s, Settled(s, d),
         SameHouse
  PROVE  Settled(s, d)'
BY ChargedUpStays, TookStays DEF Settled

LEMMA LedgerStillStep ==
  ASSUME AuditInv, LedgerInv, [Next]_vars,
         SameHouse
  PROVE  LedgerInv'
<1>1. /\ RowsBegin /\ ListsAreCurrent /\ CallsCountSettled /\ RowsListSettled
      /\ MovedDaysSettled /\ SnapshotAgreesWithLedger
  BY DEF LedgerInv
<1>2. ASSUME NEW o \in Operators
      PROVE  /\ op[o].date \in Dates /\ op[o].at \in 1 .. 6 /\ op[o].date <= businessDate
             /\ op[o].date \in Int
  BY DEF AuditInv, TypeOK, CallsAreTrue, CallIsTrue, Calls, Dates
<1>3. businessDate \in Int /\ businessDate' \in {businessDate, businessDate + 1}
  BY WhoMovesTheDate
<1>4. "POST_ROOM_CHARGES" \in Steps /\ "SNAPSHOT_STATS" \in Steps
  BY StepsAreFive
\* Whoever moves the date has counted both steps.
<1>5. ASSUME businessDate' # businessDate PROVE businessDate \in Dates /\ Took(businessDate)
  <2>1. PICK o \in Operators : /\ AtWork(o) /\ op[o].date = businessDate
                               /\ op[o].phase = "step" /\ op[o].at = 4
    BY <1>5, WhoMovesTheDate
  <2>2. Counted(op[o], "SNAPSHOT_STATS")
    BY <2>1, EarlierStepsCount
  <2>3. Settled("SNAPSHOT_STATS", businessDate)
    BY <1>1, <1>2, <1>4, <2>1, <2>2 DEF CallsCountSettled
  <2> QED BY <1>2, <2>1, <2>3 DEF Settled
<1>6. RowsBegin'
  <2>1. ASSUME NEW d \in Dates, runs'[d].status = "NONE" PROVE runs'[d] = runs[d]
    BY <2>1, WhoWritesRows
  <2>2. ASSUME NEW d \in Dates, d > businessDate' PROVE runs'[d] = runs[d] /\ d > businessDate
    <3>1. d > businessDate
      BY <1>3, <2>2 DEF Dates
    <3>2. \A o \in Operators : op[o].date # d
      BY <1>2, <1>3, <3>1
    <3> QED BY <3>1, <3>2, WhoWritesRows
  <2> QED BY <1>1, <2>1, <2>2 DEF RowsBegin
<1>7. ListsAreCurrent'
  <2>1. \A d : Staying(d)' = Staying(d)
    BY SameGuests
  <2>2. ASSUME NEW o \in Operators
        PROVE  /\ op'[o].phase = "post" => op'[o].listed = Staying(op'[o].date)
               /\ op'[o].phase = "sweep" => \A l \in op'[o].listed : l \in Lines => status[l] # "CHECKED_IN"
    <3>1. CASE op'[o] = op[o]
      BY <1>1, <3>1 DEF ListsAreCurrent
    <3>2. CASE op'[o] = Idle \/ op'[o] = Call("start", businessDate)
      BY <3>2 DEF Idle, Call
    <3>3. CASE StartOrResume(o) \/ InsertRun(o) \/ ReadInHouse(o) \/ Record(o)
      BY <3>3, CallEndsUp
    <3>4. CASE ReadStragglers(o)
      BY <3>4, CallEndsUp DEF Stragglers, Due
    <3>5. CASE \/ PostRoomCharges(o) \/ MarkNoShows(o) \/ SnapshotStats(o)
               \/ AdvanceBusinessDate(o) \/ GenerateBoard(o)
      <4>1. Executed(o)
        BY <3>5 DEF PostRoomCharges, MarkNoShows, SnapshotStats, AdvanceBusinessDate, GenerateBoard
      <4> QED BY <4>1, CallEndsUp
    <3> QED BY <3>1, <3>2, <3>3, <3>4, <3>5, CallMoves
  <2>3. \A o \in Operators : op'[o].listed \subseteq Lines
    BY AuditStep DEF AuditInv, TypeOK, Calls
  <2> QED BY <2>1, <2>2, <2>3 DEF ListsAreCurrent, SameHouse
<1>8. ASSUME NEW o \in Operators, NEW d \in Dates, NEW s \in Steps, op'[o].phase # "idle",
             op'[o].date = d, Counted(op'[o], s)
      PROVE  Settled(s, d)'
  <2>1. /\ op[o].date = d /\ AtWork(o)
        /\ Counted(op[o], s) \/ s \in runs[d].done \/ Does(o, s)
    BY <1>8, CountedGrows DEF AtWork
  <2>2. CASE Counted(op[o], s)
    BY <1>1, <2>1, <2>2, SettledStays DEF CallsCountSettled
  <2>3. CASE s \in runs[d].done
    BY <1>1, <2>1, <2>3, SettledStays DEF RowsListSettled, Open
  <2>4. CASE s = "POST_ROOM_CHARGES" /\ PostRoomCharges(o)
    <3>1. op[o].listed = Staying(d)
      BY <1>1, <2>1, <2>4 DEF PostRoomCharges, ListsAreCurrent
    <3>2. \A l \in Staying(d) : charged'[l][d] > 0
      BY <2>1, <2>4, <3>1 DEF PostRoomCharges, Charge, AlreadyCharged, Staying
    <3>3. ChargedUp(d)'
      BY <3>2, SameGuests DEF ChargedUp
    <3> QED BY <2>4, <3>3 DEF Settled
  <2>5. CASE s = "SNAPSHOT_STATS" /\ SnapshotStats(o)
    <3>1. op[o].phase = "step" /\ op[o].at = 3 /\ snapshot'[d] = Stats(d)
      BY <2>1, <2>5, SnapshotIsStats
    <3>2. ChargedUp(d)
      BY <1>1, <1>2, <1>4, <2>1, <3>1, EarlierStepsCount DEF CallsCountSettled, Settled
    <3>3. ChargedUp(d)' /\ Stats(d)' = Stats(d)
      BY <1>1, <3>2, ChargedUpStays
    <3> QED BY <2>5, <3>1, <3>3 DEF Settled, Took
  <2>6. CASE s \notin {"POST_ROOM_CHARGES", "SNAPSHOT_STATS"}
    BY <2>6 DEF Settled
  <2> QED BY <2>1, <2>2, <2>3, <2>4, <2>5, <2>6 DEF Does
<1>9. CallsCountSettled'
  BY <1>8 DEF CallsCountSettled, AtWork, Counted
<1>10. RowsListSettled'
  <2>1. ASSUME NEW d \in Dates, \/ d = businessDate'
                                \/ \E o \in Operators : op'[o].phase # "idle" /\ op'[o].date = d
        PROVE  Open(d) \/ runs[d].done = {}
    <3>1. CASE d = businessDate' /\ d # businessDate
      BY <1>1, <1>3, <3>1 DEF RowsBegin
    <3>2. CASE d = businessDate
      BY <3>2 DEF Open
    <3>3. CASE \E o \in Operators : op'[o].phase # "idle" /\ op'[o].date = d
      BY <3>3, WhoIsAtWork DEF Open
    <3> QED BY <2>1, <3>1, <3>2, <3>3
  <2>2. ASSUME NEW d \in Dates, Open(d) \/ runs[d].done = {}, NEW s \in runs'[d].done
        PROVE  Settled(s, d)'
    <3>1. CASE runs'[d] = runs[d]
      BY <1>1, <2>2, <3>1, SettledStays DEF RowsListSettled
    <3>2. CASE runs'[d] # runs[d]
      <4>1. PICK o \in Operators : AtWork(o) /\ op[o].date = d /\ s \in Steps /\ Counted(op[o], s)
        BY <2>2, <3>2, WhoWritesRows
      <4>2. Settled(s, d)
        BY <1>1, <4>1 DEF CallsCountSettled
      <4> QED BY <1>1, <4>2, SettledStays
    <3> QED BY <3>1, <3>2
  <2> QED BY <2>1, <2>2 DEF RowsListSettled, Open, AtWork
<1>11. MovedDaysSettled'
  <2>1. ASSUME NEW o \in Operators, NEW d \in Dates, op'[o].phase # "idle", op'[o].date = d,
               d < businessDate'
        PROVE  Took(d)
    <3>1. AtWork(o) /\ op[o].date = d
      BY <1>3, <2>1, WhoIsAtWork
    <3>2. CASE d < businessDate
      BY <1>1, <3>1, <3>2 DEF MovedDaysSettled
    <3>3. CASE ~(d < businessDate)
      <4>1. d = businessDate /\ businessDate' # businessDate
        BY <1>2, <1>3, <2>1, <3>1, <3>3
      <4> QED BY <1>5, <4>1
    <3> QED BY <3>2, <3>3
  <2>2. ASSUME NEW o \in Operators, NEW d \in Dates, op'[o].phase # "idle", op'[o].date = d,
               d < businessDate'
        PROVE  Took(d)'
    BY <1>1, <2>1, <2>2, TookStays
  <2> QED BY <2>2 DEF MovedDaysSettled, AtWork
<1>12. SnapshotAgreesWithLedger'
  <2>1. ASSUME NEW d \in Days, d < businessDate'
        PROVE  snapshot'[d].charges = ChargesOn(d)'
    <3>1. d \in Dates /\ d \in Int
      BY StaysAssumption DEF Days, Dates
    <3>2. CASE Took(d)
      <4>1. Took(d)'
        BY <1>1, <3>1, <3>2, TookStays
      <4> QED BY <4>1 DEF Took, Stats
    <3>3. CASE d = businessDate
      <4>1. Took(d)
        BY <1>3, <1>5, <2>1, <3>3
      <4> QED BY <3>2, <4>1
    <3>4. CASE d < businessDate /\ ~Took(d)
      <4>1. \A o \in Operators : ~(AtWork(o) /\ op[o].date = d)
        BY <1>1, <3>1, <3>4 DEF MovedDaysSettled
      <4>2. {l \in Lines : charged'[l][d] > 0} = {l \in Lines : charged[l][d] > 0}
        BY <3>1, <4>1, ChargesGrow
      <4>3. snapshot'[d] = snapshot[d]
        <5>1. UNCHANGED snapshot \/ \E o \in Operators : SnapshotStats(o)
          BY WhoWrites
        <5> QED BY <3>1, <4>1, <5>1, SnapshotIsStats
      <4> QED BY <1>1, <3>4, <4>2, <4>3 DEF SnapshotAgreesWithLedger, ChargesOn, SameHouse
    <3> QED BY <1>3, <2>1, <3>1, <3>2, <3>3, <3>4
  <2> QED BY <2>1 DEF SnapshotAgreesWithLedger
<1> QED BY <1>6, <1>7, <1>9, <1>10, <1>11, <1>12 DEF LedgerInv

LEMMA LedgerInvariant ==
  ASSUME ~DeskDuringAudit
  PROVE  Spec => [](AuditInv /\ LedgerInv)
<1>1. Init => AuditInv /\ LedgerInv
  BY AuditInit, LedgerInit
<1>2. AuditInv /\ LedgerInv /\ [Next]_vars => (AuditInv /\ LedgerInv)'
  BY AuditStep, DeskAlone, LedgerDeskStep, LedgerStillStep DEF LedgerInv
<1> QED BY <1>1, <1>2, PTL DEF Spec

\* The statistics of a closed day count every line posted on that day, for any
\* number of operators and whatever failed, if the desk stands still from the
\* moment an audit starts until the date has moved.
THEOREM StatisticsAgreeWithLedger ==
  ASSUME ~DeskDuringAudit
  PROVE  Spec => []SnapshotAgreesWithLedger
BY LedgerInvariant, PTL DEF LedgerInv

\* Under the same condition the date moves only when every guest who stays that
\* night has been charged for it, once.
THEOREM EveryNightIsCharged ==
  ASSUME ~DeskDuringAudit
  PROVE  Spec => NightsCharged
<1>1. AuditInv /\ LedgerInv /\ [Next]_vars =>
        [businessDate' # businessDate =>
           \A l \in Lines :
             status[l] = "CHECKED_IN" /\ departure[l] > businessDate
               => charged[l][businessDate] = 1]_vars
  <2> SUFFICES ASSUME AuditInv, LedgerInv, [Next]_vars, businessDate' # businessDate,
                      NEW l \in Lines, status[l] = "CHECKED_IN", departure[l] > businessDate
               PROVE  charged[l][businessDate] = 1
    OBVIOUS
  <2>1. PICK o \in Operators : /\ AtWork(o) /\ op[o].date = businessDate
                               /\ op[o].phase = "step" /\ op[o].at = 4
    BY WhoMovesTheDate
  <2>2. businessDate \in Dates /\ Settled("POST_ROOM_CHARGES", businessDate)
    BY <2>1, EarlierStepsCount, StepsAreFive
    DEF LedgerInv, CallsCountSettled, AuditInv, TypeOK
  <2>3. charged[l][businessDate] > 0
    BY <2>2 DEF Settled, ChargedUp, Staying
  <2> QED BY <2>2, <2>3 DEF AuditInv, TypeOK, OneRoomChargePerNight
<1> QED BY <1>1, LedgerInvariant, PTL DEF Spec, NightsCharged

\* Under the same condition the statistics of a closed day never change again,
\* although a second operator may take them once more.
THEOREM StatisticsStayFrozen ==
  ASSUME ~DeskDuringAudit
  PROVE  Spec => FrozenSnapshot
<1>1. AuditInv /\ LedgerInv /\ [Next]_vars =>
        [\A d \in Days : d < businessDate => snapshot'[d] = snapshot[d]]_vars
  <2> SUFFICES ASSUME AuditInv, LedgerInv, [Next]_vars, NEW d \in Days, d < businessDate
               PROVE  snapshot'[d] = snapshot[d]
    OBVIOUS
  <2>1. d \in Dates
    BY StaysAssumption DEF Days, Dates
  <2>2. UNCHANGED snapshot \/ \E o \in Operators : SnapshotStats(o)
    BY WhoWrites
  <2> QED BY <2>1, <2>2, SnapshotIsStats DEF LedgerInv, MovedDaysSettled, Took
<1> QED BY <1>1, LedgerInvariant, PTL DEF Spec, FrozenSnapshot

-----------------------------------------------------------------------------
(* One call at a time: the desk may work beside the audit.                 *)

\* No two calls of run() are under way together. Nothing in the code ensures it.
OneCallAtATime == \A o, p \in Operators : AtWork(o) /\ AtWork(p) => o = p

\* A call alone is past the change of date on the days it has left behind.
PastItsDay ==
  \A o \in Operators :
    AtWork(o) /\ op[o].date < businessDate
      => op[o].at > 4 \/ (op[o].at = 4 /\ op[o].phase = "record")

LEMMA PastItsDayStep ==
  OneCallAtATime /\ AuditInv /\ PastItsDay /\ [Next]_vars => PastItsDay'
<1> SUFFICES ASSUME OneCallAtATime, AuditInv, PastItsDay, [Next]_vars, NEW o \in Operators,
                    op'[o].phase # "idle", op'[o].date < businessDate'
             PROVE  op'[o].at > 4 \/ (op'[o].at = 4 /\ op'[o].phase = "record")
  BY DEF PastItsDay, AtWork
<1>1. /\ op[o] \in Calls /\ CallIsTrue(op[o], businessDate)
      /\ op[o].date \in Int /\ op[o].at \in 1 .. 6 /\ op[o].date <= businessDate
  BY DEF AuditInv, TypeOK, CallsAreTrue, CallIsTrue, Calls, Dates
<1>2. ASSUME NEW new, op' = [op EXCEPT ![o] = new] PROVE op'[o] = new
  BY <1>2 DEF AuditInv, TypeOK
<1>3. businessDate \in Int /\ businessDate' \in {businessDate, businessDate + 1}
  BY WhoMovesTheDate
<1>4. AtWork(o) /\ op'[o].date = op[o].date
  BY <1>3, WhoIsAtWork
<1>5. CASE op[o].date = businessDate
  <2>1. AdvanceBusinessDate(o)
    <3>1. businessDate' # businessDate
      BY <1>3, <1>4, <1>5
    <3>2. PICK p \in Operators : AdvanceBusinessDate(p)
      BY <3>1, WhoWrites
    <3>3. p = o
      BY <1>4, <3>2 DEF OneCallAtATime, AtWork, AdvanceBusinessDate, At
    <3> QED BY <3>2, <3>3
  <2>2. op[o].at = 4 /\ Executed(o)
    BY <1>1, <2>1, StepsAreInOrder DEF AdvanceBusinessDate
  <2>3. op'[o] = [op[o] EXCEPT !.phase = "record", !.listed = {}]
    BY <1>2, <2>2 DEF Executed
  <2> QED BY <1>1, <2>2, <2>3 DEF Calls
<1>6. CASE op[o].date < businessDate
  <2>1. op[o].at > 4 \/ (op[o].at = 4 /\ op[o].phase = "record")
    BY <1>4, <1>6 DEF PastItsDay
  <2>2. CASE op'[o] = op[o]
    BY <2>1, <2>2
  <2>3. CASE Record(o)
    <3> DEFINE at == NextAt(op[o].at + 1, op[o].skip)
    <3>1. op[o].at \in 1 .. 5
      BY <1>1, <2>3 DEF Record, CallIsTrue
    <3>2. at \in (op[o].at + 1) .. 6
      BY <3>1, NextAtFinds
    <3>3. op'[o].at = at
      <4> DEFINE new == [op[o] EXCEPT !.phase = "step", !.done = Results(o), !.at = at]
      <4>1. op' = [op EXCEPT ![o] = new]
        BY <2>3 DEF Record
      <4>2. new.at = at
        BY <1>1 DEF Calls
      <4> HIDE DEF new
      <4> QED BY <1>2, <4>1, <4>2
    <3> HIDE DEF at
    <3> QED BY <1>1, <2>1, <3>2, <3>3
  <2>4. CASE \/ PostRoomCharges(o) \/ MarkNoShows(o) \/ SnapshotStats(o)
             \/ AdvanceBusinessDate(o) \/ GenerateBoard(o)
    <3>1. Executed(o) /\ op[o].phase # "record"
      BY <2>4 DEF PostRoomCharges, MarkNoShows, SnapshotStats, AdvanceBusinessDate,
         GenerateBoard, At
    <3>2. op'[o].at = op[o].at
      BY <1>1, <1>2, <3>1 DEF Executed, Calls
    <3> QED BY <2>1, <3>1, <3>2
  <2>5. CASE StartOrResume(o) \/ InsertRun(o) \/ ReadInHouse(o) \/ ReadStragglers(o)
    <3>1. op[o].at \in {1, 2}
      BY <1>1, <2>5, StepsAreInOrder
      DEF StartOrResume, InsertRun, ReadInHouse, ReadStragglers, CallIsTrue
    <3> QED BY <2>1, <3>1
  <2>6. CASE op'[o] = Idle \/ Start(o)
    BY <1>4, <2>6 DEF Idle, Call, Start, AtWork
  <2> QED BY <2>2, <2>3, <2>4, <2>5, <2>6, CallMoves
<1> QED BY <1>1, <1>3, <1>5, <1>6

\* If no two audits are under way together, the statistics of a closed day never
\* change again, whoever runs them, although the desk goes on working beside them
\* and they fail, crash and resume.
THEOREM StatisticsStayFrozenAlone == Spec /\ []OneCallAtATime => FrozenSnapshot
<1>1. Init => AuditInv /\ PastItsDay
  BY AuditInit DEF Init, PastItsDay, AtWork, Idle, Call
<1>2. OneCallAtATime /\ AuditInv /\ PastItsDay /\ [Next]_vars => (AuditInv /\ PastItsDay)'
  BY AuditStep, PastItsDayStep
<1>3. AuditInv /\ PastItsDay /\ [Next]_vars =>
        [\A d \in Days : d < businessDate => snapshot'[d] = snapshot[d]]_vars
  <2> SUFFICES ASSUME AuditInv, PastItsDay, [Next]_vars, NEW d \in Days, d < businessDate
               PROVE  snapshot'[d] = snapshot[d]
    OBVIOUS
  <2>1. d \in Dates
    BY StaysAssumption DEF Days, Dates
  <2>2. UNCHANGED snapshot \/ \E o \in Operators : SnapshotStats(o)
    BY WhoWrites
  <2> QED BY <2>1, <2>2, SnapshotIsStats DEF PastItsDay
<1> QED BY <1>1, <1>2, <1>3, PTL DEF Spec, FrozenSnapshot
=============================================================================
