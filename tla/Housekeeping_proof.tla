------------------------- MODULE Housekeeping_proof -------------------------
(***************************************************************************)
(* Theorems about the housekeeping board, for any number of rooms, staff   *)
(* and open transactions.                                                  *)
(***************************************************************************)
EXTENDS Housekeeping, TLAPS

Task == [status : TaskStatus, assignedTo : Staff \cup {Nobody}]
Board == [op : {"guests", "board"}, found : SUBSET Keys, owed : SUBSET Rooms]
Completion == [op : {"complete"}, key : Keys, who : Staff, seen : Task,
               room : RoomStatus \cup {"unread"}]
Inspection == [op : {"inspect"}, key : Keys, passed : BOOLEAN, seen : Task,
               room : RoomStatus \cup {"unread"}]

StateTyped ==
  /\ roomStatus \in [Rooms -> RoomStatus]
  /\ guest \in [Rooms -> Guests \cup {NoGuest}]
  /\ task \in [Keys -> Task]
  /\ \A k \in Keys : task[k].status = "NONE" => task[k].assignedTo = Nobody
  /\ unfit \subseteq Rooms
  /\ job \in [Jobs -> {Idle} \cup Board \cup Completion \cup Inspection]

\* Two transactions never hold the same row, and what the holder read of it is
\* still so.
LocksExclude ==
  \A i, j \in Jobs :
    /\ \A k \in Keys : HoldsTask(i, k) /\ HoldsTask(j, k) => i = j
    /\ \A r \in Rooms : HoldsRoom(i, r) /\ HoldsRoom(j, r) => i = j
ReadsHold ==
  \A j \in Jobs :
    /\ \A k \in Keys : HoldsTask(j, k) => job[j].seen = task[k] /\ task[k].status # "NONE"
    /\ \A r \in Rooms : HoldsRoom(j, r) => job[j].room = roomStatus[r]

\* A board being built has a task for every room it owes one.
BoardsOwe ==
  \A j \in Jobs : job[j].op \in {"guests", "board"} =>
    \A r \in job[j].owed : \E t \in TaskTypes : <<r, t>> \in job[j].found

BoardInv == /\ StateTyped /\ LocksExclude /\ ReadsHold /\ BoardsOwe
            /\ GuestRoomsStayOccupied /\ UnfitStaysUnsold

-----------------------------------------------------------------------------
(* The machines.                                                           *)

LEMMA ManualMovesKeepOutOfGuestRooms ==
  ASSUME NEW from, NEW to, CanTransitionManually(from, to)
  PROVE  from # "OCCUPIED" /\ to # "OCCUPIED"
BY DEF CanTransitionManually, RoomMoves, SystemOnly

LEMMA GuestsMoveIntoCleanRooms ==
  ASSUME NEW from, CanTransitionRoom(from, "OCCUPIED")
  PROVE  from = "VACANT_CLEAN"
BY DEF CanTransitionRoom, RoomMoves

LEMMA TasksOfRooms ==
  /\ \A k \in Keys : RoomAt(k) \in Rooms /\ TypeOf(k) \in TaskTypes /\ k = <<RoomAt(k), TypeOf(k)>>
  /\ InHouse \subseteq Keys /\ Dirty \subseteq Keys
BY DEF Keys, RoomAt, TypeOf, TaskTypes, InHouse, Dirty, GuestRooms, DirtyRooms

LEMMA JobFields ==
  ASSUME StateTyped, NEW j \in Jobs
  PROVE  /\ job[j].op \in {"guests", "board"} => job[j] \in Board
         /\ job[j].op = "complete" => job[j] \in Completion
         /\ job[j].op = "inspect" => job[j] \in Inspection
         /\ job[j] \in {Idle} \cup Board \cup Completion \cup Inspection
BY DEF StateTyped, Idle, Board, Completion, Inspection

-----------------------------------------------------------------------------
LEMMA BoardInitially == Init => BoardInv
<1> SUFFICES ASSUME Init PROVE BoardInv
  OBVIOUS
<1>1. StateTyped
  BY DEF Init, StateTyped, Task, NoTask, TaskStatus
<1>2. \A j \in Jobs : job[j].op = "none"
  BY DEF Init, Idle
<1>3. LocksExclude /\ ReadsHold /\ BoardsOwe
  BY <1>2 DEF LocksExclude, ReadsHold, BoardsOwe, HoldsTask, HoldsRoom
<1>4. GuestRoomsStayOccupied /\ UnfitStaysUnsold
  BY DEF Init, GuestRoomsStayOccupied, UnfitStaysUnsold
<1> QED BY <1>1, <1>3, <1>4 DEF BoardInv

\* A step of the desk on a room nobody holds.
LEMMA RoomStep ==
  ASSUME BoardInv, NEW r \in Rooms, NEW to \in RoomStatus, LockRoom(r),
         roomStatus' = [roomStatus EXCEPT ![r] = to], UNCHANGED <<task, job>>,
         NEW g \in Guests \cup {NoGuest}, guest' = [guest EXCEPT ![r] = g],
         g # NoGuest <=> to = "OCCUPIED",
         unfit' \in {unfit, unfit \ {r}},
         r \in unfit' => to \notin {"VACANT_CLEAN", "OCCUPIED"}
  PROVE  BoardInv'
<1>1. StateTyped'
  BY DEF BoardInv, StateTyped
<1>2. LocksExclude' /\ BoardsOwe'
  BY DEF BoardInv, LocksExclude, BoardsOwe, HoldsTask, HoldsRoom
<1>3. ReadsHold'
  <2>1. \A s \in Rooms : roomStatus'[s] = IF s = r THEN to ELSE roomStatus[s]
    BY DEF BoardInv, StateTyped
  <2> QED BY <2>1 DEF BoardInv, ReadsHold, HoldsTask, HoldsRoom, LockRoom
<1>4. GuestRoomsStayOccupied' /\ UnfitStaysUnsold'
  BY DEF BoardInv, StateTyped, GuestRoomsStayOccupied, UnfitStaysUnsold
<1> QED BY <1>1, <1>2, <1>3, <1>4 DEF BoardInv

LEMMA DeskStep ==
  ASSUME BoardInv, NEW r \in Rooms,
         CheckIn(r) \/ CheckOut(r) \/ \E to \in RoomStatus : UpdateRoomStatus(r, to)
  PROVE  BoardInv'
<1>1. CASE CheckIn(r)
  <2>1. r \notin unfit
    BY <1>1, GuestsMoveIntoCleanRooms DEF CheckIn, BoardInv, UnfitStaysUnsold
  <2>2. "OCCUPIED" \in RoomStatus /\ "staysOn" \in Guests /\ "staysOn" # NoGuest
    BY DEF RoomStatus, Guests, NoGuest
  <2> QED BY <1>1, <2>1, <2>2, RoomStep DEF CheckIn
<1>2. CASE CheckOut(r)
  <2>1. "VACANT_DIRTY" \in RoomStatus
    BY DEF RoomStatus
  <2> QED BY <1>2, <2>1, RoomStep DEF CheckOut
<1>3. ASSUME NEW to \in RoomStatus, UpdateRoomStatus(r, to) PROVE BoardInv'
  <2>1. roomStatus[r] # "OCCUPIED" /\ to # "OCCUPIED"
    BY <1>3, ManualMovesKeepOutOfGuestRooms DEF UpdateRoomStatus
  <2>2. guest[r] = NoGuest
    BY <2>1 DEF BoardInv, GuestRoomsStayOccupied
  <2>3. guest' = [guest EXCEPT ![r] = NoGuest]
    BY <1>3, <2>2 DEF UpdateRoomStatus, BoardInv, StateTyped
  <2>4. /\ LockRoom(r)
        /\ roomStatus' = [roomStatus EXCEPT ![r] = to] /\ UNCHANGED <<task, job>>
        /\ unfit' = IF to = "VACANT_CLEAN" THEN unfit \ {r} ELSE unfit
    BY <1>3 DEF UpdateRoomStatus
  <2> QED BY <2>1, <2>3, <2>4, RoomStep
<1> QED BY <1>1, <1>2, <1>3

\* A step on a task nobody holds, which exists afterwards.
LEMMA TaskStep ==
  ASSUME BoardInv, NEW k \in Keys, NEW new \in Task, new.status # "NONE",
         LockTask(k) \/ task[k].status = "NONE",
         task' = [task EXCEPT ![k] = new], UNCHANGED <<roomStatus, guest, job, unfit>>
  PROVE  BoardInv'
<1>1. StateTyped'
  BY DEF BoardInv, StateTyped
<1>2. LocksExclude' /\ BoardsOwe' /\ GuestRoomsStayOccupied' /\ UnfitStaysUnsold'
  BY DEF BoardInv, LocksExclude, BoardsOwe, HoldsTask, HoldsRoom,
         GuestRoomsStayOccupied, UnfitStaysUnsold
<1>3. ReadsHold'
  <2>1. \A m \in Keys : task'[m] = IF m = k THEN new ELSE task[m]
    BY DEF BoardInv, StateTyped
  <2> QED BY <2>1 DEF BoardInv, ReadsHold, HoldsTask, HoldsRoom, LockTask
<1> QED BY <1>1, <1>2, <1>3 DEF BoardInv

LEMMA SupervisorStep ==
  ASSUME BoardInv, NEW k \in Keys,
         \/ CreateTask(k)
         \/ \E w \in Staff \cup {Nobody} : Assign(k, w)
         \/ \E w \in Staff : Start(k, w)
  PROVE  BoardInv'
<1>0. task[k] \in Task
  BY DEF BoardInv, StateTyped
<1>1. CASE CreateTask(k)
  <2>1. [status |-> "PENDING", assignedTo |-> Nobody] \in Task
    BY DEF Task, TaskStatus
  <2> QED BY <1>1, <2>1, TaskStep DEF CreateTask
<1>2. ASSUME NEW w \in Staff \cup {Nobody}, Assign(k, w) PROVE BoardInv'
  <2> DEFINE new == [task[k] EXCEPT !.assignedTo = w]
  <2>1. new \in Task /\ new.status = task[k].status /\ task[k].status # "NONE"
    BY <1>0, <1>2 DEF Task, Assign, Exists
  <2>2. task' = [task EXCEPT ![k] = new]
    BY <1>2 DEF Assign
  <2> HIDE DEF new
  <2> QED BY <1>2, <2>1, <2>2, TaskStep DEF Assign
<1>3. ASSUME NEW w \in Staff, Start(k, w) PROVE BoardInv'
  <2> DEFINE new == [status |-> "IN_PROGRESS", assignedTo |-> Claimed(task[k], w)]
  <2>1. new \in Task /\ new.status # "NONE"
    BY <1>0 DEF Task, TaskStatus, Claimed
  <2>2. task' = [task EXCEPT ![k] = new]
    BY <1>3 DEF Start
  <2> HIDE DEF new
  <2> QED BY <1>3, <2>1, <2>2, TaskStep DEF Start
<1> QED BY <1>1, <1>2, <1>3

-----------------------------------------------------------------------------
(* What the board's two questions find.                                    *)

LEMMA LookStep ==
  ASSUME BoardInv, NEW j \in Jobs, GenerateBoardGuests(j) \/ GenerateBoardDirty(j)
  PROVE  BoardInv'
<1>1. PICK new \in Board :
        /\ job' = [job EXCEPT ![j] = new]
        /\ \A r \in new.owed : \E t \in TaskTypes : <<r, t>> \in new.found
  <2>1. CASE GenerateBoardGuests(j)
    <3> DEFINE look == [op |-> "guests", found |-> InHouse, owed |-> GuestRooms]
    <3>1. look \in Board
      BY TasksOfRooms DEF Board, GuestRooms
    <3>2. \A r \in look.owed : \E t \in TaskTypes : <<r, t>> \in look.found
      BY DEF InHouse, TaskTypes
    <3>3. job' = [job EXCEPT ![j] = look]
      BY <2>1 DEF GenerateBoardGuests, BoardQuery
    <3> HIDE DEF look
    <3> QED BY <3>1, <3>2, <3>3
  <2>2. CASE GenerateBoardDirty(j)
    <3> DEFINE both == Wanted(job[j].found, Dirty)
               owed == job[j].owed \cup DirtyRooms
               look == [op |-> "board", found |-> both, owed |-> owed]
    <3>1. job[j] \in Board /\ job[j].op \in {"guests", "board"}
      BY <2>2, JobFields DEF GenerateBoardDirty, BoardInv
    <3>2. both \subseteq Keys /\ owed \subseteq Rooms
      BY <3>1, TasksOfRooms DEF Board, Wanted, DirtyRooms
    <3>3. \A r \in owed : \E t \in TaskTypes : <<r, t>> \in both
      <4> SUFFICES ASSUME NEW r \in owed PROVE \E t \in TaskTypes : <<r, t>> \in both
        OBVIOUS
      <4>1. CASE r \in DirtyRooms
        BY <4>1 DEF Wanted, Dirty, TaskTypes
      <4>2. CASE r \in job[j].owed /\ r \notin DirtyRooms
        <5>1. PICK t \in TaskTypes : <<r, t>> \in job[j].found
          BY <3>1, <4>2 DEF BoardInv, BoardsOwe
        <5>2. \A l \in Dirty : l[1] # r
          BY <4>2 DEF Dirty
        <5> QED BY <5>1, <5>2 DEF Wanted
      <4> QED BY <4>1, <4>2
    <3>4. job' = [job EXCEPT ![j] = look]
      BY <2>2 DEF GenerateBoardDirty, BoardQuery
    <3> HIDE DEF both, owed
    <3>5. look \in Board /\ look.owed = owed /\ look.found = both
      BY <3>2 DEF Board
    <3> HIDE DEF look
    <3> QED BY <3>3, <3>4, <3>5
  <2> QED BY <2>1, <2>2
<1>2. UNCHANGED <<roomStatus, guest, task, unfit>>
  BY DEF GenerateBoardGuests, GenerateBoardDirty
<1>3. new.op \in {"guests", "board"}
  BY DEF Board
<1>4. \A i \in Jobs : job'[i] = IF i = j THEN new ELSE job[i]
  BY <1>1 DEF BoardInv, StateTyped
<1>5. \A i \in Jobs : /\ \A k : HoldsTask(i, k)' => i # j /\ HoldsTask(i, k)
                      /\ \A r : HoldsRoom(i, r)' => i # j /\ HoldsRoom(i, r)
  BY <1>3, <1>4 DEF HoldsTask, HoldsRoom
<1>6. StateTyped'
  BY <1>1, <1>2 DEF BoardInv, StateTyped
<1>7. LocksExclude' /\ ReadsHold'
  BY <1>2, <1>4, <1>5 DEF BoardInv, LocksExclude, ReadsHold
<1>8. BoardsOwe'
  BY <1>1, <1>4 DEF BoardInv, BoardsOwe
<1> QED BY <1>2, <1>6, <1>7, <1>8 DEF BoardInv, GuestRoomsStayOccupied, UnfitStaysUnsold

\* Ending a transaction frees what it held.
LEMMA Ends ==
  ASSUME BoardInv, NEW j \in Jobs, job' = [job EXCEPT ![j] = Idle]
  PROVE  /\ job' \in [Jobs -> {Idle} \cup Board \cup Completion \cup Inspection]
         /\ LocksExclude' /\ BoardsOwe'
         /\ \A i \in Jobs : i # j => job'[i] = job[i]
         /\ \A i \in Jobs : /\ \A k : HoldsTask(i, k)' => i # j /\ HoldsTask(i, k)
                            /\ \A r : HoldsRoom(i, r)' => i # j /\ HoldsRoom(i, r)
<1>1. \A i \in Jobs : job'[i] = IF i = j THEN Idle ELSE job[i]
  BY DEF BoardInv, StateTyped
<1>2. \A i \in Jobs : /\ \A k : HoldsTask(i, k)' => i # j /\ HoldsTask(i, k)
                      /\ \A r : HoldsRoom(i, r)' => i # j /\ HoldsRoom(i, r)
  BY <1>1 DEF HoldsTask, HoldsRoom, Idle
<1>3. LocksExclude' /\ BoardsOwe'
  BY <1>1, <1>2 DEF BoardInv, LocksExclude, BoardsOwe, Idle
<1>4. job' \in [Jobs -> {Idle} \cup Board \cup Completion \cup Inspection]
  BY DEF BoardInv, StateTyped
<1> QED BY <1>1, <1>2, <1>3, <1>4

LEMMA CommitBoardStep ==
  ASSUME BoardInv, NEW j \in Jobs, GenerateBoardCommit(j)
  PROVE  BoardInv'
<1>1. job' = [job EXCEPT ![j] = Idle] /\ UNCHANGED <<roomStatus, guest, unfit>>
  BY DEF GenerateBoardCommit
<1>2. task' = [k \in Keys |-> IF k \in job[j].found THEN InsertTask(k) ELSE task[k]]
  BY DEF GenerateBoardCommit
<1>3. /\ task' \in [Keys -> Task]
      /\ \A k \in Keys : task[k].status # "NONE" => task'[k] = task[k]
      /\ \A k \in Keys : task'[k].status = "NONE" => task'[k].assignedTo = Nobody
  BY <1>2 DEF InsertTask, BoardInv, StateTyped, Task, TaskStatus
<1>4. ReadsHold'
  BY <1>1, <1>3, Ends DEF BoardInv, ReadsHold
<1> QED BY <1>1, <1>3, <1>4, Ends
        DEF BoardInv, StateTyped, GuestRoomsStayOccupied, UnfitStaysUnsold

-----------------------------------------------------------------------------
(* Completing and inspecting.                                              *)

LEMMA LockTaskStep ==
  ASSUME BoardInv, NEW j \in Jobs, NEW k \in Keys,
         \/ \E w \in Staff : CompleteLockTask(j, k, w)
         \/ \E passed \in BOOLEAN : InspectLockTask(j, k, passed)
  PROVE  BoardInv'
<1>0. task[k] \in Task
  BY DEF BoardInv, StateTyped
<1>1. PICK new \in Completion \cup Inspection :
        /\ job' = [job EXCEPT ![j] = new]
        /\ new.op \in {"complete", "inspect"} /\ new.key = k
        /\ new.seen = task[k] /\ new.room = "unread"
  <2> DEFINE Locking(new) ==
        /\ job' = [job EXCEPT ![j] = new]
        /\ new.op \in {"complete", "inspect"} /\ new.key = k
        /\ new.seen = task[k] /\ new.room = "unread"
  <2>1. ASSUME NEW w \in Staff, CompleteLockTask(j, k, w)
        PROVE  \E new \in Completion : Locking(new)
    <3> DEFINE c == [op |-> "complete", key |-> k, who |-> w, seen |-> task[k],
                     room |-> "unread"]
    <3>1. c \in Completion
      BY <1>0 DEF Completion
    <3>2. Locking(c)
      BY <2>1 DEF CompleteLockTask
    <3> QED BY <3>1, <3>2
  <2>2. ASSUME NEW passed \in BOOLEAN, InspectLockTask(j, k, passed)
        PROVE  \E new \in Inspection : Locking(new)
    <3> DEFINE c == [op |-> "inspect", key |-> k, passed |-> passed, seen |-> task[k],
                     room |-> "unread"]
    <3>1. c \in Inspection
      BY <1>0 DEF Inspection
    <3>2. Locking(c)
      BY <2>2 DEF InspectLockTask
    <3> QED BY <3>1, <3>2
  <2> HIDE DEF Locking
  <2>3. \E new \in Completion \cup Inspection : Locking(new)
    BY <2>1, <2>2
  <2> QED BY <2>3 DEF Locking
<1>2. /\ UNCHANGED <<roomStatus, guest, task, unfit>>
      /\ task[k].status # "NONE" /\ LockTask(k)
  BY DEF CompleteLockTask, InspectLockTask, Exists
<1>3. \A i \in Jobs : job'[i] = IF i = j THEN new ELSE job[i]
  BY <1>1 DEF BoardInv, StateTyped
<1>4. StateTyped'
  BY <1>1, <1>2 DEF BoardInv, StateTyped
<1>5. \A i \in Jobs : /\ \A m : HoldsTask(i, m)' <=> IF i = j THEN m = k ELSE HoldsTask(i, m)
                      /\ \A r : HoldsRoom(i, r)' => i # j /\ HoldsRoom(i, r)
  BY <1>1, <1>3 DEF HoldsTask, HoldsRoom
<1>6. LocksExclude'
  BY <1>2, <1>5 DEF BoardInv, LocksExclude, LockTask
<1>7. ReadsHold'
  BY <1>1, <1>2, <1>3, <1>5 DEF BoardInv, ReadsHold
<1>8. BoardsOwe'
  BY <1>1, <1>3 DEF BoardInv, BoardsOwe
<1> QED BY <1>2, <1>4, <1>6, <1>7, <1>8 DEF BoardInv, GuestRoomsStayOccupied, UnfitStaysUnsold

LEMMA ReadRoomStep ==
  ASSUME BoardInv, NEW j \in Jobs, ReadRoom(j)
  PROVE  BoardInv'
<1> DEFINE r == RoomAt(job[j].key)
           new == [job[j] EXCEPT !.room = roomStatus[r]]
<1>1. /\ job' = [job EXCEPT ![j] = new] /\ UNCHANGED <<roomStatus, guest, task, unfit>>
      /\ job[j].op \in {"complete", "inspect"} /\ LockRoom(r)
  BY DEF ReadRoom
<1>2. job[j] \in Completion \cup Inspection
  BY <1>1, JobFields DEF BoardInv
<1>3. r \in Rooms /\ roomStatus[r] \in RoomStatus
  BY <1>2, TasksOfRooms DEF Completion, Inspection, BoardInv, StateTyped
<1>4. /\ new \in Completion \cup Inspection
      /\ new.op = job[j].op /\ new.key = job[j].key /\ new.seen = job[j].seen
      /\ new.room = roomStatus[r]
  BY <1>2, <1>3 DEF Completion, Inspection
<1> HIDE DEF new, r
<1>5. \A i \in Jobs : job'[i] = IF i = j THEN new ELSE job[i]
  BY <1>1 DEF BoardInv, StateTyped
<1>6. \A i \in Jobs : /\ \A k : HoldsTask(i, k)' <=> HoldsTask(i, k)
                      /\ \A s : HoldsRoom(i, s)' => IF i = j THEN s = r ELSE HoldsRoom(i, s)
  BY <1>1, <1>4, <1>5 DEF HoldsTask, HoldsRoom, r
<1>7. StateTyped'
  BY <1>1, <1>4 DEF BoardInv, StateTyped
<1>8. LocksExclude'
  BY <1>1, <1>6 DEF BoardInv, LocksExclude, LockRoom
<1>9. ReadsHold'
  BY <1>1, <1>4, <1>5, <1>6 DEF BoardInv, ReadsHold
<1>10. BoardsOwe'
  BY <1>1, <1>4, <1>5 DEF BoardInv, BoardsOwe
<1> QED BY <1>1, <1>7, <1>8, <1>9, <1>10 DEF BoardInv, GuestRoomsStayOccupied, UnfitStaysUnsold

\* The holder of a task and its room knows both as they are.
LEMMA HolderKnows ==
  ASSUME BoardInv, NEW j \in Jobs, NEW op \in {"complete", "inspect"}, Ready(j, op)
  PROVE  /\ job[j] \in IF op = "complete" THEN Completion ELSE Inspection
         /\ job[j].key \in Keys /\ RoomAt(job[j].key) \in Rooms
         /\ HoldsTask(j, job[j].key) /\ HoldsRoom(j, RoomAt(job[j].key))
         /\ job[j].seen = task[job[j].key] /\ task[job[j].key] \in Task
         /\ task[job[j].key].status # "NONE"
         /\ job[j].room = roomStatus[RoomAt(job[j].key)]
         /\ job[j].room \in RoomStatus
<1>1. job[j].op = op /\ job[j].room # "unread"
  BY DEF Ready
<1>2. job[j] \in IF op = "complete" THEN Completion ELSE Inspection
  BY <1>1, JobFields DEF BoardInv
<1>3. job[j].key \in Keys /\ RoomAt(job[j].key) \in Rooms
  BY <1>2, TasksOfRooms DEF Completion, Inspection
<1>4. HoldsTask(j, job[j].key) /\ HoldsRoom(j, RoomAt(job[j].key))
  BY <1>1 DEF HoldsTask, HoldsRoom
<1> QED BY <1>2, <1>3, <1>4 DEF BoardInv, ReadsHold, StateTyped

\* Writing the task and its room and ending.
LEMMA CommitStep ==
  ASSUME BoardInv, NEW j \in Jobs, NEW op \in {"complete", "inspect"}, Ready(j, op),
         NEW new \in Task, new.status # "NONE", NEW after \in RoomStatus,
         task' = [task EXCEPT ![job[j].key] = new],
         roomStatus' = IF after = job[j].room THEN roomStatus
                       ELSE [roomStatus EXCEPT ![RoomAt(job[j].key)] = after],
         job' = [job EXCEPT ![j] = Idle], UNCHANGED guest,
         after = "OCCUPIED" <=> job[j].room = "OCCUPIED",
         unfit' \subseteq unfit \cup {RoomAt(job[j].key)},
         RoomAt(job[j].key) \in unfit' => after \notin {"VACANT_CLEAN", "OCCUPIED"}
  PROVE  BoardInv'
<1> DEFINE k == job[j].key
           r == RoomAt(k)
<1>1. /\ k \in Keys /\ r \in Rooms /\ HoldsTask(j, k) /\ HoldsRoom(j, r)
      /\ job[j].room = roomStatus[r]
  BY HolderKnows
<1>2. \A s \in Rooms : roomStatus'[s] = IF s = r THEN after ELSE roomStatus[s]
  BY <1>1 DEF BoardInv, StateTyped
<1>3. \A m \in Keys : task'[m] = IF m = k THEN new ELSE task[m]
  BY <1>1 DEF BoardInv, StateTyped
<1>4. StateTyped'
  BY <1>1, Ends DEF BoardInv, StateTyped
<1>5. ReadsHold'
  <2> SUFFICES ASSUME NEW i \in Jobs
               PROVE  /\ \A m \in Keys : HoldsTask(i, m)' =>
                           job'[i].seen = task'[m] /\ task'[m].status # "NONE"
                      /\ \A s \in Rooms : HoldsRoom(i, s)' => job'[i].room = roomStatus'[s]
    BY DEF ReadsHold
  <2>1. ASSUME NEW m \in Keys, HoldsTask(i, m)'
        PROVE  job'[i].seen = task'[m] /\ task'[m].status # "NONE"
    <3>1. i # j /\ HoldsTask(i, m) /\ job'[i] = job[i]
      BY <2>1, Ends
    <3>2. m # k
      BY <1>1, <3>1 DEF BoardInv, LocksExclude
    <3> QED BY <1>3, <3>1, <3>2 DEF BoardInv, ReadsHold
  <2>2. ASSUME NEW s \in Rooms, HoldsRoom(i, s)' PROVE job'[i].room = roomStatus'[s]
    <3>1. i # j /\ HoldsRoom(i, s) /\ job'[i] = job[i]
      BY <2>2, Ends
    <3>2. s # r
      BY <1>1, <3>1 DEF BoardInv, LocksExclude
    <3> QED BY <1>2, <3>1, <3>2 DEF BoardInv, ReadsHold
  <2> QED BY <2>1, <2>2
<1>6. GuestRoomsStayOccupied'
  BY <1>1, <1>2 DEF BoardInv, GuestRoomsStayOccupied
<1>7. UnfitStaysUnsold'
  <2> SUFFICES ASSUME NEW s \in unfit'
               PROVE  roomStatus'[s] \notin {"VACANT_CLEAN", "OCCUPIED"}
    BY DEF UnfitStaysUnsold
  <2>1. CASE s = r
    BY <1>1, <1>2, <2>1
  <2>2. CASE s # r
    <3>1. s \in unfit /\ s \in Rooms
      BY <2>2 DEF BoardInv, StateTyped
    <3> QED BY <1>2, <2>2, <3>1 DEF BoardInv, UnfitStaysUnsold
  <2> QED BY <2>1, <2>2
<1> QED BY <1>4, <1>5, <1>6, <1>7, Ends DEF BoardInv

LEMMA CompleteStep ==
  ASSUME BoardInv, NEW j \in Jobs, CompleteCommit(j)
  PROVE  BoardInv'
<1> DEFINE k == job[j].key
           r == RoomAt(k)
           new == [status |-> "DONE", assignedTo |-> Claimed(job[j].seen, job[j].who)]
           after == RoomStatusAfterTask(job[j].room)
<1>0. Ready(j, "complete") /\ "complete" \in {"complete", "inspect"}
  BY DEF CompleteCommit
<1>1. /\ job[j] \in Completion /\ job[j].room = roomStatus[r]
      /\ r \in Rooms /\ job[j].room \in RoomStatus
  BY <1>0, HolderKnows
<1>2. new \in Task /\ new.status # "NONE"
  BY <1>1 DEF Completion, Task, TaskStatus, Claimed
<1>3. after \in RoomStatus /\ (after = "OCCUPIED" <=> job[j].room = "OCCUPIED")
  BY <1>1 DEF RoomStatusAfterTask, RoomStatus
<1>4. /\ task' = [task EXCEPT ![k] = new]
      /\ roomStatus' = IF after = job[j].room THEN roomStatus ELSE [roomStatus EXCEPT ![r] = after]
      /\ unfit' = IF after = "VACANT_CLEAN" THEN unfit \ {r} ELSE unfit
      /\ job' = [job EXCEPT ![j] = Idle] /\ UNCHANGED guest
  BY DEF CompleteCommit
<1>5. r \in unfit' => after \notin {"VACANT_CLEAN", "OCCUPIED"}
  BY <1>1, <1>3, <1>4 DEF BoardInv, UnfitStaysUnsold
<1>6. unfit' \subseteq unfit \cup {r}
  BY <1>4
<1> HIDE DEF new, after
<1> QED BY <1>0, <1>2, <1>3, <1>4, <1>5, <1>6, CommitStep

LEMMA InspectStep ==
  ASSUME BoardInv, NEW j \in Jobs, InspectPass(j) \/ InspectFail(j)
  PROVE  BoardInv'
<1> DEFINE k == job[j].key
           r == RoomAt(k)
<1>0. Ready(j, "inspect") /\ "inspect" \in {"complete", "inspect"}
  BY DEF InspectPass, InspectFail
<1>1. /\ job[j].room = roomStatus[r] /\ r \in Rooms /\ job[j].room \in RoomStatus
      /\ task[k] \in Task
  BY <1>0, HolderKnows
<1>2. CASE InspectPass(j)
  <2> DEFINE new == [task[k] EXCEPT !.status = "INSPECTED"]
  <2>1. new \in Task /\ new.status # "NONE"
    BY <1>1 DEF Task, TaskStatus
  <2>2. /\ task' = [task EXCEPT ![k] = new] /\ UNCHANGED <<roomStatus, guest, unfit>>
        /\ job' = [job EXCEPT ![j] = Idle]
    BY <1>2 DEF InspectPass
  <2>3. /\ roomStatus' = IF job[j].room = job[j].room THEN roomStatus
                         ELSE [roomStatus EXCEPT ![r] = job[j].room]
        /\ unfit' \subseteq unfit \cup {r}
        /\ r \in unfit' => job[j].room \notin {"VACANT_CLEAN", "OCCUPIED"}
    BY <1>1, <2>2 DEF BoardInv, UnfitStaysUnsold
  <2> HIDE DEF new
  <2> QED BY <1>0, <1>1, <2>1, <2>2, <2>3, CommitStep
<1>3. CASE InspectFail(j)
  <2> DEFINE new == [task[k] EXCEPT !.status = "PENDING"]
             after == RoomStatusAfterFailure(job[j].room)
  <2>1. new \in Task /\ new.status # "NONE"
    BY <1>1 DEF Task, TaskStatus
  <2>2. /\ task' = [task EXCEPT ![k] = new] /\ job' = [job EXCEPT ![j] = Idle]
        /\ roomStatus' = IF after = job[j].room THEN roomStatus
                         ELSE [roomStatus EXCEPT ![r] = after]
        /\ unfit' = IF job[j].room = "OCCUPIED" THEN unfit ELSE unfit \cup {r}
        /\ UNCHANGED guest
    BY <1>3 DEF InspectFail
  <2>3. /\ after \in RoomStatus /\ after # "VACANT_CLEAN"
        /\ after = "OCCUPIED" <=> job[j].room = "OCCUPIED"
    BY <1>1 DEF RoomStatusAfterFailure, RoomStatus
  <2>4. /\ unfit' \subseteq unfit \cup {r}
        /\ r \in unfit' => after \notin {"VACANT_CLEAN", "OCCUPIED"}
    BY <1>1, <2>2, <2>3 DEF BoardInv, UnfitStaysUnsold
  <2> HIDE DEF new, after
  <2> QED BY <1>0, <2>1, <2>2, <2>3, <2>4, CommitStep
<1> QED BY <1>2, <1>3

LEMMA RollbackStep ==
  ASSUME BoardInv, NEW j \in Jobs, Rollback(j)
  PROVE  BoardInv'
<1>1. job' = [job EXCEPT ![j] = Idle] /\ UNCHANGED <<roomStatus, guest, task, unfit>>
  BY DEF Rollback
<1>2. ReadsHold'
  BY <1>1, Ends DEF BoardInv, ReadsHold
<1> QED BY <1>1, <1>2, Ends
        DEF BoardInv, StateTyped, GuestRoomsStayOccupied, UnfitStaysUnsold

-----------------------------------------------------------------------------
LEMMA BoardStep == BoardInv /\ [Next]_vars => BoardInv'
<1> SUFFICES ASSUME BoardInv, [Next]_vars PROVE BoardInv'
  OBVIOUS
<1>1. CASE UNCHANGED vars
  BY <1>1 DEF vars, BoardInv, StateTyped, LocksExclude, ReadsHold, BoardsOwe, HoldsTask,
              HoldsRoom, GuestRoomsStayOccupied, UnfitStaysUnsold
<1>2. CASE Next
  BY <1>2, DeskStep, SupervisorStep, LookStep, CommitBoardStep, LockTaskStep, ReadRoomStep,
     CompleteStep, InspectStep, RollbackStep DEF Next
<1> QED BY <1>1, <1>2

LEMMA BoardInvariant == Spec => []BoardInv
BY BoardInitially, BoardStep, PTL DEF Spec

-----------------------------------------------------------------------------
\* The rows keep their types: in particular a completion or a failed inspection
\* never writes a room status that is none.
THEOREM BoardTypeCorrect == Spec => []TypeOK
<1>1. BoardInv => TypeOK
  <2> SUFFICES ASSUME BoardInv PROVE TypeOK
    OBVIOUS
  <2>1. \A j \in Jobs : job[j].op \in {"complete", "inspect"} =>
          job[j].room \in RoomStatus \cup {"unread"}
    BY JobFields DEF BoardInv, Completion, Inspection
  <2> QED BY <2>1 DEF BoardInv, StateTyped, Task, TypeOK
<1> QED BY <1>1, BoardInvariant, PTL

\* Whatever tasks are finished or failed, by whomever and beside whatever desk,
\* the board of rooms says OCCUPIED exactly where a guest is.
THEOREM GuestsKeepTheirRooms == Spec => []GuestRoomsStayOccupied
BY BoardInvariant, PTL DEF BoardInv

\* A room an inspector turned down is neither clean nor occupied until somebody
\* reports it clean: complete and inspect hold the room's lock while they judge.
THEOREM UnfitRoomsStayUnsold == Spec => []UnfitStaysUnsold
BY BoardInvariant, PTL DEF BoardInv

\* A step that moves a claimed task leaves it with its owner, whatever a
\* supervisor reassigns meanwhile: the completion's read is under the lock.
THEOREM TasksKeepTheirOwner == Spec => ClaimedWorkIsKept
<1>1. BoardInv /\ [Next]_vars =>
        [\A k \in Keys :
           (task[k].status # task'[k].status /\ task[k].assignedTo # Nobody)
             => task'[k].assignedTo = task[k].assignedTo]_vars
  <2> SUFFICES ASSUME BoardInv, Next, NEW k \in Keys,
                      task[k].status # task'[k].status, task[k].assignedTo # Nobody
               PROVE  task'[k].assignedTo = task[k].assignedTo
    BY DEF vars
  <2>0. task \in [Keys -> Task] /\ task[k] \in Task
    BY DEF BoardInv, StateTyped
  <2>1. task[k].status # "NONE"
    BY DEF BoardInv, StateTyped
  <2>2. ASSUME NEW j \in Jobs, Ready(j, "complete"), job[j].key = k
        PROVE  job[j].seen = task[k]
    BY <2>2, HolderKnows
  <2>3. ASSUME NEW j \in Jobs, CompleteCommit(j) PROVE task'[k].assignedTo = task[k].assignedTo
    BY <2>0, <2>2, <2>3 DEF CompleteCommit, Claimed
  <2>4. ASSUME NEW j \in Jobs, GenerateBoardCommit(j) PROVE task'[k].assignedTo = task[k].assignedTo
    BY <2>1, <2>4 DEF GenerateBoardCommit, InsertTask
  <2>5. ASSUME NEW j \in Jobs, InspectPass(j) \/ InspectFail(j)
        PROVE  task'[k].assignedTo = task[k].assignedTo
    BY <2>0, <2>5 DEF InspectPass, InspectFail, Task
  <2>6. ASSUME NEW m \in Keys, NEW w \in Staff \cup {Nobody},
               CreateTask(m) \/ Assign(m, w) \/ Start(m, w)
        PROVE  task'[k].assignedTo = task[k].assignedTo
    BY <2>0, <2>1, <2>6 DEF CreateTask, Assign, Start, Claimed, Task
  <2>7. ASSUME UNCHANGED task PROVE FALSE
    BY <2>7
  <2> QED
    BY <2>3, <2>4, <2>5, <2>6, <2>7
    DEF Next, CheckIn, CheckOut, UpdateRoomStatus, GenerateBoardGuests, GenerateBoardDirty, CompleteLockTask,
        InspectLockTask, ReadRoom, Rollback
<1> QED BY <1>1, BoardInvariant, PTL DEF Spec, ClaimedWorkIsKept

\* Every room that had a guest when generateBoard asked for guests or was dirty
\* when it asked for dirty rooms has a task when it is done, whatever the desk and
\* the attendants do between its three statements.
THEOREM BoardsAreComplete == Spec => BoardMissesNobody
<1>1. BoardInv /\ [Next]_vars =>
        [\A j \in Jobs :
           (job[j].op = "board" /\ job'[j].op # "board") =>
             \A r \in job[j].owed :
               \E t \in TaskTypes : task'[<<r, t>>].status # "NONE"]_vars
  <2> SUFFICES ASSUME BoardInv, Next, NEW j \in Jobs, job[j].op = "board", job'[j].op # "board",
                      NEW r \in job[j].owed
               PROVE  \E t \in TaskTypes : task'[<<r, t>>].status # "NONE"
    BY DEF vars
  <2>1. job \in [Jobs -> {Idle} \cup Board \cup Completion \cup Inspection]
    BY DEF BoardInv, StateTyped
  <2>2. job[j] # Idle /\ job[j].op \notin {"complete", "inspect", "guests"}
    BY DEF Idle
  <2>3. \A i \in Jobs : job'[i] # job[i] =>
          \/ job[i] = Idle \/ job[i].op \in {"complete", "inspect", "guests"}
          \/ GenerateBoardCommit(i)
    BY <2>1 DEF Next, CheckIn, CheckOut, UpdateRoomStatus, CreateTask, Assign, Start,
       GenerateBoardGuests, GenerateBoardDirty, CompleteLockTask, InspectLockTask, ReadRoom,
       Ready, CompleteCommit, InspectPass, InspectFail, Rollback, GenerateBoardCommit
  <2>4. GenerateBoardCommit(j)
    BY <2>2, <2>3
  <2>5. task' = [k \in Keys |-> IF k \in job[j].found THEN InsertTask(k) ELSE task[k]]
    BY <2>4 DEF GenerateBoardCommit
  <2>6. r \in Rooms
    BY JobFields DEF Board, BoardInv
  <2>7. \E t \in TaskTypes : <<r, t>> \in job[j].found
    BY DEF BoardInv, BoardsOwe
  <2>8. \A t \in TaskTypes : <<r, t>> \in Keys
    BY <2>6 DEF Keys
  <2> QED BY <2>5, <2>7, <2>8 DEF InsertTask
<1> QED BY <1>1, BoardInvariant, PTL DEF Spec, BoardMissesNobody
=============================================================================
