---------------------------- MODULE Housekeeping ----------------------------
(***************************************************************************)
(* The housekeeping board: HousekeepingService over the task machine of    *)
(* packages/domain, beside the desk that checks guests in and out of the   *)
(* same rooms.  A completion and an inspection take the task's row lock,   *)
(* then the room's, and write both; generateBoard takes no lock and is     *)
(* three statements: the guests, the dirty rooms, the inserts.             *)
(*                                                                         *)
(* One business day, which a transaction reads once; one guest per room at *)
(* a time.  A rolled-back generateBoard has changed nothing and held       *)
(* nothing, so it is not a step.                                           *)
(***************************************************************************)
EXTENDS HotelMachines, FiniteSets

CONSTANTS
  Rooms, Attendants, Supervisors, Jobs,   \* Jobs: transactions of more than one step
  Nobody,
  RaisedByHand    \* the types a supervisor raises one-off tasks of

ASSUME HousekeepingAssumption == Nobody \notin Attendants \cup Supervisors

VARIABLES
  roomStatus,
  guest,   \* whether the room has a guest, and whether that guest leaves today
  task,    \* the day's housekeeping_tasks: the unique key is the index
  job,     \* what each open transaction has read and locked
  unfit    \* history: rooms an inspector turned down and nobody has cleaned since

vars == <<roomStatus, guest, task, job, unfit>>

Staff     == Attendants \cup Supervisors
TaskTypes == {"DEPARTURE", "STAYOVER"} \cup RaisedByHand
Keys      == Rooms \X TaskTypes
RoomAt(k) == k[1]
TypeOf(k) == k[2]

NoGuest  == "none"
Guests   == {"leavesToday", "staysOn"}

TaskStatus == {"NONE", "PENDING", "IN_PROGRESS", "DONE", "INSPECTED"}

\* "NONE": the board has no such row.
NoTask == [status |-> "NONE", assignedTo |-> Nobody]
Idle   == [op |-> "none"]

TaskMoves ==
  { <<"PENDING", "IN_PROGRESS">>, <<"PENDING", "DONE">>,
    <<"IN_PROGRESS", "DONE">>, <<"IN_PROGRESS", "PENDING">>,
    <<"DONE", "INSPECTED">>, <<"DONE", "PENDING">> }

CanTransitionTask(from, to) == <<from, to>> \in TaskMoves

\* Mutants: the null of "leave it alone" is written; "the task is done, so the
\* room is clean".
RoomStatusOrNull(room) == IF room = "VACANT_DIRTY" THEN "VACANT_CLEAN" ELSE "null"
RoomCleanAfterTask(room) == IF IsBlocked(room) THEN room ELSE "VACANT_CLEAN"

\* Any finished task turns a dirty room over, whatever its type; nothing else
\* changes a room.
RoomStatusAfterTask(room) == IF room = "VACANT_DIRTY" THEN "VACANT_CLEAN" ELSE room

\* Mutant: the judgement is recorded and then ignored.
RoomStatusAsFound(room) == room

RoomStatusAfterFailure(room) == IF room = "VACANT_CLEAN" THEN "VACANT_DIRTY" ELSE room

CanWorkTask(t, w) == t.assignedTo \in {Nobody, w}

AssertMayWork(t, w) == w \in Supervisors \/ CanWorkTask(t, w)

Claimed(t, w) == IF t.assignedTo = Nobody THEN w ELSE t.assignedTo

-----------------------------------------------------------------------------
(* Row locks.  A job holds its task from its first step and its room from  *)
(* its second, both until it ends.                                         *)

HoldsTask(j, k) == job[j].op \in {"complete", "inspect"} /\ job[j].key = k
HoldsRoom(j, r) ==
  job[j].op \in {"complete", "inspect"} /\ RoomAt(job[j].key) = r /\ job[j].room # "unread"

\* Mutant: lockTask without FOR UPDATE.
TaskUnlocked(k) == TRUE
LockTask(k) == \A j \in Jobs : ~HoldsTask(j, k)

LockRoom(r) == \A j \in Jobs : ~HoldsRoom(j, r)

-----------------------------------------------------------------------------
(* The desk, as far as the rooms see it: applySystemRoomStatus and         *)
(* updateRoomStatus lock the room and obey its machine.                    *)

CheckIn(r) ==
  /\ LockRoom(r)
  /\ guest[r] = NoGuest
  /\ CanTransitionRoom(roomStatus[r], "OCCUPIED")
  /\ roomStatus' = [roomStatus EXCEPT ![r] = "OCCUPIED"]
  /\ guest' = [guest EXCEPT ![r] = "staysOn"]
  /\ UNCHANGED <<task, job, unfit>>

CheckOut(r) ==
  /\ LockRoom(r)
  /\ guest[r] # NoGuest
  /\ CanTransitionRoom(roomStatus[r], "VACANT_DIRTY")
  /\ roomStatus' = [roomStatus EXCEPT ![r] = "VACANT_DIRTY"]
  /\ guest' = [guest EXCEPT ![r] = NoGuest]
  /\ UNCHANGED <<task, job, unfit>>

UpdateRoomStatus(r, to) ==
  /\ LockRoom(r)
  /\ CanTransitionManually(roomStatus[r], to)
  /\ roomStatus' = [roomStatus EXCEPT ![r] = to]
  /\ unfit' = IF to = "VACANT_CLEAN" THEN unfit \ {r} ELSE unfit
  /\ UNCHANGED <<guest, task, job>>

-----------------------------------------------------------------------------
(* Building the board.                                                     *)

GuestRooms == {r \in Rooms : guest[r] # NoGuest}
DirtyRooms == {r \in Rooms : roomStatus[r] = "VACANT_DIRTY"}

\* Who is in the house, and whether that guest leaves today.
InHouse ==
  {<<r, IF guest[r] = "leavesToday" THEN "DEPARTURE" ELSE "STAYOVER">> :
     r \in GuestRooms}

Dirty == {<<r, "DEPARTURE">> : r \in DirtyRooms}

\* Mutant: dirty rooms first, then the guests.
DirtyThenGuests(look) == IF look = 1 THEN Dirty ELSE InHouse

\* What each of generateBoard's two queries finds, in their order.
BoardQuery(look) == IF look = 1 THEN InHouse ELSE Dirty

\* The three statements see three states of the house: owed is the history of
\* what the first two could see.
GenerateBoardGuests(j) ==
  /\ job[j] = Idle
  /\ job' = [job EXCEPT ![j] =
       [op |-> "guests", found |-> BoardQuery(1), owed |-> GuestRooms]]
  /\ UNCHANGED <<roomStatus, guest, task, unfit>>

\* A room found dirty is a departure, whatever the first look said of it.
Wanted(found, later) ==
  later \cup {f \in found : \A l \in later : l[1] # f[1]}

GenerateBoardDirty(j) ==
  /\ job[j].op = "guests"
  /\ job' = [job EXCEPT ![j] =
       [op |-> "board", found |-> Wanted(job[j].found, BoardQuery(2)),
        owed |-> job[j].owed \cup DirtyRooms]]
  /\ UNCHANGED <<roomStatus, guest, task, unfit>>

\* A new row, or the one that is there: ON CONFLICT DO NOTHING.
InsertTask(k) ==
  IF task[k].status = "NONE" THEN [status |-> "PENDING", assignedTo |-> Nobody] ELSE task[k]

GenerateBoardCommit(j) ==
  /\ job[j].op = "board"
  /\ task' = [k \in Keys |-> IF k \in job[j].found THEN InsertTask(k) ELSE task[k]]
  /\ job' = [job EXCEPT ![j] = Idle]
  /\ UNCHANGED <<roomStatus, guest, unfit>>

\* The unique violation becomes a refusal.
CreateTask(k) ==
  /\ TypeOf(k) \in RaisedByHand
  /\ task[k].status = "NONE"
  /\ task' = [task EXCEPT ![k] = [status |-> "PENDING", assignedTo |-> Nobody]]
  /\ UNCHANGED <<roomStatus, guest, job, unfit>>

-----------------------------------------------------------------------------
(* Working it.                                                             *)

Exists(k) == task[k].status # "NONE"

\* assign: to an attendant, or back on the board.
Assign(k, w) ==
  /\ Exists(k) /\ LockTask(k)
  /\ task[k].status # "INSPECTED"
  /\ task' = [task EXCEPT ![k].assignedTo = w]
  /\ UNCHANGED <<roomStatus, guest, job, unfit>>

Start(k, w) ==
  /\ Exists(k) /\ LockTask(k)
  /\ AssertMayWork(task[k], w)
  /\ CanTransitionTask(task[k].status, "IN_PROGRESS")
  /\ task' = [task EXCEPT ![k] = [status |-> "IN_PROGRESS", assignedTo |-> Claimed(@, w)]]
  /\ UNCHANGED <<roomStatus, guest, job, unfit>>

CompleteLockTask(j, k, w) ==
  /\ job[j] = Idle
  /\ Exists(k) /\ LockTask(k)
  /\ AssertMayWork(task[k], w)
  /\ CanTransitionTask(task[k].status, "DONE")
  /\ job' = [job EXCEPT ![j] =
       [op |-> "complete", key |-> k, who |-> w, seen |-> task[k], room |-> "unread"]]
  /\ UNCHANGED <<roomStatus, guest, task, unfit>>

InspectLockTask(j, k, passed) ==
  /\ job[j] = Idle
  /\ Exists(k) /\ LockTask(k)
  /\ CanTransitionTask(task[k].status, IF passed THEN "INSPECTED" ELSE "PENDING")
  /\ job' = [job EXCEPT ![j] =
       [op |-> "inspect", key |-> k, passed |-> passed, seen |-> task[k], room |-> "unread"]]
  /\ UNCHANGED <<roomStatus, guest, task, unfit>>

ReadRoom(j) ==
  /\ job[j].op \in {"complete", "inspect"} /\ job[j].room = "unread"
  /\ LockRoom(RoomAt(job[j].key))
  /\ job' = [job EXCEPT ![j].room = roomStatus[RoomAt(job[j].key)]]
  /\ UNCHANGED <<roomStatus, guest, task, unfit>>

Ready(j, op) == job[j].op = op /\ job[j].room # "unread"

\* The task and its room in one transaction.
CompleteCommit(j) ==
  /\ Ready(j, "complete")
  /\ LET k == job[j].key
         r == RoomAt(k)
         after == RoomStatusAfterTask(job[j].room)
     IN /\ task' = [task EXCEPT ![k] =
                      [status |-> "DONE", assignedTo |-> Claimed(job[j].seen, job[j].who)]]
        /\ roomStatus' = IF after = job[j].room THEN roomStatus
                         ELSE [roomStatus EXCEPT ![r] = after]
        /\ unfit' = IF after = "VACANT_CLEAN" THEN unfit \ {r} ELSE unfit
  /\ job' = [job EXCEPT ![j] = Idle]
  /\ UNCHANGED guest

InspectPass(j) ==
  /\ Ready(j, "inspect") /\ job[j].passed
  /\ task' = [task EXCEPT ![job[j].key].status = "INSPECTED"]
  /\ job' = [job EXCEPT ![j] = Idle]
  /\ UNCHANGED <<roomStatus, guest, unfit>>

\* The task reopens and a clean room is dirty again; an occupied one stays.
InspectFail(j) ==
  /\ Ready(j, "inspect") /\ ~job[j].passed
  /\ LET k == job[j].key
         r == RoomAt(k)
         after == RoomStatusAfterFailure(job[j].room)
     IN /\ task' = [task EXCEPT ![k].status = "PENDING"]
        /\ roomStatus' = IF after = job[j].room THEN roomStatus
                         ELSE [roomStatus EXCEPT ![r] = after]
        /\ unfit' = IF job[j].room = "OCCUPIED" THEN unfit ELSE unfit \cup {r}
  /\ job' = [job EXCEPT ![j] = Idle]
  /\ UNCHANGED guest

\* A deadlock victim, a dropped connection, a crash.
Rollback(j) ==
  /\ job[j].op \in {"complete", "inspect"}
  /\ job' = [job EXCEPT ![j] = Idle]
  /\ UNCHANGED <<roomStatus, guest, task, unfit>>

-----------------------------------------------------------------------------
Init ==
  /\ guest \in [Rooms -> Guests \cup {NoGuest}]
  /\ roomStatus \in [Rooms -> RoomStatus]
  /\ \A r \in Rooms : guest[r] # NoGuest <=> roomStatus[r] = "OCCUPIED"
  /\ task = [k \in Keys |-> NoTask]
  /\ job = [j \in Jobs |-> Idle]
  /\ unfit = {}

Next ==
  \/ \E r \in Rooms : CheckIn(r)
  \/ \E r \in Rooms : CheckOut(r)
  \/ \E r \in Rooms, to \in RoomStatus : UpdateRoomStatus(r, to)
  \/ \E k \in Keys : CreateTask(k)
  \/ \E k \in Keys, w \in Staff \cup {Nobody} : Assign(k, w)
  \/ \E k \in Keys, w \in Staff : Start(k, w)
  \/ \E j \in Jobs : GenerateBoardGuests(j)
  \/ \E j \in Jobs : GenerateBoardDirty(j)
  \/ \E j \in Jobs : GenerateBoardCommit(j)
  \/ \E j \in Jobs, k \in Keys, w \in Staff : CompleteLockTask(j, k, w)
  \/ \E j \in Jobs, k \in Keys, passed \in BOOLEAN : InspectLockTask(j, k, passed)
  \/ \E j \in Jobs : ReadRoom(j)
  \/ \E j \in Jobs : CompleteCommit(j)
  \/ \E j \in Jobs : InspectPass(j)
  \/ \E j \in Jobs : InspectFail(j)
  \/ \E j \in Jobs : Rollback(j)

Spec == Init /\ [][Next]_vars

-----------------------------------------------------------------------------
(* Properties.                                                             *)

\* Every row holds what its column may, a job's copy of the room is a room
\* status.
TypeOK ==
  /\ roomStatus \in [Rooms -> RoomStatus]
  /\ guest \in [Rooms -> Guests \cup {NoGuest}]
  /\ task \in [Keys -> [status : TaskStatus, assignedTo : Staff \cup {Nobody}]]
  /\ unfit \subseteq Rooms
  /\ \A j \in Jobs : job[j].op \in {"complete", "inspect"} =>
       job[j].room \in RoomStatus \cup {"unread"}

\* "A stayover clean must NOT": whatever tasks are finished or failed while a
\* guest is in the room, the room stays OCCUPIED until check-out, and then it
\* is dirty.
GuestRoomsStayOccupied ==
  \A r \in Rooms : guest[r] # NoGuest <=> roomStatus[r] = "OCCUPIED"

\* "If a failed inspection left the room marked clean, the next guest would be
\* handed a room that a supervisor had personally judged unfit": between the
\* judgement and the next report that the room is clean nobody checks in.
UnfitStaysUnsold ==
  \A r \in unfit : roomStatus[r] \notin {"VACANT_CLEAN", "OCCUPIED"}

\* Work on a task that is somebody's leaves it somebody's: the completion of an
\* attendant who read the task unassigned never takes it from the one a
\* supervisor gave it to meanwhile.
ClaimedWorkIsKept ==
  [][\A k \in Keys :
       (task[k].status # task'[k].status /\ task[k].assignedTo # Nobody)
         => task'[k].assignedTo = task[k].assignedTo]_vars

\* Every room that had a guest when generateBoard asked for guests, and every
\* room that was dirty when it asked for dirty rooms, is on the day's board when
\* it is done: a guest who checks out between the two questions is not lost
\* between them.  (A room made dirty after the second is left to the next run.)
BoardMissesNobody ==
  [][\A j \in Jobs :
       (job[j].op = "board" /\ job'[j].op # "board") =>
         \A r \in job[j].owed :
           \E t \in TaskTypes : task'[<<r, t>>].status # "NONE"]_vars
=============================================================================
