------------------------------ MODULE Planning ------------------------------
(***************************************************************************)
(* The academic calendar and the plans on it: the handlers of              *)
(* src/app/api/calendar.py and PlanningService.build_plan, run by several  *)
(* clients against one database.  A handler is split where it waits for    *)
(* the database; between two of its statements any other request may       *)
(* commit (READ COMMITTED, one session per request).                       *)
(*                                                                         *)
(* One calendar, one subject and class.  The solver is what SchedulerProofs*)
(* shows of it: a legal plan of the rows it was handed, or an exception.   *)
(***************************************************************************)
EXTENDS PlanRules, SequencesExt

CONSTANTS
    Clients,    \* who sends requests, one at a time each
    Days,       \* dates of the term, as numbers
    Weekend,    \* days that are Saturdays or Sundays
    Slots,      \* timetable slots a client may post
    SlotDays,   \* the days of the term on the slot's weekday
    SlotStart,  \* start_time, in minutes of the day
    SlotEnd,    \* end_time, in minutes of the day
    Duration,   \* TeachingUnit.duration_minutes
    Requires,   \* TeachingUnit.prerequisite_unit_ids
    MaxCalls    \* bound: requests sent in one behaviour

\* datetime.time, to the minute.
TimesOfDay == {m \in Nat : m < 1440}

ASSUME PlanningAssumption ==
    /\ Days \subseteq Nat
    /\ IsFiniteSet(Days)
    /\ Weekend \subseteq Days
    /\ SlotDays \in [Slots -> SUBSET Days]
    /\ SlotStart \in [Slots -> TimesOfDay]
    /\ SlotEnd \in [Slots -> TimesOfDay]
    /\ Duration \in [Units -> Nat]
    /\ Requires \in [Units -> SUBSET Units]
    /\ MaxCalls \in Nat

VARIABLES
    dayType,   \* calendar_days.day_type, "absent" before there is a calendar
    windows,   \* instruction_windows: the rows in the order of their insertion
    plans,     \* plan_versions with their scheduled_units, oldest first
    request,   \* what each client's handler holds between two statements
    calls      \* requests sent so far

vars == <<dayType, windows, plans, request, calls>>

DayTypes == {"absent", "school_day", "non_teaching", "exam_day"}

Ids(rows) == 1..Len(rows)

\* raced is not a column: it marks a row inserted while a disruption of its
\* day overlapped the request that inserted it.
WindowRow ==
    [ day : Days, slot : Slots, minutes : 1..1439, available : BOOLEAN, raced : BOOLEAN ]

PlanRow == [ parent : Nat, rows : Placements ]

\* op is the statement the handler waits for.  days: the school days read by
\* create_instruction_windows.  day, ids: the row and the windows read by
\* disrupt_day.  view, parent: what build_plan loaded.  missed: the days other
\* requests disrupted since this one was sent (for the properties only).
Handler(op, slot, days, day, dirty, view, parent) ==
    [ op |-> op, slot |-> slot, days |-> days, day |-> day, dirty |-> dirty,
      ids |-> {}, view |-> view, parent |-> parent, missed |-> {} ]

Idle == Handler("idle", "none", {}, 0, FALSE, <<>>, 0)

-----------------------------------------------------------------------------
(* create_calendar *)

DayTypeOf(exam, nonTeaching, d) ==
    IF d \in exam THEN "exam_day"
    ELSE IF d \in nonTeaching \cup Weekend THEN "non_teaching"
    ELSE "school_day"

CreateCalendar(c) ==
    /\ request[c].op = "idle"
    /\ \A d \in Days : dayType[d] = "absent"
    /\ \E exam, nonTeaching \in SUBSET Days :
          dayType' = [d \in Days |-> DayTypeOf(exam, nonTeaching, d)]
    /\ UNCHANGED <<windows, plans, request, calls>>

-----------------------------------------------------------------------------
(* create_instruction_windows *)

\* Mutant: seconds taken for minutes.
SlotMinutesInSeconds(s) == (SlotEnd[s] - SlotStart[s]) * 60

\* (end - start).seconds // 60: a difference of times of day, modulo a day.
SlotMinutes(s) == (SlotEnd[s] - SlotStart[s]) % 1440

\* Mutant: the day type is not part of the query.
SchoolDaysAny == {d \in Days : dayType[d] # "absent"}

SchoolDays == {d \in Days : dayType[d] = "school_day"}

\* The first statement; 404 where it finds nothing, 422 on an empty slot.
ReadSchoolDays(c) ==
    /\ request[c].op = "idle"
    /\ calls < MaxCalls
    /\ SchoolDays # {}
    /\ \E s \in Slots :
        /\ SlotMinutes(s) > 0
        /\ request' = [request EXCEPT ![c] =
              Handler("insert", s, SchoolDays, 0, FALSE, <<>>, 0)]
    /\ calls' = calls + 1
    /\ UNCHANGED <<dayType, windows, plans>>

Disrupting(d) == \E o \in Clients : request[o].op \in {"select", "withdraw"} /\ request[o].day = d

InsertWindows(c) ==
    /\ request[c].op = "insert"
    /\ LET s    == request[c].slot
           days == request[c].days \cap SlotDays[s]
           rows == { [ day |-> d, slot |-> s, minutes |-> SlotMinutes(s), available |-> TRUE,
                       raced |-> d \in request[c].missed \/ Disrupting(d) ] : d \in days }
       IN  windows' = windows \o SetToSeq(rows)
    /\ request' = [request EXCEPT ![c] = Idle]
    /\ UNCHANGED <<dayType, plans, calls>>

-----------------------------------------------------------------------------
(* disrupt_day *)

\* The first statement reads the day; the assignment to day_type makes the
\* row dirty unless it was non_teaching already.  404 without a row.
ReadDay(c) ==
    /\ request[c].op = "idle"
    /\ calls < MaxCalls
    /\ \E d \in Days :
        /\ dayType[d] # "absent"
        /\ request' = [request EXCEPT ![c] =
              Handler("select", "none", {}, d, dayType[d] # "non_teaching", <<>>, 0)]
    /\ calls' = calls + 1
    /\ UNCHANGED <<dayType, windows, plans>>

\* Autoflush sends the UPDATE of a dirty day before the query for its
\* windows, and waits while another transaction holds that row.
SelectWindows(c) ==
    /\ request[c].op = "select"
    /\ request[c].dirty =>
          ~ \E o \in Clients : /\ request[o].op = "withdraw" /\ request[o].dirty
                               /\ request[o].day = request[c].day
    /\ request' = [request EXCEPT
          ![c].op = "withdraw",
          ![c].ids = {w \in Ids(windows) : windows[w].day = request[c].day}]
    /\ UNCHANGED <<dayType, windows, plans, calls>>

\* What every other request in flight missed when day d was withdrawn.
Overtake(c, d) ==
    [o \in Clients |->
        IF o = c THEN Idle
        ELSE IF request[o].op = "idle" THEN request[o]
        ELSE [request[o] EXCEPT !.missed = @ \cup {d}]]

\* Mutant: the commit writes the availability of other days back as well.
WithdrawDayWriteBack(c) ==
    /\ request[c].op = "withdraw"
    /\ dayType' = [dayType EXCEPT ![request[c].day] = "non_teaching"]
    /\ windows' = [w \in Ids(windows) |->
                      [windows[w] EXCEPT !.available = w \notin request[c].ids]]
    /\ request' = Overtake(c, request[c].day)
    /\ UNCHANGED <<plans, calls>>

WithdrawDay(c) ==
    /\ request[c].op = "withdraw"
    /\ dayType' = [dayType EXCEPT ![request[c].day] = "non_teaching"]
    /\ windows' = [w \in Ids(windows) |->
                      [windows[w] EXCEPT !.available = @ /\ w \notin request[c].ids]]
    /\ request' = Overtake(c, request[c].day)
    /\ UNCHANGED <<plans, calls>>

-----------------------------------------------------------------------------
(* build_plan *)

\* The units and the parent's rows never change, so the state of the query
\* for the windows is the one that counts.
LoadPlanInputs(c) ==
    /\ request[c].op = "idle"
    /\ calls < MaxCalls
    /\ \A d \in Days : dayType[d] # "absent"
    /\ \E parent \in 0..Len(plans) :
          request' = [request EXCEPT ![c] =
              Handler("solve", "none", {}, 0, FALSE, windows, parent)]
    /\ calls' = calls + 1
    /\ UNCHANGED <<dayType, windows, plans>>

PreviousAssignment(parent) == IF parent = 0 THEN NoPlacement ELSE plans[parent].rows

\* Mutant: the availability column does not reach the solver.
SolverInputBlind(view, parent) ==
    [ units     |-> Units,
      windows   |-> Ids(view),
      duration  |-> Duration,
      prereqs   |-> Requires,
      deadline  |-> [u \in Units |-> NoDeadline],
      date      |-> [w \in Ids(view) |-> view[w].day],
      minutes   |-> [w \in Ids(view) |-> view[w].minutes],
      available |-> [w \in Ids(view) |-> TRUE],
      previous  |-> PreviousAssignment(parent) ]

\* The UnitInput and WindowInput rows; build_plan passes no deadline.
SolverInput(view, parent) ==
    [ units     |-> Units,
      windows   |-> Ids(view),
      duration  |-> Duration,
      prereqs   |-> Requires,
      deadline  |-> [u \in Units |-> NoDeadline],
      date      |-> [w \in Ids(view) |-> view[w].day],
      minutes   |-> [w \in Ids(view) |-> view[w].minutes],
      available |-> [w \in Ids(view) |-> view[w].available],
      previous  |-> PreviousAssignment(parent) ]

\* Solve, insert the version and its rows, commit.
CommitPlan(c) ==
    /\ request[c].op = "solve"
    /\ LET in == SolverInput(request[c].view, request[c].parent)
       IN  \E p \in Placements :
              /\ LegalPlan(in, p)
              /\ NobodyLeftOut(in, p)
              /\ plans' = Append(plans, [parent |-> request[c].parent, rows |-> p])
    /\ request' = [request EXCEPT ![c] = Idle]
    /\ UNCHANGED <<dayType, windows, calls>>

\* InfeasibleScheduleError is not caught: nothing is stored.
RefusePlan(c) ==
    /\ request[c].op = "solve"
    /\ Dependent(SolverInput(request[c].view, request[c].parent))
    /\ request' = [request EXCEPT ![c] = Idle]
    /\ UNCHANGED <<dayType, windows, plans, calls>>

-----------------------------------------------------------------------------

Init ==
    /\ dayType = [d \in Days |-> "absent"]
    /\ windows = <<>>
    /\ plans = <<>>
    /\ request = [c \in Clients |-> Idle]
    /\ calls = 0

Next == \E c \in Clients :
    \/ CreateCalendar(c)
    \/ ReadSchoolDays(c)
    \/ InsertWindows(c)
    \/ ReadDay(c)
    \/ SelectWindows(c)
    \/ WithdrawDay(c)
    \/ LoadPlanInputs(c)
    \/ CommitPlan(c)
    \/ RefusePlan(c)

Spec == Init /\ [][Next]_vars

-----------------------------------------------------------------------------
(* Properties *)

\* The tables hold rows of their types and every plan row refers to a window.
TypeOK ==
    /\ dayType \in [Days -> DayTypes]
    /\ windows \in Seq(WindowRow)
    /\ plans \in Seq(PlanRow)
    /\ \A i \in Ids(plans) : \A u \in Units :
          plans[i].rows[u] # NoWindow => plans[i].rows[u] \in Ids(windows)
    /\ calls \in 0..MaxCalls

\* Only a race puts an open window on a closed day: where a window of a day
\* that is not a school day can still be planned on, its insertion and the
\* disruption of that day overlapped.  With one request at a time there is none.
ClosedDaysExplained ==
    \A w \in Ids(windows) :
        windows[w].available /\ dayType[windows[w].day] # "school_day" => windows[w].raced

\* Open before the step and, if the step is a commit of build_plan, why the
\* plan it stores may use a window that is not available any more: that day
\* was disrupted between the load and the commit, never before.
PlanFreshAtCommit ==
    [][ \A c \in Clients :
          Len(plans') > Len(plans) /\ request[c].op = "solve" /\ request'[c].op = "idle" =>
            \A u \in Units :
                LET w == plans'[Len(plans')].rows[u]
                IN  w # NoWindow =>
                      windows[w].available \/ windows[w].day \in request[c].missed ]_vars

\* A withdrawal is final and history stands: whatever the interleaving, no
\* request reopens a window or a day, or changes a plan that was stored.
WithdrawalIsFinal ==
    [][ /\ \A w \in Ids(windows) :
              /\ w \in Ids(windows')
              /\ windows'[w].available => windows[w].available
        /\ \A d \in Days : dayType[d] = "non_teaching" => dayType'[d] = "non_teaching"
        /\ \A i \in Ids(plans) : i \in Ids(plans') /\ plans'[i] = plans[i] ]_vars

\* "A teacher does not teach two teaching units in the same period": no plan
\* puts two units into one timetable slot of one day.
PeriodTaughtOnce ==
    \A i \in Ids(plans) : \A u, v \in Units :
        LET p == plans[i].rows
        IN  u # v /\ p[u] # NoWindow /\ p[v] # NoWindow =>
              <<windows[p[u]].day, windows[p[u]].slot>> # <<windows[p[v]].day, windows[p[v]].slot>>

=============================================================================
