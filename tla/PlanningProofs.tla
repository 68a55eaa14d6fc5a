--------------------------- MODULE PlanningProofs ---------------------------
(***************************************************************************)
(* What holds of the calendar and its plans for every number of clients,   *)
(* every term and every timetable, however their requests interleave.      *)
(***************************************************************************)
EXTENDS Planning, SequenceLemmas

RequestRow ==
    [ op : {"idle", "insert", "select", "withdraw", "solve"}, slot : Slots \cup {"none"},
      days : SUBSET Days, day : Days \cup {0}, dirty : BOOLEAN, ids : SUBSET Nat,
      view : Seq(WindowRow), parent : Nat, missed : SUBSET Days ]

\* A handler holds what the statement it waits for needs.
RequestOK ==
    /\ request \in [Clients -> RequestRow]
    /\ \A c \in Clients :
        /\ request[c].op = "insert" => request[c].slot \in Slots /\ SlotMinutes(request[c].slot) > 0
        /\ request[c].op \in {"select", "withdraw"} => request[c].day \in Days

\* Windows are on days of the calendar.
CalendarOK == \A w \in Ids(windows) : dayType[windows[w].day] # "absent"

\* A day that insertion read as a school day is one still, or was disrupted since.
InsertOK ==
    \A c \in Clients : request[c].op = "insert" =>
        \A d \in request[c].days :
            /\ dayType[d] # "absent"
            /\ dayType[d] = "school_day" \/ d \in request[c].missed

\* A disruption read the windows of its day, all but those inserted since.
WithdrawOK ==
    \A c \in Clients : request[c].op = "withdraw" =>
        /\ \A w \in request[c].ids : w \in Ids(windows) /\ windows[w].day = request[c].day
        /\ \A w \in Ids(windows) :
              windows[w].day = request[c].day => w \in request[c].ids \/ windows[w].raced

\* What a planner loaded is what the table holds, up to withdrawals it missed.
ViewOK ==
    \A c \in Clients : request[c].op = "solve" =>
        /\ Len(request[c].view) <= Len(windows)
        /\ \A w \in Ids(request[c].view) :
              /\ request[c].view[w].day = windows[w].day
              /\ request[c].view[w].available =>
                    windows[w].available \/ windows[w].day \in request[c].missed

IInv ==
    /\ TypeOK
    /\ RequestOK
    /\ CalendarOK
    /\ InsertOK
    /\ WithdrawOK
    /\ ViewOK
    /\ ClosedDaysExplained

-----------------------------------------------------------------------------

\* A slot is shorter than a day.
LEMMA SlotLength ==
  ASSUME NEW s \in Slots
  PROVE  SlotMinutes(s) \in Nat /\ SlotMinutes(s) < 1440
  BY PlanningAssumption DEF SlotMinutes, TimesOfDay

LEMMA IdleIsRow == Idle \in RequestRow
  BY DEF Idle, Handler, RequestRow

LEMMA RowsAreRows ==
  ASSUME NEW rows \in Seq(WindowRow)
  PROVE  Len(rows) \in Nat /\ \A w \in Ids(rows) : rows[w] \in WindowRow
  BY DEF Ids

\* The tables begin empty.
LEMMA InitInv == Init => IInv
  BY PlanningAssumption, IdleIsRow
     DEF Init, IInv, TypeOK, DayTypes, RequestOK, CalendarOK, InsertOK, WithdrawOK, ViewOK,
         ClosedDaysExplained, Idle, Handler, Ids

\* A step that leaves the windows alone disturbs only what it starts itself.
LEMMA WithdrawKept ==
  ASSUME WithdrawOK, UNCHANGED windows,
         \A o \in Clients : request'[o].op = "withdraw" => request'[o] = request[o]
  PROVE  WithdrawOK'
  <1> SUFFICES ASSUME NEW o \in Clients, request'[o].op = "withdraw"
               PROVE  /\ \A w \in request[o].ids : w \in Ids(windows) /\ windows[w].day = request[o].day
                      /\ \A w \in Ids(windows) :
                            windows[w].day = request[o].day => w \in request[o].ids \/ windows[w].raced
    BY DEF WithdrawOK, Ids
  <1>1. request[o].op = "withdraw"
    OBVIOUS
  <1> QED
    BY <1>1 DEF WithdrawOK

LEMMA ViewKept ==
  ASSUME ViewOK, UNCHANGED windows,
         \A o \in Clients : request'[o].op = "solve" => request'[o] = request[o]
  PROVE  ViewOK'
  <1> SUFFICES ASSUME NEW o \in Clients, request'[o].op = "solve"
               PROVE  /\ Len(request[o].view) <= Len(windows)
                      /\ \A w \in Ids(request[o].view) :
                            /\ request[o].view[w].day = windows[w].day
                            /\ request[o].view[w].available =>
                                  windows[w].available \/ windows[w].day \in request[o].missed
    BY DEF ViewOK, Ids
  <1>1. request[o].op = "solve"
    OBVIOUS
  <1> QED
    BY <1>1 DEF ViewOK

\* A calendar is created where there was none, so nothing refers to its days.
LEMMA CreateCalendarInv ==
  ASSUME IInv, NEW c \in Clients, CreateCalendar(c)
  PROVE  IInv'
  <1>1. dayType' \in [Days -> DayTypes]
    BY DEF CreateCalendar, DayTypeOf, DayTypes
  <1>2. \A w \in Ids(windows) : windows[w].day \in Days
    <2>1. windows \in Seq(WindowRow)
      BY DEF IInv, TypeOK
    <2>2. \A w \in Ids(windows) : windows[w] \in WindowRow
      BY <2>1, RowsAreRows
    <2> QED
      BY <2>2 DEF WindowRow
  <1>3. Ids(windows) = {}
    BY <1>2 DEF CreateCalendar, IInv, CalendarOK
  <1>4. \A o \in Clients : request[o].op = "insert" => request[o].days = {}
    <2>1. ASSUME NEW o \in Clients, request[o].op = "insert", NEW d \in request[o].days
          PROVE  FALSE
      <3>1. d \in Days
        BY <2>1 DEF IInv, RequestOK, RequestRow
      <3>2. dayType[d] # "absent"
        BY <2>1 DEF IInv, InsertOK
      <3> QED
        BY <3>1, <3>2 DEF CreateCalendar
    <2> QED
      BY <2>1
  <1>5. UNCHANGED <<windows, plans, request, calls>>
    BY DEF CreateCalendar
  <1>6. TypeOK'
    BY <1>1, <1>5 DEF IInv, TypeOK, Ids
  <1>7. RequestOK'
    BY <1>5 DEF IInv, RequestOK
  <1>8. InsertOK'
    BY <1>4, <1>5 DEF InsertOK
  <1>9. WithdrawOK' /\ ViewOK'
    BY <1>5 DEF IInv, WithdrawOK, ViewOK, Ids
  <1>10. CalendarOK' /\ ClosedDaysExplained'
    BY <1>3, <1>5 DEF CalendarOK, ClosedDaysExplained, Ids
  <1> QED
    BY <1>6, <1>7, <1>8, <1>9, <1>10 DEF IInv

\* The first statement of each handler only fills the client's request.
LEMMA ReadSchoolDaysInv ==
  ASSUME IInv, NEW c \in Clients, ReadSchoolDays(c)
  PROVE  IInv'
  <1>1. PICK s \in Slots :
          /\ SlotMinutes(s) > 0
          /\ request' = [request EXCEPT ![c] =
                Handler("insert", s, SchoolDays, 0, FALSE, <<>>, 0)]
    BY DEF ReadSchoolDays
  <1> DEFINE r == Handler("insert", s, SchoolDays, 0, FALSE, <<>>, 0)
  <1>2. /\ r \in RequestRow
        /\ r.op = "insert" /\ r.slot = s /\ r.days = SchoolDays
    <2>1. SchoolDays \in SUBSET Days
      BY DEF SchoolDays
    <2> QED
      BY <2>1 DEF RequestRow, Handler
  <1>3. /\ request' \in [Clients -> RequestRow]
        /\ request'[c] = r
        /\ \A o \in Clients \ {c} : request'[o] = request[o]
    BY <1>1, <1>2 DEF IInv, RequestOK
  <1> HIDE DEF r
  <1>4. TypeOK'
    BY PlanningAssumption DEF ReadSchoolDays, IInv, TypeOK
  <1>5. RequestOK'
    BY <1>1, <1>2, <1>3 DEF IInv, RequestOK
  <1>6. InsertOK'
    <2>1. \A o \in Clients \ {c} : request'[o].op = "insert" => request'[o] = request[o]
      BY <1>3
    <2>2. \A d \in request'[c].days : dayType[d] = "school_day"
      BY <1>2, <1>3 DEF SchoolDays
    <2> QED
      BY <2>1, <2>2 DEF ReadSchoolDays, IInv, InsertOK
  <1>7. WithdrawOK'
    <2>1. \A o \in Clients : request'[o].op = "withdraw" => request'[o] = request[o]
      BY <1>2, <1>3
    <2> QED
      BY <2>1, WithdrawKept DEF ReadSchoolDays, IInv
  <1>8. ViewOK'
    <2>1. \A o \in Clients : request'[o].op = "solve" => request'[o] = request[o]
      BY <1>2, <1>3
    <2> QED
      BY <2>1, ViewKept DEF ReadSchoolDays, IInv
  <1> QED
    BY <1>4, <1>5, <1>6, <1>7, <1>8
       DEF ReadSchoolDays, IInv, CalendarOK, ClosedDaysExplained

LEMMA ReadDayInv ==
  ASSUME IInv, NEW c \in Clients, ReadDay(c)
  PROVE  IInv'
  <1>1. PICK d \in Days :
          request' = [request EXCEPT ![c] =
              Handler("select", "none", {}, d, dayType[d] # "non_teaching", <<>>, 0)]
    BY DEF ReadDay
  <1> DEFINE r == Handler("select", "none", {}, d, dayType[d] # "non_teaching", <<>>, 0)
  <1>2. r \in RequestRow /\ r.op = "select" /\ r.day = d
    BY DEF RequestRow, Handler
  <1>3. /\ request' \in [Clients -> RequestRow]
        /\ request'[c] = r
        /\ \A o \in Clients \ {c} : request'[o] = request[o]
    BY <1>1, <1>2 DEF IInv, RequestOK
  <1> HIDE DEF r
  <1>4. TypeOK'
    BY PlanningAssumption DEF ReadDay, IInv, TypeOK
  <1>5. RequestOK'
    BY <1>2, <1>3 DEF IInv, RequestOK
  <1>6. \A o \in Clients : request'[o].op # "select" => request'[o] = request[o]
    BY <1>2, <1>3
  <1>7. InsertOK'
    BY <1>6 DEF ReadDay, IInv, InsertOK
  <1>8. WithdrawOK' /\ ViewOK'
    BY <1>6, WithdrawKept, ViewKept DEF ReadDay, IInv
  <1> QED
    BY <1>4, <1>5, <1>7, <1>8 DEF ReadDay, IInv, CalendarOK, ClosedDaysExplained

LEMMA LoadPlanInputsInv ==
  ASSUME IInv, NEW c \in Clients, LoadPlanInputs(c)
  PROVE  IInv'
  <1>1. PICK parent \in 0..Len(plans) :
          request' = [request EXCEPT ![c] =
              Handler("solve", "none", {}, 0, FALSE, windows, parent)]
    BY DEF LoadPlanInputs
  <1> DEFINE r == Handler("solve", "none", {}, 0, FALSE, windows, parent)
  <1>2. r \in RequestRow /\ r.op = "solve" /\ r.view = windows
    <2>1. parent \in Nat /\ windows \in Seq(WindowRow)
      BY DEF IInv, TypeOK
    <2> QED
      BY <2>1 DEF Handler, RequestRow
  <1>3. /\ request' \in [Clients -> RequestRow]
        /\ request'[c] = r
        /\ \A o \in Clients \ {c} : request'[o] = request[o]
    BY <1>1, <1>2 DEF IInv, RequestOK
  <1> HIDE DEF r
  <1>4. TypeOK'
    BY PlanningAssumption DEF LoadPlanInputs, IInv, TypeOK
  <1>5. RequestOK'
    BY <1>2, <1>3 DEF IInv, RequestOK
  <1>6. InsertOK'
    BY <1>2, <1>3 DEF LoadPlanInputs, IInv, InsertOK
  <1>7. WithdrawOK'
    <2>1. \A o \in Clients : request'[o].op = "withdraw" => request'[o] = request[o]
      BY <1>2, <1>3
    <2> QED
      BY <2>1, WithdrawKept DEF LoadPlanInputs, IInv
  <1>8. ViewOK'
    <2> SUFFICES ASSUME NEW o \in Clients, request'[o].op = "solve"
                 PROVE  /\ Len(request'[o].view) <= Len(windows)
                        /\ \A w \in Ids(request'[o].view) :
                              /\ request'[o].view[w].day = windows[w].day
                              /\ request'[o].view[w].available =>
                                    windows[w].available \/ windows[w].day \in request'[o].missed
      BY DEF LoadPlanInputs, ViewOK, Ids
    <2>1. CASE o = c
      <3>1. Len(windows) \in Nat
        BY DEF IInv, TypeOK
      <3> QED
        BY <1>2, <1>3, <2>1, <3>1
    <2>2. CASE o # c
      BY <1>3, <2>2 DEF IInv, ViewOK
    <2> QED
      BY <2>1, <2>2
  <1> QED
    BY <1>4, <1>5, <1>6, <1>7, <1>8 DEF LoadPlanInputs, IInv, CalendarOK, ClosedDaysExplained

\* The second statement of a disruption reads every window of its day.
LEMMA SelectWindowsInv ==
  ASSUME IInv, NEW c \in Clients, SelectWindows(c)
  PROVE  IInv'
  <1> DEFINE ids == {w \in Ids(windows) : windows[w].day = request[c].day}
  <1>1. ids \subseteq Nat
    BY DEF Ids
  <1>2. /\ request' \in [Clients -> RequestRow]
        /\ request'[c].op = "withdraw"
        /\ request'[c].ids = ids
        /\ request'[c].day = request[c].day
        /\ \A o \in Clients \ {c} : request'[o] = request[o]
    <2>1. request[c] \in RequestRow /\ request \in [Clients -> RequestRow]
      BY DEF IInv, RequestOK
    <2>2. request' = [request EXCEPT ![c] = [@ EXCEPT !.op = "withdraw", !.ids = ids]]
      BY <2>1 DEF SelectWindows, RequestRow
    <2>3. [request[c] EXCEPT !.op = "withdraw", !.ids = ids] \in RequestRow
      BY <1>1, <2>1 DEF RequestRow
    <2> QED
      BY <2>1, <2>2, <2>3 DEF RequestRow
  <1>3. RequestOK'
    BY <1>2 DEF SelectWindows, IInv, RequestOK
  <1>4. \A o \in Clients : request'[o].op # "withdraw" => request'[o] = request[o]
    BY <1>2
  <1>5. InsertOK'
    BY <1>4 DEF SelectWindows, IInv, InsertOK
  <1>6. WithdrawOK'
    <2> SUFFICES ASSUME NEW o \in Clients, request'[o].op = "withdraw"
                 PROVE  /\ \A w \in request'[o].ids :
                              w \in Ids(windows) /\ windows[w].day = request'[o].day
                        /\ \A w \in Ids(windows) :
                              windows[w].day = request'[o].day =>
                                w \in request'[o].ids \/ windows[w].raced
      BY DEF SelectWindows, WithdrawOK, Ids
    <2>1. CASE o = c
      BY <1>2, <2>1
    <2>2. CASE o # c
      BY <1>2, <2>2 DEF IInv, WithdrawOK
    <2> QED
      BY <2>1, <2>2
  <1>7. ViewOK'
    BY <1>4, ViewKept DEF SelectWindows, IInv
  <1> QED
    BY <1>3, <1>5, <1>6, <1>7 DEF SelectWindows, IInv, TypeOK, CalendarOK, ClosedDaysExplained

\* Rows are added behind those there are, on days the handler read; a row of a
\* day that was disrupted since, or is being disrupted, is a raced one.
LEMMA InsertedRows ==
  ASSUME IInv, NEW c \in Clients, InsertWindows(c)
  PROVE  /\ windows' \in Seq(WindowRow)
         /\ Len(windows) <= Len(windows')
         /\ \A w \in Ids(windows) : w \in Ids(windows') /\ windows'[w] = windows[w]
         /\ \A w \in Ids(windows') \ Ids(windows) :
               /\ windows'[w].day \in request[c].days
               /\ windows'[w].raced <=>
                     windows'[w].day \in request[c].missed \/ Disrupting(windows'[w].day)
  <1> DEFINE s    == request[c].slot
             days == request[c].days \cap SlotDays[s]
             row(d) == [ day |-> d, slot |-> s, minutes |-> SlotMinutes(s), available |-> TRUE,
                         raced |-> d \in request[c].missed \/ Disrupting(d) ]
             rows == {row(d) : d \in days}
  <1>1. /\ s \in Slots
        /\ SlotMinutes(s) \in 1..1439
        /\ request[c].days \subseteq Days
        /\ request \in [Clients -> RequestRow]
    <2>1. s \in Slots /\ SlotMinutes(s) > 0 /\ request[c] \in RequestRow
      BY DEF InsertWindows, IInv, RequestOK
    <2> HIDE DEF s
    <2>2. SlotMinutes(s) \in 1..1439
      BY <2>1, SlotLength
    <2>3. request \in [Clients -> RequestRow]
      BY DEF IInv, RequestOK
    <2>4. request[c].days \subseteq Days
      BY <2>1 DEF RequestRow
    <2> QED
      BY <2>1, <2>2, <2>3, <2>4
  <1> HIDE DEF s
  <1>2. IsFiniteSet(rows)
    <2> DEFINE f == [d \in days |-> row(d)]
    <2>1. IsFiniteSet(days)
      <3>1. IsFiniteSet(Days)
        BY PlanningAssumption
      <3>2. days \subseteq Days
        BY <1>1
      <3> HIDE DEF days
      <3> QED
        BY <3>1, <3>2, FS_Subset
    <2>2. f \in Surjection(days, rows)
      BY DEF Surjection
    <2> HIDE DEF f, days, rows
    <2> QED
      BY <2>1, <2>2, FS_Surjection
  <1>3. \A x \in rows :
          /\ x \in WindowRow
          /\ x.day \in days
          /\ x.raced <=> x.day \in request[c].missed \/ Disrupting(x.day)
    <2> SUFFICES ASSUME NEW d \in days
                 PROVE  /\ row(d) \in WindowRow
                        /\ row(d).day \in days
                        /\ row(d).raced <=>
                              row(d).day \in request[c].missed \/ Disrupting(row(d).day)
      OBVIOUS
    <2>1. row(d).day = d /\ row(d).raced = (d \in request[c].missed \/ Disrupting(d))
      OBVIOUS
    <2>2. (d \in request[c].missed \/ Disrupting(d)) \in BOOLEAN
      OBVIOUS
    <2>3. row(d) \in WindowRow
      <3>1. d \in Days /\ s \in Slots /\ SlotMinutes(s) \in 1..1439
        BY <1>1
      <3> QED
        BY <2>2, <3>1 DEF WindowRow
    <2> QED
      BY <2>1, <2>3
  <1>4. windows' = windows \o SetToSeq(rows)
    BY DEF InsertWindows, s
  <1>5. windows \in Seq(WindowRow)
    BY DEF IInv, TypeOK
  <1> HIDE DEF rows
  <1>6. rows \subseteq WindowRow
    BY <1>3
  <1>7. /\ windows' \in Seq(WindowRow)
        /\ Len(windows) <= Len(windows')
        /\ \A w \in 1..Len(windows) : w \in 1..Len(windows') /\ windows'[w] = windows[w]
        /\ \A w \in (1..Len(windows')) \ (1..Len(windows)) : windows'[w] \in rows
    BY <1>2, <1>4, <1>5, <1>6, AddedRows
  <1> QED
    BY <1>3, <1>7 DEF Ids

\* Nothing inserted is on a day unknown to the calendar, and what is inserted on
\* a day that is closed by now is explained.
LEMMA InsertWindowsInv ==
  ASSUME IInv, NEW c \in Clients, InsertWindows(c)
  PROVE  IInv'
  <1>1. /\ windows' \in Seq(WindowRow)
        /\ Len(windows) <= Len(windows')
        /\ \A w \in Ids(windows) : w \in Ids(windows') /\ windows'[w] = windows[w]
        /\ \A w \in Ids(windows') \ Ids(windows) :
              /\ windows'[w].day \in request[c].days
              /\ windows'[w].raced <=>
                    windows'[w].day \in request[c].missed \/ Disrupting(windows'[w].day)
    BY InsertedRows
  <1>2. /\ request' \in [Clients -> RequestRow]
        /\ request'[c] = Idle
        /\ \A o \in Clients \ {c} : request'[o] = request[o]
    <2>1. request' = [request EXCEPT ![c] = Idle] /\ request \in [Clients -> RequestRow]
      BY DEF InsertWindows, IInv, RequestOK
    <2> QED
      BY <2>1, IdleIsRow
  <1>3. Idle.op = "idle"
    BY DEF Idle, Handler
  <1>4. request \in [Clients -> RequestRow]
    BY DEF IInv, RequestOK
  <1>5. TypeOK'
    BY <1>1 DEF InsertWindows, IInv, TypeOK
  <1>6. RequestOK'
    <2>1. \A o \in Clients : request'[o].op # "idle" => request'[o] = request[o]
      BY <1>2, <1>3
    <2> QED
      BY <1>2, <2>1 DEF IInv, RequestOK
  <1>7. \A w \in Ids(windows') \ Ids(windows) :
            /\ dayType[windows'[w].day] # "absent"
            /\ dayType[windows'[w].day] = "school_day" \/ windows'[w].raced
    BY <1>1 DEF InsertWindows, IInv, InsertOK
  <1>8. dayType' = dayType
    BY DEF InsertWindows
  <1>9. CalendarOK'
    <2>1. \A w \in Ids(windows) : dayType[windows[w].day] # "absent"
      BY DEF IInv, CalendarOK
    <2> QED
      BY <1>1, <1>7, <1>8, <2>1 DEF CalendarOK
  <1>10. InsertOK'
    BY <1>2, <1>3, <1>8 DEF IInv, InsertOK
  <1>11. WithdrawOK'
    <2> SUFFICES ASSUME NEW o \in Clients \ {c}, request[o].op = "withdraw"
                 PROVE  /\ \A w \in request[o].ids :
                              w \in Ids(windows') /\ windows'[w].day = request[o].day
                        /\ \A w \in Ids(windows') :
                              windows'[w].day = request[o].day => w \in request[o].ids \/ windows'[w].raced
      BY <1>2, <1>3 DEF WithdrawOK
    <2>1. \A w \in request[o].ids : w \in Ids(windows) /\ windows[w].day = request[o].day
      BY DEF IInv, WithdrawOK
    <2>2. \A w \in request[o].ids : w \in Ids(windows') /\ windows'[w].day = request[o].day
      BY <1>1, <2>1
    <2>3. \A w \in Ids(windows') \ Ids(windows) :
             windows'[w].day = request[o].day => windows'[w].raced
      BY <1>1 DEF Disrupting
    <2>4. \A w \in Ids(windows) :
             windows[w].day = request[o].day => w \in request[o].ids \/ windows[w].raced
      BY DEF IInv, WithdrawOK
    <2> QED
      BY <1>1, <2>2, <2>3, <2>4
  <1>12. ViewOK'
    <2> SUFFICES ASSUME NEW o \in Clients \ {c}, request[o].op = "solve"
                 PROVE  /\ Len(request[o].view) <= Len(windows')
                        /\ \A w \in Ids(request[o].view) :
                              /\ request[o].view[w].day = windows'[w].day
                              /\ request[o].view[w].available =>
                                    windows'[w].available \/ windows'[w].day \in request[o].missed
      BY <1>2, <1>3 DEF ViewOK
    <2>1. Len(request[o].view) \in Nat
      <3>1. request[o] \in RequestRow
        BY <1>4
      <3>2. request[o].view \in Seq(WindowRow)
        BY <3>1 DEF RequestRow
      <3> QED
        BY <3>2
    <2>2. Len(request[o].view) <= Len(windows)
      BY DEF IInv, ViewOK
    <2>3. Len(windows) \in Nat /\ Len(windows') \in Nat
      BY <1>1 DEF IInv, TypeOK
    <2>4. \A w \in Ids(request[o].view) : windows'[w] = windows[w]
      BY <1>1, <2>1, <2>2, <2>3 DEF Ids
    <2>5. Len(request[o].view) <= Len(windows')
      BY <1>1, <2>1, <2>2, <2>3
    <2> QED
      BY <2>4, <2>5 DEF IInv, ViewOK
  <1>13. ClosedDaysExplained'
    <2>1. \A w \in Ids(windows) :
             windows[w].available /\ dayType[windows[w].day] # "school_day" => windows[w].raced
      BY DEF IInv, ClosedDaysExplained
    <2> QED
      BY <1>1, <1>7, <1>8, <2>1 DEF ClosedDaysExplained
  <1> QED
    BY <1>5, <1>6, <1>9, <1>10, <1>11, <1>12, <1>13 DEF IInv

\* A withdrawal keeps every row and only ever closes one.
LEMMA WithdrawnRows ==
  ASSUME IInv, NEW c \in Clients, WithdrawDay(c)
  PROVE  /\ windows' \in Seq(WindowRow)
         /\ Len(windows') = Len(windows)
         /\ Ids(windows') = Ids(windows)
         /\ \A w \in Ids(windows) :
               /\ windows'[w].day = windows[w].day
               /\ windows'[w].raced = windows[w].raced
               /\ windows'[w].available => windows[w].available /\ w \notin request[c].ids
               /\ windows[w].available => windows'[w].available \/ w \in request[c].ids
  <1>1. windows \in Seq(WindowRow)
    BY DEF IInv, TypeOK
  <1>2. \A w \in Ids(windows) : windows[w] \in WindowRow
    BY <1>1, RowsAreRows
  <1>3. windows' = [w \in Ids(windows) |->
                       [windows[w] EXCEPT !.available = @ /\ w \notin request[c].ids]]
    BY DEF WithdrawDay
  <1>4. \A w \in Ids(windows) :
           /\ windows'[w] \in WindowRow
           /\ windows'[w].day = windows[w].day
           /\ windows'[w].raced = windows[w].raced
           /\ windows'[w].available = (windows[w].available /\ w \notin request[c].ids)
    <2> SUFFICES ASSUME NEW w \in Ids(windows)
                 PROVE  /\ windows'[w] \in WindowRow
                        /\ windows'[w].day = windows[w].day
                        /\ windows'[w].raced = windows[w].raced
                        /\ windows'[w].available = (windows[w].available /\ w \notin request[c].ids)
      OBVIOUS
    <2>1. windows'[w] = [windows[w] EXCEPT !.available = @ /\ w \notin request[c].ids]
      BY <1>3
    <2>2. windows[w] \in WindowRow
      BY <1>2
    <2> DEFINE open == windows[w].available /\ w \notin request[c].ids
               x    == [windows[w] EXCEPT !.available = open]
    <2>3. windows'[w] = x
      BY <2>1
    <2>4. open \in BOOLEAN
      OBVIOUS
    <2> HIDE DEF open
    <2>5. /\ x \in WindowRow
          /\ x.day = windows[w].day
          /\ x.raced = windows[w].raced
      BY <2>2, <2>4 DEF WindowRow
    <2>6. x.available = open
      BY <2>2 DEF WindowRow
    <2> QED
      BY <2>3, <2>5, <2>6 DEF open
  <1>5. Len(windows) \in Nat /\ windows' \in [1..Len(windows) -> WindowRow]
    BY <1>1, <1>3, <1>4 DEF Ids
  <1>6. windows' \in Seq(WindowRow) /\ Len(windows') = Len(windows)
    BY <1>5
  <1> QED
    BY <1>4, <1>6 DEF Ids

\* A withdrawal closes the windows its handler read, and tells every other
\* request in flight that the day is gone.
LEMMA WithdrawDayInv ==
  ASSUME IInv, NEW c \in Clients, WithdrawDay(c)
  PROVE  IInv'
  <1> DEFINE day == request[c].day
  <1>1. /\ request \in [Clients -> RequestRow]
        /\ day \in Days
        /\ windows \in Seq(WindowRow)
    BY DEF WithdrawDay, IInv, RequestOK, TypeOK
  <1>2. \A w \in Ids(windows) : windows[w] \in WindowRow
    BY <1>1, RowsAreRows
  <1>3. /\ windows' \in Seq(WindowRow)
        /\ Len(windows') = Len(windows)
        /\ Ids(windows') = Ids(windows)
        /\ \A w \in Ids(windows) :
              /\ windows'[w].day = windows[w].day
              /\ windows'[w].raced = windows[w].raced
              /\ windows'[w].available => windows[w].available /\ w \notin request[c].ids
              /\ windows[w].available => windows'[w].available \/ w \in request[c].ids
    BY WithdrawnRows
  <1>4. /\ request' \in [Clients -> RequestRow]
        /\ request'[c] = Idle
        /\ \A o \in Clients \ {c} :
              /\ request'[o].op = request[o].op
              /\ request'[o].slot = request[o].slot
              /\ request'[o].days = request[o].days
              /\ request'[o].day = request[o].day
              /\ request'[o].ids = request[o].ids
              /\ request'[o].view = request[o].view
              /\ request[o].op # "idle" => request'[o].missed = request[o].missed \cup {day}
    <2>1. request' = Overtake(c, day)
      BY DEF WithdrawDay
    <2>2. request'[c] = Idle /\ DOMAIN request' = Clients
      BY <2>1 DEF Overtake
    <2>3. \A o \in Clients \ {c} : request[o].op = "idle" => request'[o] = request[o]
      BY <2>1 DEF Overtake
    <2>4. \A o \in Clients \ {c} : request[o].op # "idle" =>
             request'[o] = [request[o] EXCEPT !.missed = @ \cup {day}]
      BY <2>1 DEF Overtake
    <2>5. ASSUME NEW o \in Clients \ {c}, request[o].op # "idle"
          PROVE  /\ request'[o] \in RequestRow
                 /\ request'[o].missed = request[o].missed \cup {day}
                 /\ request'[o].op = request[o].op
                 /\ request'[o].slot = request[o].slot
                 /\ request'[o].days = request[o].days
                 /\ request'[o].day = request[o].day
                 /\ request'[o].ids = request[o].ids
                 /\ request'[o].view = request[o].view
      <3> DEFINE missed == request[o].missed \cup {day}
                 x      == [request[o] EXCEPT !.missed = missed]
      <3>1. request'[o] = x
        BY <2>4, <2>5
      <3>2. request[o] \in RequestRow
        BY <1>1
      <3>3. missed \in SUBSET Days
        BY <1>1, <3>2 DEF RequestRow
      <3> HIDE DEF missed
      <3>4. /\ x \in RequestRow
            /\ x.missed = missed
            /\ x.op = request[o].op
            /\ x.slot = request[o].slot
            /\ x.days = request[o].days
            /\ x.day = request[o].day
            /\ x.ids = request[o].ids
            /\ x.view = request[o].view
        BY <3>2, <3>3 DEF RequestRow
      <3> QED
        BY <3>1, <3>4 DEF missed
    <2>6. request' = [o \in Clients |-> request'[o]]
      BY <2>1 DEF Overtake
    <2> HIDE DEF day
    <2>7. \A o \in Clients : request'[o] \in RequestRow
      BY <1>1, <2>2, <2>3, <2>5, IdleIsRow
    <2>8. request' \in [Clients -> RequestRow]
      BY <2>6, <2>7
    <2> QED
      BY <2>2, <2>3, <2>5, <2>8
  <1>5. /\ dayType' \in [Days -> DayTypes]
        /\ dayType'[day] = "non_teaching"
        /\ \A d \in Days \ {day} : dayType'[d] = dayType[d]
    BY <1>1 DEF WithdrawDay, IInv, TypeOK, DayTypes
  <1>6. \A w \in Ids(windows) : windows[w].day \in Days
    BY <1>2 DEF WindowRow
  <1>7. Idle.op = "idle"
    BY DEF Idle, Handler
  <1>8. \A o \in Clients : request'[o].op # "idle" => o # c
    BY <1>4, <1>7
  <1>9. \A w \in request[c].ids : w \in Ids(windows) /\ windows[w].day = day
    BY DEF WithdrawDay, IInv, WithdrawOK
  <1>10. TypeOK'
    BY <1>3, <1>5 DEF WithdrawDay, IInv, TypeOK, Ids
  <1>11. RequestOK'
    BY <1>4, <1>8 DEF IInv, RequestOK
  <1>12. CalendarOK'
    BY <1>3, <1>5, <1>6 DEF IInv, CalendarOK
  <1>13. InsertOK'
    <2> SUFFICES ASSUME NEW o \in Clients \ {c}, request[o].op = "insert",
                        NEW d \in request[o].days
                 PROVE  /\ dayType'[d] # "absent"
                        /\ dayType'[d] = "school_day" \/ d \in request'[o].missed
      BY <1>4, <1>8 DEF InsertOK
    <2>1. d \in Days
      BY <1>1 DEF RequestRow
    <2>2. request'[o].missed = request[o].missed \cup {day}
      BY <1>4
    <2> QED
      BY <1>5, <2>1, <2>2 DEF IInv, InsertOK
  <1>14. WithdrawOK'
    <2> SUFFICES ASSUME NEW o \in Clients \ {c}, request[o].op = "withdraw"
                 PROVE  /\ \A w \in request[o].ids :
                              w \in Ids(windows) /\ windows[w].day = request[o].day
                        /\ \A w \in Ids(windows) :
                              windows[w].day = request[o].day => w \in request[o].ids \/ windows[w].raced
      <3>1. \A o \in Clients : request'[o].op = "withdraw" =>
               o # c /\ request[o].op = "withdraw" /\ request'[o].ids = request[o].ids
                     /\ request'[o].day = request[o].day
        BY <1>4, <1>8
      <3> QED
        BY <1>3, <3>1 DEF WithdrawOK
    <2> QED
      BY DEF IInv, WithdrawOK
  <1>15. ViewOK'
    <2> SUFFICES ASSUME NEW o \in Clients \ {c}, request[o].op = "solve",
                        request'[o].view = request[o].view,
                        request'[o].missed = request[o].missed \cup {day}
                 PROVE  /\ Len(request[o].view) <= Len(windows')
                        /\ \A w \in Ids(request[o].view) :
                              /\ request[o].view[w].day = windows'[w].day
                              /\ request[o].view[w].available =>
                                    windows'[w].available \/ windows'[w].day \in request'[o].missed
      BY <1>4, <1>8 DEF ViewOK
    <2>1. Len(request[o].view) \in Nat
      <3>1. request[o].view \in Seq(WindowRow)
        BY <1>1 DEF RequestRow
      <3> QED
        BY <3>1
    <2>2. Len(request[o].view) <= Len(windows)
      BY DEF IInv, ViewOK
    <2>3. Len(windows) \in Nat
      BY <1>1
    <2>4. \A w \in Ids(request[o].view) : w \in Ids(windows)
      BY <2>1, <2>2, <2>3 DEF Ids
    <2>5. \A w \in Ids(request[o].view) :
             /\ request[o].view[w].day = windows[w].day
             /\ request[o].view[w].available =>
                   windows[w].available \/ windows[w].day \in request[o].missed
      BY DEF IInv, ViewOK
    <2> QED
      BY <1>3, <1>9, <2>2, <2>4, <2>5
  <1>16. ClosedDaysExplained'
    <2> SUFFICES ASSUME NEW w \in Ids(windows), windows'[w].available,
                        dayType'[windows[w].day] # "school_day"
                 PROVE  windows[w].raced
      BY <1>3 DEF ClosedDaysExplained
    <2>1. CASE windows[w].day = day
      BY <1>3, <2>1 DEF WithdrawDay, IInv, WithdrawOK
    <2>2. CASE windows[w].day # day
      BY <1>3, <1>5, <1>6, <2>2 DEF IInv, ClosedDaysExplained
    <2> QED
      BY <2>1, <2>2
  <1> QED
    BY <1>10, <1>11, <1>12, <1>13, <1>14, <1>15, <1>16 DEF IInv

\* A handler that ends leaves the others' requests alone.
LEMMA EndOfHandler ==
  ASSUME IInv, NEW c \in Clients, request' = [request EXCEPT ![c] = Idle],
         UNCHANGED <<dayType, windows>>
  PROVE  /\ RequestOK' /\ CalendarOK' /\ InsertOK'
         /\ WithdrawOK' /\ ViewOK' /\ ClosedDaysExplained'
  <1>1. /\ request' \in [Clients -> RequestRow]
        /\ request'[c] = Idle
        /\ \A o \in Clients \ {c} : request'[o] = request[o]
    BY IdleIsRow DEF IInv, RequestOK
  <1>2. \A o \in Clients : request'[o].op # "idle" => request'[o] = request[o]
    BY <1>1 DEF Idle, Handler
  <1>3. RequestOK'
    BY <1>1, <1>2 DEF IInv, RequestOK
  <1>4. CalendarOK' /\ ClosedDaysExplained'
    BY DEF IInv, CalendarOK, ClosedDaysExplained
  <1>5. InsertOK'
    BY <1>2 DEF IInv, InsertOK
  <1>6. WithdrawOK'
    BY <1>2, WithdrawKept DEF IInv
  <1>7. ViewOK'
    BY <1>2, ViewKept DEF IInv
  <1> QED
    BY <1>3, <1>4, <1>5, <1>6, <1>7

\* A stored plan refers to windows of the table: a legal plan uses windows of
\* the view, and rows are never deleted.
LEMMA CommitPlanInv ==
  ASSUME IInv, NEW c \in Clients, CommitPlan(c)
  PROVE  IInv'
  <1> DEFINE view == request[c].view
             in   == SolverInput(view, request[c].parent)
  <1>1. PICK p \in Placements :
          /\ LegalPlan(in, p)
          /\ plans' = Append(plans, [parent |-> request[c].parent, rows |-> p])
    BY DEF CommitPlan
  <1>2. view \in Seq(WindowRow) /\ request[c].parent \in Nat
    <2>1. request[c] \in RequestRow
      BY DEF IInv, RequestOK
    <2> QED
      BY <2>1 DEF RequestRow
  <1>3. \A u \in Units : p[u] # NoWindow => p[u] \in Ids(view)
    <2>1. in.units = Units /\ in.windows = Ids(view)
      BY DEF SolverInput
    <2> QED
      BY <1>1, <2>1 DEF LegalPlan, Placed, Teachable
  <1>4. \A w \in Ids(view) : w \in Ids(windows)
    <2>1. Len(view) <= Len(windows)
      BY DEF CommitPlan, IInv, ViewOK
    <2>2. Len(view) \in Nat /\ Len(windows) \in Nat
      BY <1>2 DEF IInv, TypeOK
    <2> QED
      BY <2>1, <2>2 DEF Ids
  <1>5. TypeOK'
    <2> DEFINE new == [parent |-> request[c].parent, rows |-> p]
    <2>1. new \in PlanRow /\ new.rows = p
      BY <1>2 DEF PlanRow
    <2>2. plans \in Seq(PlanRow)
      BY DEF IInv, TypeOK
    <2>3. plans' = Append(plans, new)
      BY <1>1
    <2> HIDE DEF new
    <2>4. /\ plans' \in Seq(PlanRow)
          /\ \A i \in Ids(plans') : (i \in Ids(plans) /\ plans'[i] = plans[i]) \/ plans'[i] = new
      BY <2>1, <2>2, <2>3 DEF Ids
    <2>5. \A i \in Ids(plans') : \A u \in Units :
             plans'[i].rows[u] # NoWindow => plans'[i].rows[u] \in Ids(windows)
      BY <1>3, <1>4, <2>1, <2>4 DEF IInv, TypeOK
    <2> QED
      BY <2>4, <2>5 DEF CommitPlan, IInv, TypeOK
  <1> QED
    BY <1>5, EndOfHandler DEF CommitPlan, IInv

LEMMA RefusePlanInv ==
  ASSUME IInv, NEW c \in Clients, RefusePlan(c)
  PROVE  IInv'
  <1>1. TypeOK'
    BY DEF RefusePlan, IInv, TypeOK
  <1> QED
    BY <1>1, EndOfHandler DEF RefusePlan, IInv

LEMMA StutterInv == IInv /\ UNCHANGED vars => IInv'
  BY DEF vars, IInv, TypeOK, RequestOK, CalendarOK, InsertOK, WithdrawOK, ViewOK,
         ClosedDaysExplained, Ids

-----------------------------------------------------------------------------

\* What relates the tables to the requests in flight holds throughout.
THEOREM Invariance == Spec => []IInv
  <1>1. IInv /\ [Next]_vars => IInv'
    <2> SUFFICES ASSUME IInv, [Next]_vars
                 PROVE  IInv'
      OBVIOUS
    <2>1. ASSUME NEW c \in Clients, CreateCalendar(c) PROVE IInv'
      BY <2>1, CreateCalendarInv
    <2>2. ASSUME NEW c \in Clients, ReadSchoolDays(c) PROVE IInv'
      BY <2>2, ReadSchoolDaysInv
    <2>3. ASSUME NEW c \in Clients, InsertWindows(c) PROVE IInv'
      BY <2>3, InsertWindowsInv
    <2>4. ASSUME NEW c \in Clients, ReadDay(c) PROVE IInv'
      BY <2>4, ReadDayInv
    <2>5. ASSUME NEW c \in Clients, SelectWindows(c) PROVE IInv'
      BY <2>5, SelectWindowsInv
    <2>6. ASSUME NEW c \in Clients, WithdrawDay(c) PROVE IInv'
      BY <2>6, WithdrawDayInv
    <2>7. ASSUME NEW c \in Clients, LoadPlanInputs(c) PROVE IInv'
      BY <2>7, LoadPlanInputsInv
    <2>8. ASSUME NEW c \in Clients, CommitPlan(c) PROVE IInv'
      BY <2>8, CommitPlanInv
    <2>9. ASSUME NEW c \in Clients, RefusePlan(c) PROVE IInv'
      BY <2>9, RefusePlanInv
    <2>10. CASE UNCHANGED vars
      BY <2>10, StutterInv
    <2> QED
      BY <2>1, <2>2, <2>3, <2>4, <2>5, <2>6, <2>7, <2>8, <2>9, <2>10 DEF Next
  <1> QED
    BY <1>1, InitInv, PTL DEF Spec

\* The tables hold rows of their types, and no stored plan points at a window
\* that is not in the table, whatever build_plan loaded and however late it commits.
THEOREM TypeCorrect == Spec => []TypeOK
  <1>1. IInv => TypeOK
    BY DEF IInv
  <1> QED
    BY <1>1, Invariance, PTL

\* An open window on a closed day is always the work of an insertion and a
\* disruption that overlapped: the handlers of calendar.py leave none otherwise.
THEOREM ClosedDaysAreExplained == Spec => []ClosedDaysExplained
  <1>1. IInv => ClosedDaysExplained
    BY DEF IInv
  <1> QED
    BY <1>1, Invariance, PTL

\* Whatever the interleaving, no handler reopens a window or a day, or touches a
\* stored plan: only create_calendar writes "school_day", and only where no row is.
THEOREM WithdrawalsAreFinal == Spec => WithdrawalIsFinal
  <1> DEFINE Kept ==
        /\ \A w \in Ids(windows) :
              /\ w \in Ids(windows')
              /\ windows'[w].available => windows[w].available
        /\ \A d \in Days : dayType[d] = "non_teaching" => dayType'[d] = "non_teaching"
        /\ \A i \in Ids(plans) : i \in Ids(plans') /\ plans'[i] = plans[i]
  <1>1. IInv /\ [Next]_vars => Kept \/ UNCHANGED vars
    <2> SUFFICES ASSUME IInv, NEW c \in Clients, Next,
                        \/ CreateCalendar(c) \/ ReadSchoolDays(c) \/ InsertWindows(c)
                        \/ ReadDay(c) \/ SelectWindows(c) \/ WithdrawDay(c)
                        \/ LoadPlanInputs(c) \/ CommitPlan(c) \/ RefusePlan(c)
                 PROVE  Kept
      BY DEF Next
    <2>1. CASE CreateCalendar(c)
      BY <2>1 DEF CreateCalendar
    <2>2. CASE InsertWindows(c)
      BY <2>2, InsertedRows DEF InsertWindows
    <2>3. CASE WithdrawDay(c)
      <3>1. dayType' = [dayType EXCEPT ![request[c].day] = "non_teaching"]
        BY <2>3 DEF WithdrawDay
      <3>2. dayType \in [Days -> DayTypes]
        BY DEF IInv, TypeOK
      <3>3. \A d \in Days : dayType[d] = "non_teaching" => dayType'[d] = "non_teaching"
        BY <3>1, <3>2
      <3>4. plans' = plans
        BY <2>3 DEF WithdrawDay
      <3> QED
        BY <2>3, <3>3, <3>4, WithdrawnRows
    <2>4. CASE CommitPlan(c)
      <3>1. PICK new : plans' = Append(plans, new)
        BY <2>4 DEF CommitPlan
      <3>2. plans \in Seq(PlanRow)
        BY DEF IInv, TypeOK
      <3>3. \A i \in Ids(plans) : i \in Ids(plans') /\ plans'[i] = plans[i]
        BY <3>1, <3>2 DEF Ids
      <3> QED
        BY <2>4, <3>3 DEF CommitPlan
    <2>5. CASE ReadSchoolDays(c) \/ ReadDay(c) \/ SelectWindows(c) \/ LoadPlanInputs(c) \/ RefusePlan(c)
      BY <2>5 DEF ReadSchoolDays, ReadDay, SelectWindows, LoadPlanInputs, RefusePlan
    <2> QED
      BY <2>1, <2>2, <2>3, <2>4, <2>5
  <1>2. IInv /\ [Next]_vars => [Kept]_vars
    BY <1>1
  <1>3. Spec => [][Kept]_vars
    BY <1>2, Invariance, PTL DEF Spec
  <1> QED
    BY <1>3 DEF WithdrawalIsFinal

\* A plan that build_plan commits uses an unavailable window only if its day was
\* disrupted after the windows were loaded.
THEOREM PlansAreFresh == Spec => PlanFreshAtCommit
  <1> DEFINE Fresh ==
        \A c \in Clients :
          Len(plans') > Len(plans) /\ request[c].op = "solve" /\ request'[c].op = "idle" =>
            \A u \in Units :
                LET w == plans'[Len(plans')].rows[u]
                IN  w # NoWindow =>
                      windows[w].available \/ windows[w].day \in request[c].missed
  <1>1. IInv /\ Next => Fresh
    <2> SUFFICES ASSUME IInv, Next, NEW c \in Clients,
                        Len(plans') > Len(plans), request[c].op = "solve", request'[c].op = "idle"
                 PROVE  \A u \in Units :
                          LET w == plans'[Len(plans')].rows[u]
                          IN  w # NoWindow =>
                                windows[w].available \/ windows[w].day \in request[c].missed
      OBVIOUS
    <2>1. plans \in Seq(PlanRow) /\ Len(plans) \in Nat
      BY DEF IInv, TypeOK
    <2>2. PICK o \in Clients : CommitPlan(o)
      <3>1. plans' # plans
        BY <2>1
      <3> QED
        BY <3>1 DEF Next, CreateCalendar, ReadSchoolDays, InsertWindows, ReadDay, SelectWindows,
                    WithdrawDay, LoadPlanInputs, RefusePlan
    <2>3. o = c
      <3>1. request' = [request EXCEPT ![o] = Idle] /\ request \in [Clients -> RequestRow]
        BY <2>2 DEF CommitPlan, IInv, RequestOK
      <3> QED
        BY <3>1
    <2> DEFINE view == request[c].view
               in   == SolverInput(view, request[c].parent)
    <2>4. PICK p \in Placements :
            /\ LegalPlan(in, p)
            /\ plans' = Append(plans, [parent |-> request[c].parent, rows |-> p])
      BY <2>2, <2>3 DEF CommitPlan
    <2>5. plans'[Len(plans')].rows = p
      BY <2>1, <2>4
    <2>6. \A u \in Units : p[u] # NoWindow => p[u] \in Ids(view) /\ view[p[u]].available
      <3>1. /\ in.units = Units
            /\ in.windows = Ids(view)
            /\ in.available = [w \in Ids(view) |-> view[w].available]
        BY DEF SolverInput
      <3> HIDE DEF in
      <3> QED
        BY <2>4, <3>1 DEF LegalPlan, Placed, Teachable
    <2>7. \A w \in Ids(view) : view[w].available =>
             windows[w].available \/ windows[w].day \in request[c].missed
      BY DEF IInv, ViewOK
    <2> QED
      BY <2>5, <2>6, <2>7
  <1>2. IInv /\ [Next]_vars => [Fresh]_vars
    BY <1>1
  <1>3. Spec => [][Fresh]_vars
    BY <1>2, Invariance, PTL DEF Spec
  <1> QED
    BY <1>3 DEF PlanFreshAtCommit

=============================================================================
