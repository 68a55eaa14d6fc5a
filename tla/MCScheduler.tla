---------------------------- MODULE MCScheduler ----------------------------
(***************************************************************************)
(* Small scheduling requests for TLC: three units, three windows.          *)
(***************************************************************************)
EXTENDS Scheduler, TLC

MCUnits == 1..3
MCWindows == 11..13
None == 0

\* Three days out of id order; two windows of one day before or after the third.
Dates == { 11 :> 2 @@ 12 :> 1 @@ 13 :> 3,
           11 :> 1 @@ 12 :> 1 @@ 13 :> 2,
           11 :> 1 @@ 12 :> 2 @@ 13 :> 2 }

\* At most one window withdrawn.
Availability == { [w \in MCWindows |-> w # x] : x \in MCWindows \cup {None} }

\* Nothing; a chain; a prerequisite with the larger id; two prerequisites;
\* a unit that requires itself; a cycle.
Prereqs == { 1 :> {}  @@ 2 :> {}  @@ 3 :> {},
             1 :> {}  @@ 2 :> {1} @@ 3 :> {2},
             1 :> {2} @@ 2 :> {}  @@ 3 :> {},
             1 :> {}  @@ 2 :> {}  @@ 3 :> {1, 2},
             1 :> {1} @@ 2 :> {}  @@ 3 :> {},
             1 :> {2} @@ 2 :> {1} @@ 3 :> {} }

\* All fit everywhere; unit 3 fits only window 13; unit 1 fits nowhere.
Durations == { 1 :> 40 @@ 2 :> 40 @@ 3 :> 40,
               1 :> 40 @@ 2 :> 40 @@ 3 :> 60,
               1 :> 80 @@ 2 :> 40 @@ 3 :> 40 }

Priorities == { 1 :> 0 @@ 2 :> 0 @@ 3 :> 0,
                1 :> 0 @@ 2 :> 1 @@ 3 :> 0 }

Deadlines == { 1 :> NoDeadline @@ 2 :> NoDeadline @@ 3 :> NoDeadline,
               1 :> NoDeadline @@ 2 :> 1 @@ 3 :> NoDeadline }

\* None; the plan 11, 12, 13; its reverse; one that covers only unit 1.
Previous == { 1 :> NoWindow @@ 2 :> NoWindow @@ 3 :> NoWindow,
              1 :> 11 @@ 2 :> 12 @@ 3 :> 13,
              1 :> 13 @@ 2 :> 12 @@ 3 :> 11,
              1 :> 12 @@ 2 :> NoWindow @@ 3 :> NoWindow }

Request(us, ws, dur, pri, pre, dl, dat, av, prev) ==
    [ units |-> us, windows |-> ws, duration |-> dur, priority |-> pri,
      prereqs |-> pre, deadline |-> dl, date |-> dat,
      minutes |-> 11 :> 45 @@ 12 :> 45 @@ 13 :> 60,
      available |-> av, previous |-> prev ]

MCInputs ==
    { Request(us, ws, dur, pri, pre, dl, dat, av, prev) :
        us \in {MCUnits, {}}, ws \in {MCWindows, {11, 12}}, dur \in Durations, pri \in Priorities,
        pre \in Prereqs, dl \in Deadlines, dat \in Dates,
        av \in Availability, prev \in Previous }

=============================================================================
