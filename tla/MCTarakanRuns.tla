---------------------------- MODULE MCTarakanRuns ----------------------------
(* Small instances of TarakanRuns: the scripts the team processes run. *)
EXTENDS TarakanRuns, TLC

CONSTANTS a, b, c    \* team processes

Do(verb, name, track, time, size) ==
    [ request |-> [verb |-> verb, name |-> name, track |-> track, time |-> time],
      size    |-> size ]

RegisterTeam(name)                 == Do("REGISTER TEAM", name, 0, 100, "whole")
DeregisterTeam(name)               == Do("DEREGISTER TEAM", name, 0, 100, "whole")
RegisterTarakan(name, track, time) == Do("REGISTER TARAKAN", name, track, time, "whole")
RequestTimetable                   == Do("REQUEST TIMETABLE", "Red", 0, 100, "whole")

SameName == [n \in Names |-> n]

\* "Jose" with an accent comes back as "Joxffffffe": still a name of its own.
MangledName == [n \in Names |-> IF n = "Jose" THEN "Jomangled" ELSE
                                IF n = "Jomangled" THEN "Jose" ELSE n]

-----------------------------------------------------------------------------
\* team_main, run by two teams of different names at once.
TeamMain(name) ==
    << RegisterTeam(name),
       RegisterTarakan("Alfred", 0, 100),
       RegisterTarakan("Peter", 0, 150),
       RegisterTarakan("Rudolf", 0, 150),
       RequestTimetable,
       DeregisterTeam(name) >>

MainNames  == {"Alfred", "Peter", "Rudolf", "Red", "Blue"}
MainScript == (a :> TeamMain("Red")) @@ (b :> TeamMain("Blue"))

-----------------------------------------------------------------------------
\* More tarakans than a slot of two takes, from three teams, with calls around
\* the length one read of the server holds.
ContentionNames  == {"Red", "Alfred", "Peter", "Rudolf", "Jose", "Jomangled"}
ContentionScript ==
    (a :> << RegisterTarakan("Alfred", 0, 100), RegisterTarakan("Jose", 0, 150),
             RequestTimetable >>) @@
    (b :> << RegisterTarakan("Peter", 0, 100),
             Do("REGISTER TARAKAN", "Alfred", 0, 150, "stray") >>) @@
    (c :> << RegisterTarakan("Rudolf", 0, 100),
             Do("REGISTER TARAKAN", "Red", 0, 100, "refused") >>)

-----------------------------------------------------------------------------
\* A team that may be killed at any step and run again leaves and joins; the
\* other one joins twice and then makes a call longer than one read of the
\* server, which loses digits of its time or all of them.
FailureNames  == {"Red", "Jose", "Jomangled"}
FailureScript ==
    (a :> << RegisterTeam("Red"), RegisterTeam("Red"),
             Do("REGISTER TARAKAN", "Jose", 0, 100, "cut") >>) @@
    (b :> << DeregisterTeam("Jose"), RegisterTeam("Jose") >>)

=============================================================================
