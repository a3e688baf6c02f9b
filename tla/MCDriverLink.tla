----------------------------- MODULE MCDriverLink -----------------------------
(***************************************************************************)
(* A small instance of DriverLink: two stations, two sockets, and lines    *)
(* and commands of each kind that is handled in its own way.               *)
(***************************************************************************)
EXTENDS DriverLink

CONSTANTS s1, s2

Stations == {s1, s2}
Lines    == {"message", "debug"}
Commands == {[kind |-> "control", long |-> TRUE], [kind |-> "control", long |-> FALSE],
             [kind |-> "other", long |-> TRUE]}

\* Driver 3: a line with another driver and the letter R, one without a driver,
\* and one with the full number of a station.
SomeCalls ==
    {[fn |-> "setAnalogPointRaw", driver |-> 2,     station |-> 5,    module |-> RIMMODC, point |-> 7],
     [fn |-> "setModuleOffline",  driver |-> Short, station |-> 5,    module |-> PLCMODC, point |-> 0],
     [fn |-> "setModuleOnline",   driver |-> Short, station |-> 2005, module |-> MINMODC, point |-> 0]}
================================================================================
