------------------------------ MODULE PointMessages ------------------------------
(***************************************************************************)
(* The messages by which a driver tells infoserver of one point, module or *)
(* station (the message functions of InfoLink), as functions of the call:  *)
(* what each sends, a sequence of at most one message.  Values and times   *)
(* are left out.                                                           *)
(*                                                                         *)
(* A module is the code of its letter.  In a message it is a number up to  *)
(* 17 or a letter.  A full station number is 1000 times the driver, plus   *)
(* the station.                                                            *)
(***************************************************************************)
EXTENDS Integers

CONSTANT Driver \* driver_num, "as configured on HSM"

ASSUME PMAssumption == Driver \in Nat

MINMODC == 65 \* 'A'
MAXMODC == 79 \* 'O'
PLCMODC == 81 \* 'Q'
RIMMODC == 82 \* 'R'
PLCMOD  == 17
RIMMOD  == 16

\* The stations of a driver are numbered up to PerDriver - 1.
PerDriver  == 1000
MaxStation == 9999

Module == (MINMODC..MAXMODC) \cup {PLCMODC, RIMMODC}

moduleCharToInt(c) ==
    CASE c \in MINMODC..MAXMODC -> c - 64
      [] c = RIMMODC -> RIMMOD
      [] c = PLCMODC -> PLCMOD
      [] OTHER -> -1

buildStation(driver, station) == driver * PerDriver + station

-----------------------------------------------------------------------------
\* Points.  The letter stays for R and Q.  No argument is checked.
ModuleField(c) == IF moduleCharToInt(c) \in {RIMMOD, PLCMOD} THEN c ELSE moduleCharToInt(c)

PointMessage(kind, header, driver, station, c, point) ==
    <<[kind |-> kind, driver |-> header, station |-> buildStation(driver, station),
       module |-> ModuleField(c), point |-> point]>>

\* The header of an analog has the driver of the process, not the one it is given.
setAnalogPointRaw(driver, station, point, c) ==
    PointMessage("analog", Driver, driver, station, c, point)

\* Always module Q.
setAnalogQPoint(driver, station, point, c) ==
    PointMessage("analog", Driver, driver, station, PLCMODC, point)

setDigitalPulsePoint(driver, station, point, c) ==
    PointMessage("pulse", driver, driver, station, c, point)

setDigitalPoint(driver, station, point, c) ==
    PointMessage("digital", driver, driver, station, c, point)

-----------------------------------------------------------------------------
\* Modules and stations: a bad station or module sends nothing.
StationMessage(kind, station, module) ==
    [kind |-> kind, driver |-> 0, station |-> station, module |-> module, point |-> 0]

\* Mutant: the driver is put before a number that has it already.
AlwaysOwn(station) == buildStation(Driver, station)

\* A short number is a station of the process's own driver.
FullStation(station) ==
    IF Driver > 0 /\ station < PerDriver THEN buildStation(Driver, station) ELSE station

setModuleOffline(station, c) ==
    IF station \in 1..MaxStation /\ c \in Module
    THEN <<StationMessage("offline", FullStation(station), moduleCharToInt(c))>> ELSE <<>>

setModuleOnline(station, c) ==
    IF station \in 1..MaxStation /\ c \in Module
    THEN <<StationMessage("online", FullStation(station),
                          IF c = RIMMODC THEN c ELSE moduleCharToInt(c))>> ELSE <<>>

setDfsStationOffline(station) ==
    IF station \in 1..MaxStation THEN <<StationMessage("offline", station, RIMMODC)>> ELSE <<>>

clearDfsStationOffline(station) ==
    IF station \in 1..MaxStation THEN <<StationMessage("clear", station, RIMMODC)>> ELSE <<>>

-----------------------------------------------------------------------------
\* A call; the short form is without a driver.
Short == -1

PointFn   == {"setAnalogPointRaw", "setAnalogQPoint", "setDigitalPulsePoint", "setDigitalPoint"}
ModuleFn  == {"setModuleOffline", "setModuleOnline"}
StationFn == {"setDfsStationOffline", "clearDfsStationOffline"}
Call == [fn : PointFn \cup ModuleFn \cup StationFn,
         driver : Int, station : Int, module : Int, point : Int]

\* The short forms of the point functions fill in the driver; the long forms of
\* the module functions make a full station number.
OrOwn(call)      == IF call.driver = Short THEN Driver ELSE call.driver
StationArg(call) == IF call.driver = Short THEN call.station
                    ELSE buildStation(call.driver, call.station)

Sent(call) ==
    LET s == call.station
        c == call.module
        p == call.point
    IN  CASE call.fn = "setAnalogPointRaw"     -> setAnalogPointRaw(OrOwn(call), s, p, c)
          [] call.fn = "setAnalogQPoint"       -> setAnalogQPoint(OrOwn(call), s, p, c)
          [] call.fn = "setDigitalPulsePoint"  -> setDigitalPulsePoint(OrOwn(call), s, p, c)
          [] call.fn = "setDigitalPoint"       -> setDigitalPoint(OrOwn(call), s, p, c)
          [] call.fn = "setModuleOffline"      -> setModuleOffline(StationArg(call), c)
          [] call.fn = "setModuleOnline"       -> setModuleOnline(StationArg(call), c)
          [] call.fn = "setDfsStationOffline"  -> setDfsStationOffline(s)
          [] call.fn = "clearDfsStationOffline" -> clearDfsStationOffline(s)

-----------------------------------------------------------------------------
(***************************************************************************)
(* What a message is about, as its receiver reads it, and what the caller  *)
(* named: a driver, its station, the letter of a module, a point.          *)
(***************************************************************************)

ModuleRead(field) ==
    IF field \in 1..17 THEN CHOOSE c \in Module : moduleCharToInt(c) = field ELSE field

Target(message) ==
    [driver |-> message.station \div PerDriver, station |-> message.station % PerDriver,
     module |-> ModuleRead(message.module), point |-> message.point]

\* A station's number is a full one; a module's is when it has four digits.
Full(call) ==
    \/ call.fn \in StationFn
    \/ call.fn \in ModuleFn /\ call.driver = Short /\ call.station >= PerDriver

CallDriver(call) ==
    CASE Full(call) -> call.station \div PerDriver
      [] ~Full(call) /\ call.driver = Short -> Driver
      [] OTHER -> call.driver

ModuleNamed(call) ==
    CASE call.fn \in StationFn -> RIMMODC
      [] call.fn = "setAnalogQPoint" -> PLCMODC
      [] OTHER -> call.module

Named(call) ==
    [driver |-> CallDriver(call), station |-> call.station % PerDriver,
     module |-> ModuleNamed(call), point |-> IF call.fn \in PointFn THEN call.point ELSE 0]

\* The calls for which a message is due: numbers in range, and a driver that
\* fits the digit before the station's number.
Legal(call) ==
    /\ call \in Call
    /\ call.module \in Module
    /\ Full(call) => call.driver = Short /\ call.station \in 1..MaxStation
    /\ ~Full(call) => call.station \in 1..(PerDriver - 1) /\ CallDriver(call) \in 1..9
================================================================================
