------------------------------ MODULE PortClaims ------------------------------
(***************************************************************************)
(* Who opens which serial port: the weight driver looks for the Arduino,   *)
(* the readers' driver takes the ports that are left (inventory_engine.py  *)
(* and hw_daemon.py, initialize), and an update flashes the Arduino        *)
(* (update_manager.py).  Opening the Arduino's port resets it.             *)
(*                                                                         *)
(* A port has two names, a stable path and that of the device, and the     *)
(* drivers compare names.  The configuration may be older than the         *)
(* cabling.  The lamps and the buzzer, which share the weight driver's     *)
(* port, are left out; a reader that is lost later is in RfidReaders.      *)
(***************************************************************************)
EXTENDS Naturals, FiniteSets

CONSTANTS
  Plugs,       \* the serial ports
  NoName,      \* no port
  Attempts     \* how often a reader is tried

PortAssumption == NoName \notin {"path", "device"} \X Plugs /\ Attempts \in Nat

Names == {"path", "device"} \X Plugs
Device(p) == <<"device", p>>
PortOf(n) == n[2]

VARIABLES
  plugged,     \* what is plugged into each port
  named,       \* WEIGHT_SERIAL_PORT
  listed,      \* the ports of RFID_READER_MAP
  client,      \* does a daemon have the drivers, and the UI is its client?
  stage,       \* how far the start of the drivers is
  opened,      \* the names of the ports the weight driver has open
  port,        \* the weight driver's _port
  ready,       \* its _initialized
  skip,        \* the readers' driver's _skip_ports
  configs,     \* its _reader_configs
  tries,       \* how often was each of them tried, or Attempts if it is done with?
  readers,     \* the ports of the readers it is connected with
  touched,     \* history: the ports it opened
  flash,       \* what the flashing thread does
  target,      \* the port it flashes
  held         \* history: did the driver tell it that port?

cableVars == <<plugged, named, listed, client>>
weightVars == <<opened, port, ready>>
readerVars == <<configs, tries, readers, touched>>
flashVars == <<flash, target, held>>
vars == <<cableVars, stage, weightVars, skip, readerVars, flashVars>>

Cablings == {f \in [Plugs -> {"arduino", "reader", "nothing"}] :
               \A p, q \in Plugs : f[p] = "arduino" /\ f[q] = "arduino" => p = q}

TypeOK ==
  /\ plugged \in Cablings /\ named \in Names \cup {NoName} /\ listed \subseteq Names
  /\ client \in BOOLEAN
  /\ stage \in {"off", "weight", "boot", "skip", "find", "connect", "up"}
  /\ opened \subseteq Names /\ port \in Names \cup {NoName} /\ ready \in BOOLEAN
  /\ skip \subseteq Names /\ configs \subseteq Names /\ tries \in [Names -> 0 .. Attempts]
  /\ readers \subseteq Plugs /\ touched \subseteq Plugs
  /\ flash \in {"idle", "detect", "compile", "write", "ping"}
  /\ target \in Names \cup {NoName} /\ held \in BOOLEAN

Exists(n) == plugged[PortOf(n)] # "nothing"
Untried == [n \in Names |-> 0]

Init ==
  /\ plugged \in Cablings /\ named \in Names \cup {NoName}
  /\ listed \in {{<<k, p>> : p \in s} : k \in {"path", "device"}, s \in SUBSET Plugs}
  /\ client \in BOOLEAN /\ stage = "off"
  /\ opened = {} /\ port = NoName /\ ready = FALSE /\ skip = {}
  /\ configs = {} /\ tries = Untried /\ readers = {} /\ touched = {}
  /\ flash = "idle" /\ target = NoName /\ held = FALSE

-----------------------------------------------------------------------------
(* The drivers are made: the weight driver's port is the configured one,   *)
(* and the readers' driver is told to skip it.  The cables may have been   *)
(* changed since the last start.                                           *)
Named(n) == IF n = NoName THEN {} ELSE {n}

MakeDrivers ==
  /\ stage = "off" /\ plugged' \in Cablings
  /\ stage' = "weight" /\ port' = named /\ skip' = Named(named) /\ configs' = listed
  /\ UNCHANGED <<named, listed, client, opened, ready, tries, readers, touched, flashVars>>

(* RealWeightDriver.initialize: only the configured port if there is one,  *)
(* else all of them; a port may refuse.                                    *)
Candidates ==
  IF port # NoName /\ Exists(port) THEN {port}
  ELSE {n \in Names : Exists(n) /\ n = Device(PortOf(n))}

OpenPorts ==
  /\ stage = "weight" /\ opened' \in SUBSET Candidates
  /\ stage' = IF opened' = {} THEN "skip" ELSE "boot"
  /\ UNCHANGED <<cableVars, port, ready, skip, readerVars, flashVars>>

(* The one that answers as the Arduino is kept and the others are closed.  *)
(* It may not answer in time, and then all are.                            *)
FindArduino ==
  /\ stage = "boot" /\ stage' = "skip"
  /\ \/ \E n \in opened :
          /\ plugged[PortOf(n)] = "arduino"
          /\ opened' = {n} /\ port' = n /\ ready' = TRUE
     \/ opened' = {} /\ UNCHANGED <<port, ready>>
  /\ UNCHANGED <<cableVars, skip, readerVars, flashVars>>

-----------------------------------------------------------------------------
(* The readers' driver is told the port the weight driver has now.         *)
Skipped_Made == skip
Skipped == IF port = NoName THEN skip ELSE {port}

TellReaders ==
  /\ stage = "skip" /\ stage' = "find"
  /\ skip' = Skipped
  /\ UNCHANGED <<cableVars, weightVars, readerVars, flashVars>>

(* _find_all_pn532_ports, when no map is given.                            *)
Found == {n \in Names : Exists(n) /\ n = Device(PortOf(n)) /\ n \notin skip}

FindReaders ==
  /\ stage = "find" /\ stage' = "connect"
  /\ configs' = IF configs = {} THEN Found ELSE configs
  /\ UNCHANGED <<cableVars, weightVars, skip, tries, readers, touched, flashVars>>

(* One attempt to connect the reader of a port, unless it is skipped.      *)
ToTry == {n \in configs \ skip : tries[n] < Attempts}

ConnectReader(n) ==
  /\ stage = "connect" /\ n \in ToTry
  /\ touched' = touched \cup {PortOf(n)}
  /\ \/ /\ plugged[PortOf(n)] = "reader" /\ readers' = readers \cup {PortOf(n)}
        /\ tries' = [tries EXCEPT ![n] = Attempts]
     \/ tries' = [tries EXCEPT ![n] = @ + 1] /\ UNCHANGED readers
  /\ UNCHANGED <<cableVars, stage, weightVars, skip, configs, flashVars>>

StartEnds ==
  /\ stage = "connect" /\ ToTry = {} /\ stage' = "up"
  /\ UNCHANGED <<cableVars, weightVars, skip, readerVars, flashVars>>

-----------------------------------------------------------------------------
(* _flash_arduino, on a thread of the synchronisation.  The weight driver  *)
(* lets go of its port and tells it; a client's has none, and what the     *)
(* daemon has it keeps.                                                    *)
Released == IF ready /\ ~client THEN port ELSE NoName

ReleaseSerial ==
  /\ stage = "up" /\ flash = "idle"
  /\ target' = Released /\ held' = (Released # NoName)
  /\ flash' = IF Released = NoName THEN "detect" ELSE "compile"
  /\ IF client THEN UNCHANGED <<opened, ready>> ELSE opened' = {} /\ ready' = FALSE
  /\ UNCHANGED <<cableVars, stage, port, skip, readerVars>>

(* Without a port, the first one that does not speak at once as a reader   *)
(* does is taken, which a reader seldom does; or there is none.            *)
DetectPort ==
  /\ flash = "detect"
  /\ \/ \E n \in Names : /\ Exists(n) /\ n = Device(PortOf(n))
                         /\ target' = n /\ flash' = "compile"
     \/ /\ \A n \in Names : ~Exists(n)
        /\ flash' = "idle" /\ UNCHANGED target
  /\ UNCHANGED <<cableVars, stage, weightVars, skip, readerVars, held>>

(* There may be no program to flash, or nothing to flash it with.          *)
Compile ==
  /\ flash = "compile" /\ flash' \in {"write", "idle"}
  /\ UNCHANGED <<cableVars, stage, weightVars, skip, readerVars, target, held>>

RunAvrdude ==
  /\ flash = "write" /\ flash' \in {"ping", "idle"}
  /\ UNCHANGED <<cableVars, stage, weightVars, skip, readerVars, target, held>>

(* The answer only changes what is reported.                               *)
PingArduino ==
  /\ flash = "ping" /\ flash' = "idle"
  /\ UNCHANGED <<cableVars, stage, weightVars, skip, readerVars, target, held>>

(* The engine's shutdown closes the readers and then the Arduino, or the   *)
(* process ends without it.                                                *)
Shutdown ==
  /\ stage = "up" /\ stage' = "off"
  /\ opened' = {} /\ port' = NoName /\ ready' = FALSE /\ skip' = {}
  /\ configs' = {} /\ tries' = Untried /\ readers' = {} /\ touched' = {}
  /\ flash' = "idle" /\ target' = NoName /\ held' = FALSE
  /\ UNCHANGED cableVars

Next ==
  \/ MakeDrivers \/ OpenPorts \/ FindArduino \/ TellReaders \/ FindReaders
  \/ StartEnds \/ ReleaseSerial \/ DetectPort \/ Compile \/ RunAvrdude \/ PingArduino
  \/ Shutdown \/ \E n \in Names : ConnectReader(n)

Spec == Init /\ [][Next]_vars

-----------------------------------------------------------------------------
(* No port that is configured goes by two names.                           *)
OneName == \A n \in configs, m \in skip : PortOf(n) = PortOf(m) => n = m

(* Once the weight driver has found the Arduino, the readers' driver does  *)
(* not open its port, which would reset it, and every reader that has a    *)
(* configured port is connected or was tried Attempts times.               *)
ArduinoIsLeftAlone ==
  ready /\ OneName =>
    /\ PortOf(port) \notin touched
    /\ stage = "up" =>
         \A n \in configs :
           plugged[PortOf(n)] = "reader" => PortOf(n) \in readers \/ tries[n] = Attempts

(* An update writes to the port of the Arduino, which nothing else has     *)
(* open, if the driver had found it.                                       *)
FlashHitsArduino ==
  flash \in {"write", "ping"} /\ held =>
    /\ plugged[PortOf(target)] = "arduino"
    /\ target \notin opened /\ PortOf(target) \notin readers
=============================================================================
