---------------------------- MODULE DeviceControl ----------------------------
(***************************************************************************)
(* How the node controls the sonar head and the simbox: its parameters,    *)
(* the callback that updates them one by one, and the timer that, once a   *)
(* second, broadcasts the network configuration (R2DC) to both devices and *)
(* then sends each of them its set of commands (CMD0).                     *)
(*                                                                         *)
(* Timer and callback run in the one thread of the executor: `phase' is    *)
(* where it is.  The devices and the network are outside the program: a    *)
(* datagram may be lost or overtaken, a device adopts the configuration    *)
(* that bears its serial number and then obeys the commands that arrive at *)
(* the address this configuration gives it.                                *)
(***************************************************************************)
EXTENDS Integers, Sequences

CONSTANTS
  Systems,      \* system indices, 0..3 in the code
  OtherIps,     \* the other addresses of the network parameters
  SimInts, SimIps, HeadFloats, HeadInts,  \* keys of the commands
  FixedNames,   \* declared parameters that are not commands
  ValidIps,     \* strings that inet_pton accepts
  AnyIp,        \* the string "0.0.0.0"
  EmptyIp,      \* the empty string
  BadIps,       \* other strings that inet_pton refuses
  Ints,         \* 64-bit values of integer parameters
  Doubles,      \* values of floating-point parameters
  Ports,        \* 64-bit values of the port parameters
  Serials,      \* values of the serial number parameters, sequences
  IntMod,       \* number of 32-bit integers
  FloatUlp,     \* distance of two floats, in units of the doubles
  PortMod,      \* number of 16-bit integers
  SerialWidth,  \* characters of the serial number field, 12 in the code
  MaxUpdates,   \* bound on the requests to set parameters
  MaxList       \* bound on the parameters of one request

ASSUME ControlAssumption ==
  /\ Ints \cup Doubles \cup Ports \subseteq Int
  /\ IntMod \in Nat \ {0} /\ IntMod % 2 = 0
  /\ FloatUlp \in Nat \ {0}
  /\ PortMod \in Nat \ {0}
  /\ SerialWidth \in Nat
  /\ MaxUpdates \in Nat
  /\ MaxList \in Nat

ASSUME NamesAssumption ==
  /\ AnyIp \in ValidIps
  /\ (BadIps \cup {EmptyIp}) \cap ValidIps = {}
  /\ SimIps \cap (SimInts \cup HeadInts \cup HeadFloats) = {}
  /\ HeadFloats \cap (SimInts \cup HeadInts) = {}
  /\ SimInts \cap HeadInts = {}
  /\ FixedNames \cap (SimIps \cup SimInts \cup HeadInts \cup HeadFloats) = {}

Devices   == {"head", "simbox"}
IpStrings == ValidIps \cup BadIps \cup {EmptyIp}
IpNames   == (Devices \X Systems) \cup OtherIps
Sections(dev) == IF dev = "head" THEN HeadFloats \cup HeadInts
                                 ELSE SimInts \cup SimIps
Commands == Sections("head") \cup Sections("simbox")

(* What a client may ask for: rclcpp has checked the types already.        *)
Updates ==
       [name : SimInts \cup HeadInts, value : Ints]
  \cup [name : HeadFloats, value : Doubles]
  \cup [name : SimIps, value : IpStrings]
  \cup [name : FixedNames, value : {EmptyIp}]

VARIABLES
  launch,   \* the parameters that only launching the node sets
  store,    \* the commands as the ROS parameters of the node
  params,   \* parameters_
  request,  \* the request the callback works on
  phase,    \* where the thread of the executor is
  wire,     \* datagrams under way
  device,   \* what each device adopted: configuration and commands
  updates   \* number of requests so far

vars == <<launch, store, params, request, phase, wire, device, updates>>

Nothing == [kind |-> "none"]
NoRequest == [todo |-> <<>>, successful |-> TRUE, proposed |-> store]

(***************************************************************************)
(* Conversions.  Where a definition is preceded by another with the same   *)
(* parameters, that one is the same code with a plausible mistake, kept to *)
(* show that a property notices (PROJECT.json, "mutants").                 *)
(***************************************************************************)
ToIntUnchecked(v) == v
ToInt(v)   == ((v + IntMod \div 2) % IntMod) - IntMod \div 2
ToFloat(v) == ((v + FloatUlp \div 2) \div FloatUlp) * FloatUlp

(* How the value of a command parameter is kept, and how it is sent.       *)
Converted(c, v) == IF c \in SimIps THEN v
                   ELSE IF c \in HeadFloats THEN ToFloat(v) ELSE ToInt(v)
OnWire(c, v)    == IF c \in SimIps \cup HeadFloats THEN v ELSE v % IntMod

FixEmptyIpNever(ip) == ip
FixEmptyIp(ip) == IF ip = EmptyIp THEN AnyIp ELSE ip

(***************************************************************************)
(* Parameters::init, called by the constructor before timer and callback   *)
(* exist.                                                                  *)
(***************************************************************************)
ControlModeByHead(l) == l.control /\ l.serial["head"] # <<>>
ControlMode(l) == l.control /\ \A dev \in Devices : l.serial[dev] # <<>>

Loaded(l, cmd) ==
  [control |-> ControlMode(l),
   serial  |-> l.serial,
   system  |-> l.system,
   ip      |-> [n \in IpNames |-> FixEmptyIp(l.ip[n])],
   port    |-> [p \in Devices \X Systems |-> ToInt(l.port[p])],
   cmd     |-> [c \in Commands |-> Converted(c, cmd[c])]]

LaunchTypes ==
  [control : BOOLEAN, serial : [Devices -> Serials], system : Systems,
   ip : [IpNames -> IpStrings], port : [Devices \X Systems -> Ports]]

StoreTypes ==
  {cmd \in [Commands -> Ints \cup Doubles \cup IpStrings] :
     /\ \A c \in SimIps : cmd[c] \in IpStrings
     /\ \A c \in HeadFloats : cmd[c] \in Doubles
     /\ \A c \in SimInts \cup HeadInts : cmd[c] \in Ints}

Init ==
  /\ launch \in LaunchTypes
  /\ store \in StoreTypes
  /\ params = Loaded(launch, store)
  /\ request = NoRequest
  /\ phase = "idle"
  /\ wire = {}
  /\ device = [dev \in Devices |-> [config |-> Nothing, cmds |-> Nothing]]
  /\ updates = 0

(***************************************************************************)
(* onParameterUpdate.  The service calls it with the whole list, and sets  *)
(* the ROS parameters only if the result is successful.                    *)
(***************************************************************************)
AcceptsAnyString(u) == u.name \in Commands
Accepts(u) == /\ u.name \in Commands
              /\ u.name \in SimIps => u.value \in ValidIps

SetParameters ==
  /\ phase = "idle"
  /\ updates < MaxUpdates
  /\ \E n \in 1..MaxList : \E todo \in [1..n -> Updates] :
       request' = [todo |-> todo, successful |-> TRUE, proposed |-> store]
  /\ phase' = "updating"
  /\ updates' = updates + 1
  /\ UNCHANGED <<launch, store, params, wire, device>>

With(cmd, c, v) == IF c \in Commands THEN [cmd EXCEPT ![c] = v] ELSE cmd

OutcomeIgnored(successful, u) == successful
Outcome(successful, u) == successful /\ Accepts(u)

(* One round of the loop: a parameter that is refused does not end it.     *)
UpdateParameter ==
  /\ phase = "updating"
  /\ request.todo # <<>>
  /\ LET u == Head(request.todo) IN
       /\ params' = IF Accepts(u)
                    THEN [params EXCEPT !.cmd =
                            With(@, u.name, Converted(u.name, u.value))]
                    ELSE params
       /\ request' = [todo       |-> Tail(request.todo),
                      successful |-> Outcome(request.successful, u),
                      proposed   |-> With(request.proposed, u.name, u.value)]
  /\ UNCHANGED <<launch, store, phase, wire, device, updates>>

UpdateReturns ==
  /\ phase = "updating"
  /\ request.todo = <<>>
  /\ store' = IF request.successful THEN request.proposed ELSE store
  /\ request' = [todo |-> <<>>, successful |-> TRUE, proposed |-> store']
  /\ phase' = "idle"
  /\ UNCHANGED <<launch, params, wire, device, updates>>

(***************************************************************************)
(* What is sent.  config_id hashes what follows it in the packet, and the  *)
(* hash is taken to tell any two contents apart.                           *)
(***************************************************************************)
SerialField(s) == SubSeq(s, 1, IF Len(s) < SerialWidth THEN Len(s) ELSE SerialWidth)

ConfigIdOfPacket(s, c) == [serial |-> s, system |-> c.system, ip |-> c.ip, port |-> c.port]
ConfigId(s, c) == [system |-> c.system, ip |-> c.ip, port |-> c.port]

R2DC(p, dev) ==
  LET c == [system |-> p.system, ip |-> p.ip,
            port |-> [q \in Devices \X Systems |-> p.port[q] % PortMod]]
      s == SerialField(p.serial[dev])
  IN  [kind |-> "R2DC", serial |-> s, id |-> ConfigId(s, c),
       system |-> c.system, ip |-> c.ip, port |-> c.port]

(* Where the node sends the commands for a device: getHeadIp() and the     *)
(* like, and the base port plus 2 as an unsigned short.                    *)
CommandAddressOfHead(p, dev) ==
  [ip   |-> p.ip[<<"head", p.system>>],
   port |-> (p.port[<<"head", p.system>>] + 2) % PortMod]
CommandAddressAtBase(p, dev) ==
  [ip |-> p.ip[<<dev, p.system>>], port |-> p.port[<<dev, p.system>>] % PortMod]
CommandAddress(p, dev) ==
  [ip |-> p.ip[<<dev, p.system>>], port |-> (p.port[<<dev, p.system>>] + 2) % PortMod]

CommandSet(p, dev) ==
  [kind |-> "CMD0", to |-> CommandAddress(p, dev),
   cmds |-> [c \in Sections(dev) |-> OnWire(c, p.cmd[c])]]

NetworkIsValid(p)  == \A n \in IpNames : p.ip[n] \in ValidIps
CommandsAreValid(p) == \A c \in SimIps : p.cmd[c] \in ValidIps

(***************************************************************************)
(* send_cmds, called by the timer.  ip_str_to_u32 throws on an invalid     *)
(* address; nothing catches it, and the process ends.                      *)
(***************************************************************************)
TimerFires ==
  /\ phase = "idle"
  /\ params.control
  /\ phase' = "configure head"
  /\ UNCHANGED <<launch, store, params, request, wire, device, updates>>

(* sendNetworkConfig, to one device and then to the other.                 *)
SendNetworkConfig(dev, next) ==
  /\ NetworkIsValid(params)
  /\ wire' = wire \cup {R2DC(params, dev)}
  /\ phase' = next
  /\ UNCHANGED <<launch, store, params, request, device, updates>>

(* sendUdpMessage reports a socket error, certain for port 0, and the node *)
(* goes on; any other error counts as loss.                                *)
SendCommands(dev, next) ==
  /\ wire' = IF CommandAddress(params, dev).port = 0 THEN wire
             ELSE wire \cup {CommandSet(params, dev)}
  /\ phase' = next
  /\ UNCHANGED <<launch, store, params, request, device, updates>>

ConfigureHead   == phase = "configure head" /\ SendNetworkConfig("head", "configure simbox")
ConfigureSimbox == phase = "configure simbox" /\ SendNetworkConfig("simbox", "command simbox")
SendSimCmds     == /\ phase = "command simbox"
                   /\ CommandsAreValid(params)
                   /\ SendCommands("simbox", "command head")
SendHeadCmds    == phase = "command head" /\ SendCommands("head", "idle")

InvalidIpThrown ==
  /\ \/ phase \in {"configure head", "configure simbox"} /\ ~NetworkIsValid(params)
     \/ phase = "command simbox" /\ ~CommandsAreValid(params)
  /\ phase' = "terminated"
  /\ UNCHANGED <<launch, store, params, request, wire, device, updates>>

SendCmds == ConfigureHead \/ ConfigureSimbox \/ SendSimCmds \/ SendHeadCmds
            \/ InvalidIpThrown

(***************************************************************************)
(* The network and the devices (outside the program).                      *)
(***************************************************************************)
Lose == \E d \in wire :
  /\ wire' = wire \ {d}
  /\ UNCHANGED <<launch, store, params, request, phase, device, updates>>

Adopts(dev, d) == d.kind = "R2DC" /\ d.serial = SerialField(launch.serial[dev])

ListensAt(c, dev) == [ip   |-> c.ip[<<dev, c.system>>],
                      port |-> (c.port[<<dev, c.system>>] + 2) % PortMod]

Obeys(dev, d) == /\ d.kind = "CMD0"
                 /\ device[dev].config # Nothing
                 /\ ListensAt(device[dev].config, dev) = d.to

Deliver(dev, d) ==
  /\ d \in wire
  /\ wire' = wire \ {d}
  /\ \/ Adopts(dev, d) /\ device' = [device EXCEPT ![dev].config = d]
     \/ Obeys(dev, d)  /\ device' = [device EXCEPT ![dev].cmds = d]
  /\ UNCHANGED <<launch, store, params, request, phase, updates>>

Next ==
  \/ SetParameters \/ UpdateParameter \/ UpdateReturns
  \/ TimerFires \/ SendCmds
  \/ Lose
  \/ \E dev \in Devices : \E d \in wire : Deliver(dev, d)

Spec == Init /\ [][Next]_vars

(* The process keeps running; the timer period is over again and again; a  *)
(* datagram that is sent again and again arrives again and again.          *)
FairSpec ==
  /\ Spec
  /\ WF_vars(UpdateParameter) /\ WF_vars(UpdateReturns)
  /\ WF_vars(TimerFires) /\ WF_vars(SendCmds)
  /\ \A dev \in Devices : /\ SF_vars(Deliver(dev, R2DC(params, dev)))
                          /\ SF_vars(Deliver(dev, CommandSet(params, dev)))

-----------------------------------------------------------------------------
(***************************************************************************)
(* Properties.                                                             *)
(***************************************************************************)
Int32s  == -(IntMod \div 2)..(IntMod \div 2 - 1)
Fields  == {SerialField(s) : s \in Serials}
Content == [system : Systems, ip : [IpNames -> IpStrings],
            port : [Devices \X Systems -> 0..PortMod - 1]]
Configs == [kind : {"R2DC"}, serial : Fields, id : Content, system : Systems,
            ip : [IpNames -> IpStrings],
            port : [Devices \X Systems -> 0..PortMod - 1]]
Values  == Int \cup IpStrings
Parameters == [control : BOOLEAN, serial : [Devices -> Serials], system : Systems,
               ip : [IpNames -> IpStrings], port : [Devices \X Systems -> Int32s],
               cmd : [Commands -> Values]]
SetsFor(dev) == [kind : {"CMD0"},
                 to   : [ip : IpStrings, port : 0..PortMod - 1],
                 cmds : [Sections(dev) -> Values]]

(* Every variable keeps its type; what the node keeps of an integer        *)
(* parameter fits the C++ int it keeps it in, whatever value is set.       *)
TypeOK ==
  /\ launch \in LaunchTypes
  /\ store \in [Commands -> Values]
  /\ params \in Parameters
  /\ \A c \in SimInts \cup HeadInts : params.cmd[c] \in Int32s
  /\ \A c \in SimIps : params.cmd[c] \in IpStrings
  /\ request \in [todo : Seq(Updates), successful : BOOLEAN,
                 proposed : [Commands -> Values]]
  /\ phase \in {"idle", "updating", "configure head", "configure simbox",
                "command simbox", "command head", "terminated"}
  /\ wire \subseteq Configs \cup SetsFor("head") \cup SetsFor("simbox")
  /\ device \in [Devices -> [config : Configs \cup {Nothing},
                           cmds : SetsFor("head") \cup SetsFor("simbox") \cup {Nothing}]]
  /\ updates \in 0..MaxUpdates

(* Nothing is ever sent to a device, nor adopted by one, unless the node   *)
(* was launched in control mode with the serial numbers of both devices: a *)
(* configuration without a serial number would be anybody's.               *)
SilentWithoutControl ==
  wire # {} \/ (\E dev \in Devices : device[dev].config # Nothing)
    => launch.control /\ \A dev \in Devices : launch.serial[dev] # <<>>

(* Once commands are on their way, every address has been converted, and   *)
(* no request to set parameters, accepted or refused, may bring an invalid *)
(* one in: the timer does not end a process that has commanded a device.   *)
CommandedStaysUp ==
  phase = "terminated" =>
    /\ \A d \in wire : d.kind # "CMD0"
    /\ \A dev \in Devices : device[dev].cmds = Nothing

(* If the timer ends the process, the ROS parameters of the node show why: *)
(* one of them still is a string that is no IPv4 address.                  *)
TerminatedByVisibleIp ==
  phase = "terminated" => \/ \E n \in IpNames : launch.ip[n] \in BadIps
                          \/ \E c \in SimIps : store[c] \notin ValidIps

(* With two devices at two addresses, neither gets the commands meant for  *)
(* the other, some of which have the same names.                           *)
CommandsKeptApart ==
  ListensAt(params, "head") # ListensAt(params, "simbox") =>
    \A dev \in Devices : device[dev].cmds # Nothing =>
      DOMAIN device[dev].cmds.cmds = Sections(dev)

(* Two devices that the node has configured agree on the identifier by     *)
(* which they tell whether they have the same configuration.               *)
OneConfiguration ==
  \A dev, other \in Devices :
    device[dev].config # Nothing /\ device[other].config # Nothing
      => device[dev].config.id = device[other].config.id

(* What the node sends is, up to the width of its fields, what its ROS     *)
(* parameters say.                                                         *)
CommandsMirrorStore ==
  phase # "updating" =>
    \A c \in Commands : params.cmd[c] = Converted(c, store[c])

(* A node in control mode that goes on running, with distinct addresses    *)
(* and usable ports, brings both devices to its configuration and to its   *)
(* last commands, whatever datagrams are lost or overtaken.                *)
Reachable ==
  /\ params.control
  /\ ListensAt(params, "head") # ListensAt(params, "simbox")
  /\ \A dev \in Devices : ListensAt(params, dev).port # 0

DevicesCatchUp ==
  Reachable /\ [](phase # "terminated") =>
    <>[](\A dev \in Devices : /\ device[dev].config = R2DC(params, dev)
                              /\ device[dev].cmds = CommandSet(params, dev))
=============================================================================
