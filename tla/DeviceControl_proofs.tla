------------------------- MODULE DeviceControl_proofs -------------------------
(***************************************************************************)
(* Proofs about DeviceControl, for any parameters, any requests to set     *)
(* them and any width of the integers.                                     *)
(***************************************************************************)
EXTENDS DeviceControl, TLAPS

-----------------------------------------------------------------------------
(* Conversions.                                                            *)

(* Any integer, narrowed, fits the int it is narrowed to.                  *)
LEMMA ToIntType ==
  ASSUME NEW v \in Int
  PROVE  ToInt(v) \in Int32s
<1> DEFINE half == IntMod \div 2
<1>1. half \in Int /\ half + half = IntMod
  BY ControlAssumption
<1>2. (v + half) % IntMod \in 0..IntMod - 1
  BY <1>1, ControlAssumption
<1> HIDE DEF half
<1>3. ((v + half) % IntMod) - half \in -half..half - 1
  BY <1>1, <1>2, ControlAssumption
<1> QED
  BY <1>3 DEF ToInt, Int32s, half

LEMMA ToFloatType ==
  ASSUME NEW v \in Int
  PROVE  ToFloat(v) \in Int
BY ControlAssumption DEF ToFloat

(* The value a command parameter is kept as has the type of its kind.      *)
LEMMA ConvertedType ==
  ASSUME NEW c \in Commands, NEW v \in Values,
         c \in SimIps => v \in IpStrings,
         c \notin SimIps => v \in Int
  PROVE  /\ Converted(c, v) \in Values
         /\ c \in SimInts \cup HeadInts => Converted(c, v) \in Int32s
         /\ c \in SimIps => Converted(c, v) = v
<1>1. c \in SimIps \/ c \in HeadFloats \/ c \in SimInts \cup HeadInts
  BY DEF Commands, Sections
<1>2. CASE c \in SimIps
  BY <1>2, NamesAssumption DEF Converted
<1>3. CASE c \in HeadFloats
  BY <1>3, NamesAssumption, ToFloatType DEF Converted, Values
<1>4. CASE c \in SimInts \cup HeadInts
  <2>1. c \notin SimIps \cup HeadFloats
    BY <1>4, NamesAssumption
  <2>2. Converted(c, v) = ToInt(v)
    BY <2>1 DEF Converted
  <2>3. ToInt(v) \in Int32s
    BY <2>1, ToIntType
  <2>4. Int32s \subseteq Int
    BY ControlAssumption DEF Int32s
  <2> QED
    BY <2>1, <2>2, <2>3, <2>4 DEF Values
<1> QED
  BY <1>1, <1>2, <1>3, <1>4

(* What a client asks for has the type of the parameter.                   *)
LEMMA UpdateType ==
  ASSUME NEW u \in Updates
  PROVE  /\ u.value \in Values
         /\ u.name \in Commands => /\ u.name \in SimIps => u.value \in IpStrings
                                   /\ u.name \notin SimIps => u.value \in Int
<1>1. CASE u \in [name : SimInts \cup HeadInts, value : Ints]
  BY <1>1, NamesAssumption, ControlAssumption DEF Values
<1>2. CASE u \in [name : HeadFloats, value : Doubles]
  BY <1>2, NamesAssumption, ControlAssumption DEF Values
<1>3. CASE u \in [name : SimIps, value : IpStrings]
  BY <1>3 DEF Values
<1>4. CASE u \in [name : FixedNames, value : {EmptyIp}]
  BY <1>4, NamesAssumption DEF Values, IpStrings, Commands, Sections
<1> QED
  BY <1>1, <1>2, <1>3, <1>4 DEF Updates

-----------------------------------------------------------------------------
(* Type correctness.                                                       *)

ParamsType ==
  /\ params \in Parameters
  /\ \A c \in SimInts \cup HeadInts : params.cmd[c] \in Int32s
  /\ \A c \in SimIps : params.cmd[c] \in IpStrings

LEMMA LoadedType ==
  ASSUME Init
  PROVE  ParamsType
<1>1. /\ launch \in LaunchTypes
      /\ store \in StoreTypes
      /\ params = Loaded(launch, store)
  BY DEF Init
<1>2. params.control \in BOOLEAN
  BY <1>1 DEF Loaded, ControlMode, LaunchTypes
<1>3. params.serial \in [Devices -> Serials] /\ params.system \in Systems
  BY <1>1 DEF Loaded, LaunchTypes
<1>4. params.ip \in [IpNames -> IpStrings]
  BY <1>1, NamesAssumption DEF Loaded, LaunchTypes, FixEmptyIp, IpStrings
<1>5. params.port \in [Devices \X Systems -> Int32s]
  <2>1. \A p \in Devices \X Systems : launch.port[p] \in Int
    BY <1>1, ControlAssumption DEF LaunchTypes
  <2> QED
    BY <1>1, <2>1, ToIntType DEF Loaded
<1>6. \A c \in Commands : /\ store[c] \in Values
                          /\ c \in SimIps => store[c] \in IpStrings
                          /\ c \notin SimIps => store[c] \in Int
  BY <1>1, ControlAssumption DEF StoreTypes, Values, Commands, Sections
<1>7. params.cmd = [c \in Commands |-> Converted(c, store[c])]
  BY <1>1 DEF Loaded
<1>8. SimInts \cup HeadInts \cup SimIps \subseteq Commands
  BY DEF Commands, Sections
<1>9. /\ params.cmd \in [Commands -> Values]
      /\ \A c \in SimInts \cup HeadInts : params.cmd[c] \in Int32s
      /\ \A c \in SimIps : params.cmd[c] \in IpStrings
  BY <1>6, <1>7, <1>8, ConvertedType
<1>10. params \in Parameters
  BY <1>1, <1>2, <1>3, <1>4, <1>5, <1>9 DEF Loaded, Parameters
<1> QED
  BY <1>9, <1>10 DEF ParamsType

LEMMA StoreType ==
  ASSUME Init
  PROVE  store \in [Commands -> Values]
BY ControlAssumption DEF Init, StoreTypes, Values

LEMMA TypeInit == Init => TypeOK
<1> SUFFICES ASSUME Init PROVE TypeOK
  OBVIOUS
<1>1. ParamsType /\ store \in [Commands -> Values]
  BY LoadedType, StoreType
<1>2. request \in [todo : Seq(Updates), successful : BOOLEAN,
                  proposed : [Commands -> Values]]
  BY <1>1 DEF Init, NoRequest
<1>3. device \in [Devices -> [config : Configs \cup {Nothing},
                           cmds : SetsFor("head") \cup SetsFor("simbox") \cup {Nothing}]]
  BY DEF Init
<1>4. updates \in 0..MaxUpdates /\ wire = {} /\ phase = "idle" /\ launch \in LaunchTypes
  BY ControlAssumption DEF Init
<1> QED
  BY <1>1, <1>2, <1>3, <1>4 DEF TypeOK, ParamsType

(* Packets have the types of their fields.                                 *)
LEMMA PacketType ==
  ASSUME ParamsType, NEW dev \in Devices
  PROVE  R2DC(params, dev) \in Configs /\ CommandSet(params, dev) \in SetsFor(dev)
<1>1. \A q \in Devices \X Systems : params.port[q] \in Int
  BY ControlAssumption DEF ParamsType, Parameters, Int32s
<1>2. \A i \in Int : i % PortMod \in 0..PortMod - 1
  BY ControlAssumption
<1>3. SerialField(params.serial[dev]) \in Fields
  BY DEF ParamsType, Parameters, Fields
<1>4. [q \in Devices \X Systems |-> params.port[q] % PortMod]
        \in [Devices \X Systems -> 0..PortMod - 1]
  BY <1>1, <1>2
<1>5. R2DC(params, dev) \in Configs
  <2> DEFINE port == [q \in Devices \X Systems |-> params.port[q] % PortMod]
             id   == [system |-> params.system, ip |-> params.ip, port |-> port]
  <2>1. id \in Content
    BY <1>4 DEF Content, ParamsType, Parameters
  <2>2. R2DC(params, dev) =
          [kind |-> "R2DC", serial |-> SerialField(params.serial[dev]), id |-> id,
           system |-> params.system, ip |-> params.ip, port |-> port]
    BY DEF R2DC, ConfigId
  <2> QED
    BY <1>3, <1>4, <2>1, <2>2 DEF Configs, ParamsType, Parameters
<1>6. <<dev, params.system>> \in Devices \X Systems
  BY DEF ParamsType, Parameters
<1>7. <<dev, params.system>> \in IpNames
  BY <1>6 DEF IpNames
<1>8. CommandAddress(params, dev) \in [ip : IpStrings, port : 0..PortMod - 1]
  BY <1>1, <1>2, <1>6, <1>7 DEF CommandAddress, ParamsType, Parameters
<1>9. ASSUME NEW c \in Sections(dev)
      PROVE  OnWire(c, params.cmd[c]) \in Values
  <2>1. c \in Commands
    BY DEF Commands, Sections, Devices
  <2>2. CASE c \in SimIps \cup HeadFloats
    <3>1. OnWire(c, params.cmd[c]) = params.cmd[c]
      BY <2>2 DEF OnWire
    <3>2. params.cmd \in [Commands -> Values]
      BY DEF ParamsType, Parameters
    <3> QED
      BY <2>1, <3>1, <3>2
  <2>3. CASE c \notin SimIps \cup HeadFloats
    <3>1. c \in SimInts \cup HeadInts
      BY <2>1, <2>3 DEF Commands, Sections
    <3>2. params.cmd[c] \in Int
      BY <3>1, ControlAssumption DEF ParamsType, Parameters, Int32s
    <3>3. params.cmd[c] % IntMod \in Int
      BY <3>2, ControlAssumption
    <3> QED
      BY <2>3, <3>3 DEF OnWire, Values
  <2> QED
    BY <2>2, <2>3
<1>10. CommandSet(params, dev) \in SetsFor(dev)
  BY <1>8, <1>9 DEF CommandSet, SetsFor
<1> QED
  BY <1>5, <1>10

LEMMA TypeNext == TypeOK /\ [Next]_vars => TypeOK'
<1> SUFFICES ASSUME TypeOK, [Next]_vars PROVE TypeOK'
  OBVIOUS
<1>0. ParamsType
  BY DEF TypeOK, ParamsType
<1>1. CASE SetParameters
  <2>0. PICK n \in 1..MaxList : \E todo \in [1..n -> Updates] :
          request' = [todo |-> todo, successful |-> TRUE, proposed |-> store]
    BY <1>1 DEF SetParameters
  <2>1. PICK todo \in [1..n -> Updates] :
          request' = [todo |-> todo, successful |-> TRUE, proposed |-> store]
    BY <2>0
  <2>2. todo \in Seq(Updates)
    BY <2>1
  <2>3. updates' \in 0..MaxUpdates
    BY <1>1, ControlAssumption DEF SetParameters, TypeOK
  <2> QED
    BY <1>1, <2>1, <2>2, <2>3 DEF SetParameters, TypeOK
<1>2. CASE UpdateParameter
  <2> DEFINE u == Head(request.todo)
             v == Converted(u.name, u.value)
  <2>1. request.todo \in Seq(Updates) /\ request.todo # <<>>
    BY <1>2 DEF UpdateParameter, TypeOK
  <2>2. u \in Updates /\ Tail(request.todo) \in Seq(Updates)
    BY <2>1
  <2>3. u.name \in Commands => /\ v \in Values
                               /\ u.name \in SimInts \cup HeadInts => v \in Int32s
                               /\ u.name \in SimIps => v \in IpStrings
    BY <2>2, UpdateType, ConvertedType
  <2>4. ParamsType'
    <3>1. CASE ~Accepts(u)
      BY <1>0, <1>2, <3>1 DEF UpdateParameter, ParamsType
    <3>2. CASE Accepts(u)
      <4>1. u.name \in Commands
        BY <3>2 DEF Accepts
      <4>2. params' = [params EXCEPT !.cmd = [@ EXCEPT ![u.name] = v]]
        BY <1>2, <3>2, <4>1 DEF UpdateParameter, With
      <4>3. SimInts \cup HeadInts \cup SimIps \subseteq Commands
        BY DEF Commands, Sections
      <4>4. params'.cmd = [params.cmd EXCEPT ![u.name] = v]
        BY <4>2, <1>0 DEF ParamsType, Parameters
      <4>5. /\ params'.control = params.control /\ params'.serial = params.serial
            /\ params'.system = params.system /\ params'.ip = params.ip
            /\ params'.port = params.port
        BY <4>2, <1>0 DEF ParamsType, Parameters
      <4> HIDE DEF u, v
      <4>6. params.cmd \in [Commands -> Values]
        BY <1>0 DEF ParamsType, Parameters
      <4>7. params'.cmd \in [Commands -> Values]
        BY <2>3, <4>1, <4>4, <4>6
      <4>8. params' = [params EXCEPT !.cmd = params'.cmd]
        BY <4>2, <4>4
      <4>9. params' \in Parameters
        BY <1>0, <4>7, <4>8 DEF ParamsType, Parameters
      <4> QED
        BY <1>0, <2>3, <4>1, <4>3, <4>4, <4>6, <4>9 DEF ParamsType
    <3> QED
      BY <3>1, <3>2
  <2>5. request' \in [todo : Seq(Updates), successful : BOOLEAN,
                     proposed : [Commands -> Values]]
    <3>1. request' = [todo |-> Tail(request.todo),
                      successful |-> Outcome(request.successful, u),
                      proposed |-> With(request.proposed, u.name, u.value)]
      BY <1>2 DEF UpdateParameter
    <3>2. With(request.proposed, u.name, u.value) \in [Commands -> Values]
      BY <2>2, UpdateType DEF With, TypeOK
    <3>3. Outcome(request.successful, u) \in BOOLEAN
      BY DEF Outcome, Accepts
    <3> HIDE DEF u
    <3> QED
      BY <2>2, <3>1, <3>2, <3>3
  <2>6. UNCHANGED <<launch, store, phase, wire, device, updates>>
    BY <1>2 DEF UpdateParameter
  <2> QED
    BY <2>4, <2>5, <2>6 DEF TypeOK, ParamsType
<1>3. CASE UpdateReturns
  <2>1. store' \in [Commands -> Values]
    BY <1>3 DEF UpdateReturns, TypeOK
  <2> QED
    BY <1>3, <2>1 DEF UpdateReturns, TypeOK
<1>4. CASE TimerFires       BY <1>4 DEF TimerFires, TypeOK
<1>5. CASE ConfigureHead
  <2>1. R2DC(params, "head") \in Configs
    BY <1>0, PacketType DEF Devices
  <2> QED
    BY <1>5, <2>1 DEF ConfigureHead, SendNetworkConfig, TypeOK
<1>6. CASE ConfigureSimbox
  <2>1. R2DC(params, "simbox") \in Configs
    BY <1>0, PacketType DEF Devices
  <2> QED
    BY <1>6, <2>1 DEF ConfigureSimbox, SendNetworkConfig, TypeOK
<1>7. CASE SendSimCmds
  <2>1. CommandSet(params, "simbox") \in SetsFor("simbox")
    BY <1>0, PacketType DEF Devices
  <2> QED
    BY <1>7, <2>1 DEF SendSimCmds, SendCommands, TypeOK
<1>8. CASE SendHeadCmds
  <2>1. CommandSet(params, "head") \in SetsFor("head")
    BY <1>0, PacketType DEF Devices
  <2> QED
    BY <1>8, <2>1 DEF SendHeadCmds, SendCommands, TypeOK
<1>9. CASE InvalidIpThrown  BY <1>9 DEF InvalidIpThrown, TypeOK
<1>10. CASE Lose            BY <1>10 DEF Lose, TypeOK
<1>11. ASSUME NEW dev \in Devices, NEW d \in wire, Deliver(dev, d)
       PROVE  TypeOK'
  <2>1. d \in Configs \cup SetsFor("head") \cup SetsFor("simbox")
    BY DEF TypeOK
  <2>2. wire' \subseteq wire
    BY <1>11 DEF Deliver
  <2>3. device' \in [Devices -> [config : Configs \cup {Nothing},
                              cmds : SetsFor("head") \cup SetsFor("simbox") \cup {Nothing}]]
    <3>1. CASE Adopts(dev, d) /\ device' = [device EXCEPT ![dev].config = d]
      <4>1. d \in Configs
        BY <2>1, <3>1 DEF Adopts, SetsFor
      <4> QED
        BY <3>1, <4>1 DEF TypeOK
    <3>2. CASE Obeys(dev, d) /\ device' = [device EXCEPT ![dev].cmds = d]
      <4>1. d \in SetsFor("head") \cup SetsFor("simbox")
        BY <2>1, <3>2 DEF Obeys, Configs
      <4> QED
        BY <3>2, <4>1 DEF TypeOK
    <3> QED
      BY <1>11, <3>1, <3>2 DEF Deliver
  <2>4. UNCHANGED <<launch, store, params, request, phase, updates>>
    BY <1>11 DEF Deliver
  <2> QED
    BY <2>2, <2>3, <2>4 DEF TypeOK
<1>12. CASE UNCHANGED vars  BY <1>12 DEF vars, TypeOK
<1> QED
  BY <1>1, <1>2, <1>3, <1>4, <1>5, <1>6, <1>7, <1>8, <1>9, <1>10, <1>11, <1>12
  DEF Next, SendCmds

(* Every variable keeps its type, and every integer parameter its width.   *)
THEOREM TypeCorrect == Spec => []TypeOK
BY TypeInit, TypeNext, PTL DEF Spec

-----------------------------------------------------------------------------
(* What is fixed at launch stays so, and requests only improve addresses.  *)

(* A parameter of the callback cannot switch the control mode, nor change  *)
(* anything else but the commands; an address is only replaced by a valid  *)
(* one.                                                                    *)
LEMMA UpdateKeeps ==
  ASSUME TypeOK, UpdateParameter
  PROVE  /\ params'.control = params.control
         /\ params'.ip = params.ip
         /\ \A c \in SimIps : params'.cmd[c] # params.cmd[c] =>
              /\ params'.cmd[c] \in ValidIps
              /\ Accepts(Head(request.todo))
<1> DEFINE u == Head(request.todo)
           v == Converted(u.name, u.value)
<1>1. CASE ~Accepts(u)
  BY <1>1 DEF UpdateParameter
<1>2. CASE Accepts(u)
  <2>1. u.name \in Commands /\ (u.name \in SimIps => v \in ValidIps)
    BY <1>2 DEF Accepts, Converted
  <2>2. params' = [params EXCEPT !.cmd = [@ EXCEPT ![u.name] = v]]
    BY <1>2, <2>1 DEF UpdateParameter, With
  <2>3. params' = [params EXCEPT !.cmd = [params.cmd EXCEPT ![u.name] = v]]
    BY <2>2
  <2>4. SimIps \subseteq Commands
    BY DEF Commands, Sections
  <2>5. params \in Parameters
    BY DEF TypeOK
  <2> HIDE DEF v
  <2>6. params'.control = params.control /\ params'.ip = params.ip
    BY <2>3, <2>5 DEF Parameters
  <2>7. params'.cmd = [params.cmd EXCEPT ![u.name] = v]
    BY <2>3, <2>5 DEF Parameters
  <2> QED
    BY <1>2, <2>1, <2>4, <2>5, <2>6, <2>7 DEF Parameters
<1> QED
  BY <1>1, <1>2

-----------------------------------------------------------------------------
(* A node that is not in control mode is silent.                           *)

ControlInv ==
  /\ params.control => launch.control /\ \A dev \in Devices : launch.serial[dev] # <<>>
  /\ phase \in {"configure head", "configure simbox", "command simbox", "command head"}
       => params.control
  /\ SilentWithoutControl

LEMMA ControlInit == Init => ControlInv
<1> SUFFICES ASSUME Init PROVE ControlInv
  OBVIOUS
<1>1. params.control = ControlMode(launch)
  BY DEF Init, Loaded
<1>2. wire = {} /\ phase = "idle" /\ \A dev \in Devices : device[dev].config = Nothing
  BY DEF Init
<1> QED
  BY <1>1, <1>2 DEF ControlInv, SilentWithoutControl, ControlMode

LEMMA ControlNext == TypeOK /\ ControlInv /\ [Next]_vars => ControlInv'
<1> SUFFICES ASSUME TypeOK, ControlInv, [Next]_vars PROVE ControlInv'
  OBVIOUS
<1> USE DEF ControlInv, SilentWithoutControl
<1>1. CASE SetParameters    BY <1>1 DEF SetParameters
<1>2. CASE UpdateParameter  BY <1>2, UpdateKeeps DEF UpdateParameter
<1>3. CASE UpdateReturns    BY <1>3 DEF UpdateReturns
<1>4. CASE TimerFires       BY <1>4 DEF TimerFires
<1>5. CASE ConfigureHead    BY <1>5 DEF ConfigureHead, SendNetworkConfig
<1>6. CASE ConfigureSimbox  BY <1>6 DEF ConfigureSimbox, SendNetworkConfig
<1>7. CASE SendSimCmds      BY <1>7 DEF SendSimCmds, SendCommands
<1>8. CASE SendHeadCmds     BY <1>8 DEF SendHeadCmds, SendCommands
<1>9. CASE InvalidIpThrown  BY <1>9 DEF InvalidIpThrown
<1>10. CASE Lose            BY <1>10 DEF Lose
<1>11. CASE \E dev \in Devices : \E d \in wire : Deliver(dev, d)
  BY <1>11 DEF Deliver
<1>12. CASE UNCHANGED vars  BY <1>12 DEF vars
<1> QED
  BY <1>1, <1>2, <1>3, <1>4, <1>5, <1>6, <1>7, <1>8, <1>9, <1>10, <1>11, <1>12
  DEF Next, SendCmds

(* Without control mode and both serial numbers nothing is ever sent.      *)
THEOREM SilenceKept == Spec => []SilentWithoutControl
<1>1. ControlInv => SilentWithoutControl
  BY DEF ControlInv
<1> QED
  BY <1>1, TypeCorrect, ControlInit, ControlNext, PTL DEF Spec

-----------------------------------------------------------------------------
(* Addresses.  A kept address that is invalid was so at launch and is what *)
(* the ROS parameters show; and no request brings one in.                  *)

IpInv ==
  /\ \A n \in IpNames : params.ip[n] \notin ValidIps => launch.ip[n] \in BadIps
  /\ \A c \in SimIps : params.cmd[c] \notin ValidIps =>
       /\ store[c] \notin ValidIps
       /\ request.successful => request.proposed[c] \notin ValidIps
  /\ TerminatedByVisibleIp

LEMMA IpInit == Init => IpInv
<1> SUFFICES ASSUME Init PROVE IpInv
  OBVIOUS
<1>1. \A n \in IpNames : params.ip[n] = FixEmptyIp(launch.ip[n])
  BY DEF Init, Loaded
<1>2. \A n \in IpNames : launch.ip[n] \in IpStrings
  BY DEF Init, LaunchTypes
<1>3. \A c \in SimIps : params.cmd[c] = store[c]
  BY DEF Init, Loaded, Converted, Commands, Sections
<1>4. request.proposed = store /\ phase = "idle"
  BY DEF Init, NoRequest
<1> QED
  BY <1>1, <1>2, <1>3, <1>4, NamesAssumption
  DEF IpInv, TerminatedByVisibleIp, FixEmptyIp, IpStrings

LEMMA IpNext == TypeOK /\ IpInv /\ [Next]_vars => IpInv'
<1> SUFFICES ASSUME TypeOK, IpInv, [Next]_vars PROVE IpInv'
  OBVIOUS
<1> USE DEF IpInv, TerminatedByVisibleIp
<1>1. CASE SetParameters    BY <1>1 DEF SetParameters
<1>2. CASE UpdateParameter
  <2> DEFINE u == Head(request.todo)
  <2>1. UNCHANGED <<launch, store, phase>> /\ phase = "updating"
    BY <1>2 DEF UpdateParameter
  <2>2. ASSUME NEW c \in SimIps, params'.cmd[c] \notin ValidIps
        PROVE  /\ store[c] \notin ValidIps
               /\ request'.successful => request'.proposed[c] \notin ValidIps
    <3>1. params'.cmd[c] = params.cmd[c]
      BY <1>2, <2>2, UpdateKeeps
    <3>2. /\ store[c] \notin ValidIps
          /\ request.successful => request.proposed[c] \notin ValidIps
      BY <2>2, <3>1
    <3>3. ASSUME Accepts(u), request.successful
          PROVE  With(request.proposed, u.name, u.value)[c] \notin ValidIps
      <4>1. c \in Commands
        BY DEF Commands, Sections
      <4>2. u.name # c
        <5>1. SUFFICES ASSUME u.name = c PROVE FALSE
          OBVIOUS
        <5>2. u.value \in ValidIps
          BY <3>3, <5>1 DEF Accepts
        <5>3. params' = [params EXCEPT !.cmd = [@ EXCEPT ![c] = u.value]]
          BY <1>2, <3>3, <4>1, <5>1 DEF UpdateParameter, With, Converted
        <5>4. params'.cmd[c] = u.value
          BY <4>1, <5>3 DEF TypeOK, Parameters
        <5> QED
          BY <2>2, <5>2, <5>4
      <4>3. request.proposed \in [Commands -> Values]
        BY DEF TypeOK
      <4> QED
        BY <3>2, <3>3, <4>1, <4>2, <4>3 DEF With
    <3>4. /\ request'.successful = (request.successful /\ Accepts(u))
          /\ request'.proposed = With(request.proposed, u.name, u.value)
      BY <1>2 DEF UpdateParameter, Outcome
    <3> QED
      BY <3>2, <3>3, <3>4
  <2>3. params'.ip = params.ip
    BY <1>2, UpdateKeeps
  <2> QED
    BY <2>1, <2>2, <2>3
<1>3. CASE UpdateReturns    BY <1>3 DEF UpdateReturns
<1>4. CASE TimerFires       BY <1>4 DEF TimerFires
<1>5. CASE ConfigureHead    BY <1>5 DEF ConfigureHead, SendNetworkConfig
<1>6. CASE ConfigureSimbox  BY <1>6 DEF ConfigureSimbox, SendNetworkConfig
<1>7. CASE SendSimCmds      BY <1>7 DEF SendSimCmds, SendCommands
<1>8. CASE SendHeadCmds     BY <1>8 DEF SendHeadCmds, SendCommands
<1>9. CASE InvalidIpThrown
  BY <1>9 DEF InvalidIpThrown, NetworkIsValid, CommandsAreValid
<1>10. CASE Lose            BY <1>10 DEF Lose
<1>11. CASE \E dev \in Devices : \E d \in wire : Deliver(dev, d)
  BY <1>11 DEF Deliver
<1>12. CASE UNCHANGED vars  BY <1>12 DEF vars
<1> QED
  BY <1>1, <1>2, <1>3, <1>4, <1>5, <1>6, <1>7, <1>8, <1>9, <1>10, <1>11, <1>12
  DEF Next, SendCmds

(* A node that ends because of an address has a ROS parameter that shows   *)
(* an invalid one.                                                         *)
THEOREM TerminationExplained == Spec => []TerminatedByVisibleIp
<1>1. IpInv => TerminatedByVisibleIp
  BY DEF IpInv
<1> QED
  BY <1>1, TypeCorrect, IpInit, IpNext, PTL DEF Spec

-----------------------------------------------------------------------------
(* The timer is harmless once every address has been converted.            *)

AddressesAreValid ==
  NetworkIsValid(params) /\ CommandsAreValid(params) /\ phase # "terminated"

TickInv ==
  /\ phase \in {"configure simbox", "command simbox", "command head"}
       => NetworkIsValid(params)
  /\ phase = "command head" => CommandsAreValid(params)

LEMMA TickInit == Init => TickInv
BY DEF Init, TickInv

LEMMA TickNext == TypeOK /\ TickInv /\ [Next]_vars => TickInv'
<1> SUFFICES ASSUME TypeOK, TickInv, [Next]_vars PROVE TickInv'
  OBVIOUS
<1> USE DEF TickInv, NetworkIsValid, CommandsAreValid
<1>1. CASE SetParameters    BY <1>1 DEF SetParameters
<1>2. CASE UpdateParameter  BY <1>2 DEF UpdateParameter
<1>3. CASE UpdateReturns    BY <1>3 DEF UpdateReturns
<1>4. CASE TimerFires       BY <1>4 DEF TimerFires
<1>5. CASE ConfigureHead    BY <1>5 DEF ConfigureHead, SendNetworkConfig
<1>6. CASE ConfigureSimbox  BY <1>6 DEF ConfigureSimbox, SendNetworkConfig
<1>7. CASE SendSimCmds      BY <1>7 DEF SendSimCmds, SendCommands
<1>8. CASE SendHeadCmds     BY <1>8 DEF SendHeadCmds, SendCommands
<1>9. CASE InvalidIpThrown  BY <1>9 DEF InvalidIpThrown
<1>10. CASE Lose            BY <1>10 DEF Lose
<1>11. CASE \E dev \in Devices : \E d \in wire : Deliver(dev, d)
  BY <1>11 DEF Deliver
<1>12. CASE UNCHANGED vars  BY <1>12 DEF vars
<1> QED
  BY <1>1, <1>2, <1>3, <1>4, <1>5, <1>6, <1>7, <1>8, <1>9, <1>10, <1>11, <1>12
  DEF Next, SendCmds

(* Valid addresses stay valid, and with them the node stays alive.         *)
LEMMA AddressesStayValid == TypeOK /\ AddressesAreValid /\ [Next]_vars => AddressesAreValid'
<1> SUFFICES ASSUME TypeOK, AddressesAreValid, [Next]_vars PROVE AddressesAreValid'
  OBVIOUS
<1> USE DEF AddressesAreValid, NetworkIsValid, CommandsAreValid
<1>1. CASE SetParameters    BY <1>1 DEF SetParameters
<1>2. CASE UpdateParameter
  <2>1. phase' # "terminated"
    BY <1>2 DEF UpdateParameter
  <2> QED
    BY <1>2, <2>1, UpdateKeeps
<1>3. CASE UpdateReturns    BY <1>3 DEF UpdateReturns
<1>4. CASE TimerFires       BY <1>4 DEF TimerFires
<1>5. CASE ConfigureHead    BY <1>5 DEF ConfigureHead, SendNetworkConfig
<1>6. CASE ConfigureSimbox  BY <1>6 DEF ConfigureSimbox, SendNetworkConfig
<1>7. CASE SendSimCmds      BY <1>7 DEF SendSimCmds, SendCommands
<1>8. CASE SendHeadCmds     BY <1>8 DEF SendHeadCmds, SendCommands
<1>9. CASE InvalidIpThrown  BY <1>9 DEF InvalidIpThrown
<1>10. CASE Lose            BY <1>10 DEF Lose
<1>11. CASE \E dev \in Devices : \E d \in wire : Deliver(dev, d)
  BY <1>11 DEF Deliver
<1>12. CASE UNCHANGED vars  BY <1>12 DEF vars
<1> QED
  BY <1>1, <1>2, <1>3, <1>4, <1>5, <1>6, <1>7, <1>8, <1>9, <1>10, <1>11, <1>12
  DEF Next, SendCmds

(* After the first commands to the simbox no request can end the process.  *)
THEOREM TickSurvived == Spec => [](phase = "command head" => [](phase # "terminated"))
<1>1. TickInv /\ phase = "command head" => AddressesAreValid
  BY DEF TickInv, AddressesAreValid
<1>2. AddressesAreValid => phase # "terminated"
  BY DEF AddressesAreValid
<1> QED
  BY <1>1, <1>2, TypeCorrect, TickInit, TickNext, AddressesStayValid, PTL DEF Spec

(* Commands under way, or arrived, show that the addresses are valid.      *)
Commanded ==
  \/ \E d \in wire : d.kind = "CMD0"
  \/ \E dev \in Devices : device[dev].cmds # Nothing

CommandedInv == Commanded => AddressesAreValid

LEMMA CommandedNext ==
  TypeOK /\ TickInv /\ CommandedInv /\ [Next]_vars => CommandedInv'
<1> SUFFICES ASSUME TypeOK, TickInv, CommandedInv, [Next]_vars, Commanded'
             PROVE  AddressesAreValid'
  BY DEF CommandedInv
<1>1. CASE Commanded
  BY <1>1, AddressesStayValid DEF CommandedInv
<1>2. CASE ~Commanded
  <2>1. CASE SendSimCmds
    BY <2>1 DEF SendSimCmds, SendCommands, TickInv, AddressesAreValid, NetworkIsValid,
                CommandsAreValid
  <2>2. CASE SendHeadCmds
    BY <2>2 DEF SendHeadCmds, SendCommands, TickInv, AddressesAreValid, NetworkIsValid,
                CommandsAreValid
  <2>3. CASE ConfigureHead
    <3>1. R2DC(params, "head").kind = "R2DC"
      BY DEF R2DC
    <3> QED
      BY <1>2, <2>3, <3>1 DEF ConfigureHead, SendNetworkConfig, Commanded
  <2>4. CASE ConfigureSimbox
    <3>1. R2DC(params, "simbox").kind = "R2DC"
      BY DEF R2DC
    <3> QED
      BY <1>2, <2>4, <3>1 DEF ConfigureSimbox, SendNetworkConfig, Commanded
  <2>5. CASE Lose
    BY <1>2, <2>5 DEF Lose, Commanded
  <2>6. ASSUME NEW dev \in Devices, NEW d \in wire, Deliver(dev, d) PROVE FALSE
    <3>1. d.kind # "CMD0"
      BY <1>2 DEF Commanded
    <3>2. device' = [device EXCEPT ![dev].config = d] /\ wire' = wire \ {d}
      BY <2>6, <3>1 DEF Deliver, Obeys
    <3>3. \A other \in Devices : device'[other].cmds = device[other].cmds
      BY <3>2 DEF TypeOK
    <3> QED
      BY <1>2, <3>2, <3>3 DEF Commanded
  <2>7. CASE SetParameters \/ UpdateParameter \/ UpdateReturns \/ TimerFires
             \/ InvalidIpThrown \/ UNCHANGED vars
    BY <1>2, <2>7 DEF SetParameters, UpdateParameter, UpdateReturns, TimerFires,
                      InvalidIpThrown, vars, Commanded
  <2> QED
    BY <2>1, <2>2, <2>3, <2>4, <2>5, <2>6, <2>7 DEF Next, SendCmds
<1> QED
  BY <1>1, <1>2

(* The timer does not end a process that has commanded a device.           *)
THEOREM CommandedNeverEnds == Spec => []CommandedStaysUp
<1>1. Init => CommandedInv
  BY DEF Init, CommandedInv, Commanded
<1>2. CommandedInv => CommandedStaysUp
  BY DEF CommandedInv, Commanded, AddressesAreValid, CommandedStaysUp
<1> QED
  BY <1>1, <1>2, TypeCorrect, TickInit, TickNext, CommandedNext, PTL DEF Spec

-----------------------------------------------------------------------------
(* What is under way, and what has arrived, is the node's.                 *)

(* Reducing a port before or after adding to it is the same.               *)
LEMMA ModUnique ==
  ASSUME NEW m \in Nat \ {0}, NEW k \in Int, NEW s \in 0..m - 1
  PROVE  (m * k + s) % m = s
BY SMT

LEMMA PortAfterMod ==
  ASSUME NEW i \in Int
  PROVE  ((i % PortMod) + 2) % PortMod = (i + 2) % PortMod
<1> DEFINE m == PortMod
           q == i \div m
           r == i % m
           t == (r + 2) \div m
           s == (r + 2) % m
<1>1. m \in Nat \ {0}
  BY ControlAssumption
<1> HIDE DEF m
<1>2. q \in Int /\ r \in Int /\ i = m * q + r
  BY <1>1, SMT
<1> HIDE DEF q, r
<1>3. t \in Int /\ s \in 0..m - 1 /\ r + 2 = m * t + s
  BY <1>1, <1>2, SMT
<1> HIDE DEF s, t
<1>4. q + t \in Int /\ m * (q + t) = m * q + m * t
  BY <1>1, <1>2, <1>3, SMT
<1>5. m * q \in Int /\ m * t \in Int /\ m * (q + t) \in Int /\ s \in Int
  BY <1>1, <1>2, <1>3, <1>4, SMT
<1>6. i + 2 = m * (q + t) + s
  BY <1>2, <1>3, <1>4, <1>5
<1>7. (m * (q + t) + s) % m = s
  BY <1>1, <1>3, <1>4, ModUnique
<1> QED
  BY <1>6, <1>7 DEF m, r, s

Ports16(p) == [q \in Devices \X Systems |-> p.port[q] % PortMod]

ConfigOf(p, d) ==
  /\ d.id = [system |-> p.system, ip |-> p.ip, port |-> Ports16(p)]
  /\ d.system = p.system
  /\ d.ip = p.ip
  /\ d.port = Ports16(p)

CommandsOf(p, d) ==
  \E dev \in Devices : d.to = CommandAddress(p, dev) /\ DOMAIN d.cmds = Sections(dev)

MailInv ==
  /\ \A d \in wire : d.kind = "R2DC" => ConfigOf(params, d)
  /\ \A d \in wire : d.kind = "CMD0" => CommandsOf(params, d)
  /\ \A dev \in Devices :
       device[dev].config # Nothing => ConfigOf(params, device[dev].config)
  /\ CommandsKeptApart

(* A device listens where the node sends the commands for it, once it has  *)
(* adopted the configuration.                                              *)
LEMMA ListensWhereSent ==
  ASSUME TypeOK, NEW c, ConfigOf(params, c), NEW dev \in Devices
  PROVE  /\ ListensAt(c, dev) = CommandAddress(params, dev)
         /\ ListensAt(params, dev) = CommandAddress(params, dev)
<1>1. <<dev, params.system>> \in Devices \X Systems
  BY DEF TypeOK, Parameters
<1>2. params.port[<<dev, params.system>>] \in Int
  <2>1. params.port \in [Devices \X Systems -> Int32s]
    BY DEF TypeOK, Parameters
  <2>2. Int32s \subseteq Int
    BY ControlAssumption DEF Int32s
  <2> QED
    BY <1>1, <2>1, <2>2
<1>3. c.port[<<dev, params.system>>] = params.port[<<dev, params.system>>] % PortMod
  BY <1>1 DEF ConfigOf, Ports16
<1> QED
  BY <1>2, <1>3, PortAfterMod DEF ListensAt, CommandAddress, ConfigOf

LEMMA MailInit == Init => MailInv
BY DEF Init, MailInv, CommandsKeptApart

(* The network parameters are those of the launch.                         *)
LEMMA NetworkKept ==
  ASSUME TypeOK, UpdateParameter
  PROVE  /\ params'.system = params.system
         /\ params'.ip = params.ip
         /\ params'.port = params.port
<1> DEFINE u == Head(request.todo)
           cmd == With(params.cmd, u.name, Converted(u.name, u.value))
<1>1. params' = params \/ params' = [params EXCEPT !.cmd = cmd]
  BY DEF UpdateParameter
<1> HIDE DEF cmd
<1> QED
  BY <1>1 DEF TypeOK, Parameters

(* Where the network parameters stay, all that is said of them stays.      *)
LEMMA SameNetwork ==
  ASSUME params'.system = params.system, params'.ip = params.ip, params'.port = params.port
  PROVE  /\ \A d : ConfigOf(params', d) <=> ConfigOf(params, d)
         /\ \A d : CommandsOf(params', d) <=> CommandsOf(params, d)
         /\ \A dev : ListensAt(params', dev) = ListensAt(params, dev)
<1>1. Ports16(params') = Ports16(params)
  BY DEF Ports16
<1>2. \A dev : CommandAddress(params', dev) = CommandAddress(params, dev)
  BY DEF CommandAddress
<1> QED
  BY <1>1, <1>2 DEF ConfigOf, CommandsOf, ListensAt

LEMMA MailNext == TypeOK /\ MailInv /\ [Next]_vars => MailInv'
<1> SUFFICES ASSUME TypeOK, MailInv, [Next]_vars PROVE MailInv'
  OBVIOUS
<1>1. ASSUME UNCHANGED <<params, device>>, wire' \subseteq wire PROVE MailInv'
  BY <1>1 DEF MailInv, CommandsKeptApart
<1>2. CASE UpdateParameter
  <2>1. /\ params'.system = params.system
        /\ params'.ip = params.ip
        /\ params'.port = params.port
    BY <1>2, NetworkKept
  <2>2. UNCHANGED <<wire, device>>
    BY <1>2 DEF UpdateParameter
  <2> QED
    BY <2>1, <2>2, SameNetwork DEF MailInv, CommandsKeptApart
<1>3. ASSUME NEW d, NEW dev \in Devices, UNCHANGED <<params, device>>,
             wire' \subseteq wire \cup {d},
             d = R2DC(params, dev) \/ d = CommandSet(params, dev)
      PROVE  MailInv'
  <2>1. d.kind = "R2DC" => ConfigOf(params, d)
    BY <1>3 DEF R2DC, ConfigId, CommandSet, ConfigOf, Ports16
  <2>2. d.kind = "CMD0" => CommandsOf(params, d)
    BY <1>3 DEF R2DC, CommandSet, CommandsOf
  <2> QED
    BY <1>3, <2>1, <2>2 DEF MailInv, CommandsKeptApart
<1>4. CASE ConfigureHead
  BY <1>3, <1>4 DEF ConfigureHead, SendNetworkConfig, Devices
<1>5. CASE ConfigureSimbox
  BY <1>3, <1>5 DEF ConfigureSimbox, SendNetworkConfig, Devices
<1>6. CASE SendSimCmds
  BY <1>3, <1>6 DEF SendSimCmds, SendCommands, Devices
<1>7. CASE SendHeadCmds
  BY <1>3, <1>7 DEF SendHeadCmds, SendCommands, Devices
<1>8. CASE SetParameters \/ UpdateReturns \/ TimerFires \/ InvalidIpThrown \/ Lose
           \/ UNCHANGED vars
  BY <1>1, <1>8 DEF SetParameters, UpdateReturns, TimerFires, InvalidIpThrown, Lose, vars
<1>9. ASSUME NEW dev \in Devices, NEW d \in wire, Deliver(dev, d) PROVE MailInv'
  <2>1. UNCHANGED params /\ wire' \subseteq wire
    BY <1>9 DEF Deliver
  <2>2. CASE Adopts(dev, d) /\ device' = [device EXCEPT ![dev].config = d]
    <3>1. ConfigOf(params, d)
      BY <2>2 DEF Adopts, MailInv
    <3>2. /\ device'[dev].config = d
          /\ \A other \in Devices : other # dev => device'[other].config = device[other].config
          /\ \A other \in Devices : device'[other].cmds = device[other].cmds
      BY <2>2 DEF TypeOK
    <3> QED
      BY <2>1, <3>1, <3>2 DEF MailInv, CommandsKeptApart
  <2>3. CASE Obeys(dev, d) /\ device' = [device EXCEPT ![dev].cmds = d]
    <3>1. PICK sender \in Devices :
            d.to = CommandAddress(params, sender) /\ DOMAIN d.cmds = Sections(sender)
      BY <2>3 DEF Obeys, MailInv, CommandsOf
    <3>2. ConfigOf(params, device[dev].config)
      BY <2>3 DEF Obeys, MailInv
    <3>3. ListensAt(params, dev) = ListensAt(params, sender)
      BY <2>3, <3>1, <3>2, ListensWhereSent DEF Obeys
    <3>4. ListensAt(params, "head") # ListensAt(params, "simbox") =>
            DOMAIN d.cmds = Sections(dev)
      BY <3>1, <3>3 DEF Devices
    <3>5. /\ device'[dev].cmds = d
          /\ \A other \in Devices : other # dev => device'[other].cmds = device[other].cmds
          /\ \A other \in Devices : device'[other].config = device[other].config
      BY <2>3 DEF TypeOK
    <3>6. CommandsKeptApart'
      BY <2>1, <3>4, <3>5 DEF MailInv, CommandsKeptApart, ListensAt
    <3> QED
      BY <2>1, <3>5, <3>6 DEF MailInv
  <2> QED
    BY <1>9, <2>2, <2>3 DEF Deliver
<1> QED
  BY <1>2, <1>4, <1>5, <1>6, <1>7, <1>8, <1>9 DEF Next, SendCmds

(* Devices at two addresses each obey their own commands.                  *)
THEOREM CommandsStayApart == Spec => []CommandsKeptApart
<1>1. MailInv => CommandsKeptApart
  BY DEF MailInv
<1> QED
  BY <1>1, TypeCorrect, MailInit, MailNext, PTL DEF Spec

(* The devices agree on the identifier of their configuration.             *)
THEOREM ConfigurationAgreed == Spec => []OneConfiguration
<1>1. MailInv => OneConfiguration
  BY DEF MailInv, OneConfiguration, ConfigOf
<1> QED
  BY <1>1, TypeCorrect, MailInit, MailNext, PTL DEF Spec

-----------------------------------------------------------------------------
(* Requests of one parameter.  With more, a request refused in part has    *)
(* changed what is sent: the run control_partial shows it.                 *)

Mirrors(cmd) == \A c \in Commands : params.cmd[c] = Converted(c, cmd[c])

MirrorInv ==
  /\ phase # "updating" => Mirrors(store)
  /\ phase = "updating" /\ request.todo # <<>> =>
       /\ Len(request.todo) = 1 /\ request.successful
       /\ request.proposed = store /\ Mirrors(store)
  /\ phase = "updating" /\ request.todo = <<>> =>
       Mirrors(IF request.successful THEN request.proposed ELSE store)

LEMMA MirrorInit == Init => MirrorInv
BY DEF Init, MirrorInv, Mirrors, Loaded

LEMMA MirrorNext ==
  ASSUME MaxList <= 1
  PROVE  TypeOK /\ MirrorInv /\ [Next]_vars => MirrorInv'
<1> SUFFICES ASSUME TypeOK, MirrorInv, [Next]_vars PROVE MirrorInv'
  OBVIOUS
<1>1. CASE SetParameters
  <2>1. PICK n \in 1..MaxList : \E todo \in [1..n -> Updates] :
          request' = [todo |-> todo, successful |-> TRUE, proposed |-> store]
    BY <1>1 DEF SetParameters
  <2>2. PICK todo \in [1..n -> Updates] :
          request' = [todo |-> todo, successful |-> TRUE, proposed |-> store]
    BY <2>1
  <2>3. n = 1
    BY ControlAssumption
  <2>4. Len(todo) = 1 /\ todo # <<>>
    BY <2>2, <2>3
  <2>5. Mirrors(store) /\ UNCHANGED <<store, params>> /\ phase' = "updating"
    BY <1>1 DEF SetParameters, MirrorInv
  <2> QED
    BY <2>2, <2>4, <2>5 DEF MirrorInv, Mirrors
<1>2. CASE UpdateParameter
  <2> DEFINE u == Head(request.todo)
             v == Converted(u.name, u.value)
  <2>1. /\ phase' = "updating" /\ UNCHANGED store /\ Mirrors(store)
        /\ request.proposed = store /\ Len(request.todo) = 1 /\ request.successful
        /\ request.todo \in Seq(Updates)
    BY <1>2 DEF UpdateParameter, MirrorInv, TypeOK
  <2>2. /\ request'.todo = Tail(request.todo)
        /\ request'.successful = Outcome(request.successful, u)
        /\ request'.proposed = With(store, u.name, u.value)
    BY <1>2, <2>1 DEF UpdateParameter
  <2>3. request'.todo = <<>>
    <3>1. Tail(request.todo) \in Seq(Updates) /\ Len(Tail(request.todo)) = 0
      BY <2>1
    <3>2. \A q \in Seq(Updates) : Len(q) = 0 => q = <<>>
      OBVIOUS
    <3> QED
      BY <2>2, <3>1, <3>2
  <2>4. CASE ~Accepts(u)
    <3>1. UNCHANGED params /\ ~request'.successful
      BY <1>2, <2>2, <2>4 DEF UpdateParameter, Outcome
    <3> QED
      BY <2>1, <2>3, <3>1 DEF MirrorInv, Mirrors
  <2>5. CASE Accepts(u)
    <3>1. u.name \in Commands
      BY <2>5 DEF Accepts
    <3>2. params' = [params EXCEPT !.cmd = [params.cmd EXCEPT ![u.name] = v]]
      BY <1>2, <2>5, <3>1 DEF UpdateParameter, With
    <3>7. request'.successful
      BY <2>1, <2>2, <2>5, <1>2 DEF Outcome, MirrorInv
    <3> HIDE DEF u, v
    <3>3. params.cmd \in [Commands -> Values] /\ store \in [Commands -> Values]
      BY DEF TypeOK, Parameters
    <3>4. params'.cmd = [params.cmd EXCEPT ![u.name] = v]
      BY <3>2 DEF TypeOK, Parameters
    <3>5. With(store, u.name, u.value) = [store EXCEPT ![u.name] = u.value]
      BY <3>1 DEF With
    <3>6. \A c \in Commands :
            params'.cmd[c] = Converted(c, [store EXCEPT ![u.name] = u.value][c])
      <4> SUFFICES ASSUME NEW c \in Commands
                   PROVE  params'.cmd[c] = Converted(c, [store EXCEPT ![u.name] = u.value][c])
        OBVIOUS
      <4>1. CASE c = u.name
        BY <3>3, <3>4, <4>1 DEF v
      <4>2. CASE c # u.name
        BY <2>1, <3>3, <3>4, <4>2 DEF Mirrors
      <4> QED
        BY <4>1, <4>2
    <3> QED
      BY <2>1, <2>2, <2>3, <3>7, <3>5, <3>6 DEF MirrorInv, Mirrors
  <2> QED
    BY <2>4, <2>5
<1>3. CASE UpdateReturns
  BY <1>3 DEF UpdateReturns, MirrorInv, Mirrors
<1>4. CASE TimerFires       BY <1>4 DEF TimerFires, MirrorInv, Mirrors
<1>5. CASE ConfigureHead    BY <1>5 DEF ConfigureHead, SendNetworkConfig, MirrorInv, Mirrors
<1>6. CASE ConfigureSimbox  BY <1>6 DEF ConfigureSimbox, SendNetworkConfig, MirrorInv, Mirrors
<1>7. CASE SendSimCmds      BY <1>7 DEF SendSimCmds, SendCommands, MirrorInv, Mirrors
<1>8. CASE SendHeadCmds     BY <1>8 DEF SendHeadCmds, SendCommands, MirrorInv, Mirrors
<1>9. CASE InvalidIpThrown  BY <1>9 DEF InvalidIpThrown, MirrorInv, Mirrors
<1>10. CASE Lose            BY <1>10 DEF Lose, MirrorInv, Mirrors
<1>11. CASE \E dev \in Devices : \E d \in wire : Deliver(dev, d)
  BY <1>11 DEF Deliver, MirrorInv, Mirrors
<1>12. CASE UNCHANGED vars  BY <1>12 DEF vars, MirrorInv, Mirrors
<1> QED
  BY <1>1, <1>2, <1>3, <1>4, <1>5, <1>6, <1>7, <1>8, <1>9, <1>10, <1>11, <1>12
  DEF Next, SendCmds

(* As long as a request sets at most one parameter, what is sent is what   *)
(* the ROS parameters say, whether the request is accepted or refused.     *)
THEOREM SingleRequestsMirrored ==
  ASSUME MaxList <= 1
  PROVE  Spec => []CommandsMirrorStore
<1>1. TypeOK /\ MirrorInv /\ [Next]_vars => MirrorInv'
  BY MirrorNext
<1>2. MirrorInv => CommandsMirrorStore
  BY DEF MirrorInv, Mirrors, CommandsMirrorStore
<1> QED
  BY <1>1, <1>2, TypeCorrect, MirrorInit, PTL DEF Spec
=============================================================================
