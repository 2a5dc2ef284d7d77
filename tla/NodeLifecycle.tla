---------------------------- MODULE NodeLifecycle ----------------------------
(***************************************************************************)
(* The threads of the driver process, from start to exit: main, which      *)
(* starts one thread per UdpReceiver, spins the node, then stops and joins *)
(* the receivers; and each receiver, which retries to bind its port, arms  *)
(* an asynchronous receive on its one buffer and runs its io_context.      *)
(*                                                                         *)
(* Receiver i is the i-th thread of main: 1 is the BTH0 receiver, 2 the    *)
(* AID0 receiver, 3 the receiver of the command port.  What a handler does *)
(* with a datagram is left to AidAssembly; here it takes one step between  *)
(* the call of receiveImpl and its return.                                 *)
(***************************************************************************)
EXTENDS Integers, Sequences

CONSTANTS
  N,             \* number of receivers, 3 in the code
  Interfaces,    \* network interfaces of the host
  AnyInterface,  \* the address 0.0.0.0
  InterfaceIp,   \* parameter sonar.interface_ip
  MaxDatagrams,  \* bound on the datagrams that reach a port
  SocketBuffer,  \* datagrams the kernel queues for a socket
  ReceiveErrors  \* TRUE if a receive may complete with an error

Receivers == 1..N
Unbound   == "unbound"   \* the address of a socket that is not bound

ASSUME NodeAssumption ==
  /\ N \in Nat \ {0}
  /\ AnyInterface \notin Interfaces
  /\ Unbound \notin Interfaces \cup {AnyInterface}
  /\ InterfaceIp \in Interfaces \cup {AnyInterface}
  /\ MaxDatagrams \in Nat
  /\ SocketBuffer \in Nat \ {0}
  /\ ReceiveErrors \in BOOLEAN

VARIABLES
  ok,        \* rclcpp::ok()
  main,      \* where main() is
  cursor,    \* the receiver main() starts, stops or joins next
  pc,        \* where the thread of each receiver is
  portHeld,  \* whether another process has the receiver's port
  address,   \* what the receiver's socket is bound to
  stopped,   \* whether stop() was called on the receiver's io_context
  receive,   \* the asynchronous receive: none, armed, ready or failed
  queue,     \* datagrams in the socket buffer
  buffer,    \* the datagram whose bytes are in recv_buffer_
  current,   \* the datagram the handler was last called for
  arrived,   \* how many datagrams reached the port
  broken     \* whether the handler was called with an error

mainVars   == <<main, cursor>>
threadVars == <<pc, address, current, broken>>
kernelVars == <<portHeld, queue, arrived>>
vars == <<ok, main, cursor, pc, portHeld, address, stopped, receive, queue,
          buffer, current, arrived, broken>>

NoDatagram == [no |-> 0, via |-> AnyInterface]
Datagrams  == [no : 1..MaxDatagrams, via : Interfaces]

(***************************************************************************)
(* The kernel and the other processes of the host (outside the program).   *)
(***************************************************************************)
TakePort(r) ==
  /\ ~portHeld[r]
  /\ address[r] = Unbound
  /\ portHeld' = [portHeld EXCEPT ![r] = TRUE]
  /\ UNCHANGED <<ok, mainVars, threadVars, stopped, receive, queue, buffer, arrived>>

FreePort(r) ==
  /\ portHeld[r]
  /\ portHeld' = [portHeld EXCEPT ![r] = FALSE]
  /\ UNCHANGED <<ok, mainVars, threadVars, stopped, receive, queue, buffer, arrived>>

Accepts(r, via) == address[r] \in {AnyInterface, via}

Arrive(r, via) ==
  /\ arrived[r] < MaxDatagrams
  /\ Accepts(r, via)
  /\ arrived' = [arrived EXCEPT ![r] = @ + 1]
  /\ queue' = IF Len(queue[r]) < SocketBuffer
              THEN [queue EXCEPT ![r] =
                      Append(@, [no |-> arrived[r] + 1, via |-> via])]
              ELSE queue
  /\ UNCHANGED <<ok, mainVars, threadVars, portHeld, stopped, receive, buffer>>

(* An armed receive may complete at any time: the buffer is its to write.  *)
Complete(r) ==
  /\ receive[r] = "armed"
  /\ queue[r] # <<>>
  /\ buffer' = [buffer EXCEPT ![r] = Head(queue[r])]
  /\ queue' = [queue EXCEPT ![r] = Tail(@)]
  /\ receive' = [receive EXCEPT ![r] = "ready"]
  /\ UNCHANGED <<ok, mainVars, threadVars, portHeld, stopped, arrived>>

CompleteWithError(r) ==
  /\ ReceiveErrors
  /\ receive[r] = "armed"
  /\ receive' = [receive EXCEPT ![r] = "failed"]
  /\ UNCHANGED <<ok, mainVars, threadVars, kernelVars, stopped, buffer>>

(* SIGINT: the handler rclcpp::init installs shuts the context down.       *)
Interrupt ==
  /\ ok
  /\ ok' = FALSE
  /\ UNCHANGED <<mainVars, threadVars, kernelVars, stopped, receive, buffer>>

(***************************************************************************)
(* main().  Where a definition is preceded by another with the same        *)
(* parameters, that one is the same code with a plausible mistake, kept to *)
(* show that a property notices (PROJECT.json, "mutants").                 *)
(***************************************************************************)
AtPastLast == cursor > N
AtLast == cursor = N

StartThread ==
  /\ main = "starting"
  /\ pc' = [pc EXCEPT ![cursor] = "open"]
  /\ IF AtLast
     THEN main' = "spinning" /\ cursor' = cursor
     ELSE main' = main /\ cursor' = cursor + 1
  /\ UNCHANGED <<ok, kernelVars, address, stopped, receive, buffer, current, broken>>

(* spin() returns when the context is shut down, and then shutdown().      *)
SpinReturns ==
  /\ main = "spinning"
  /\ ~ok
  /\ main' = "stopping"
  /\ cursor' = 1
  /\ UNCHANGED <<ok, threadVars, kernelVars, stopped, receive, buffer>>

(* io_context::stop() leaves a mark that also ends a run() called later.   *)
StoppedIfRunning(r) ==
  [stopped EXCEPT ![r] = pc[r] \in {"run", "handle"}]
Stopped(r) == [stopped EXCEPT ![r] = TRUE]

StopReceiver ==
  /\ main = "stopping"
  /\ stopped' = Stopped(cursor)
  /\ IF AtLast
     THEN main' = "joining" /\ cursor' = 1
     ELSE main' = main /\ cursor' = cursor + 1
  /\ UNCHANGED <<ok, threadVars, kernelVars, receive, buffer>>

JoinableAlways(r) == TRUE
Joinable(r) == pc[r] = "done"

JoinThread ==
  /\ main = "joining"
  /\ Joinable(cursor)
  /\ IF AtLast
     THEN main' = "exited" /\ cursor' = cursor
     ELSE main' = main /\ cursor' = cursor + 1
  /\ UNCHANGED <<ok, threadVars, kernelVars, stopped, receive, buffer>>

Main == StartThread \/ SpinReturns \/ StopReceiver \/ JoinThread

(***************************************************************************)
(* UdpReceiver::receive, in the thread of receiver r.                      *)
(***************************************************************************)
Goto(r, from, to) ==
  /\ pc[r] = from
  /\ pc' = [pc EXCEPT ![r] = to]

(* wait(): an asynchronous receive into recv_buffer_ is outstanding.       *)
Armed(r) == [receive EXCEPT ![r] = "armed"]

OpenSocket(r) ==
  /\ Goto(r, "open", "loop")
  /\ UNCHANGED <<ok, mainVars, kernelVars, address, stopped, receive, buffer,
                 current, broken>>

(* The condition of the retry loop.                                        *)
WhileOk(r) ==
  /\ \/ ok  /\ Goto(r, "loop", "bind")
     \/ ~ok /\ Goto(r, "loop", "check")
  /\ UNCHANGED <<ok, mainVars, kernelVars, address, stopped, receive, buffer,
                 current, broken>>

(* local_endpoint takes every IPv4 interface, whatever the host argument.  *)
LocalEndpoint == AnyInterface

BindSucceeds(r) ==
  /\ ~portHeld[r]
  /\ Goto(r, "bind", "check")
  /\ address' = [address EXCEPT ![r] = LocalEndpoint]
  /\ UNCHANGED <<ok, mainVars, kernelVars, stopped, receive, buffer, current, broken>>

(* A failed bind sleeps for a second and goes back to the loop condition.  *)
AfterFailedBindGiveUp == "check"
AfterFailedBind == "loop"

BindFails(r) ==
  /\ portHeld[r]
  /\ Goto(r, "bind", AfterFailedBind)
  /\ UNCHANGED <<ok, mainVars, kernelVars, address, stopped, receive, buffer,
                 current, broken>>

CheckShutdown(r) ==
  /\ \/ ~ok /\ Goto(r, "check", "done")
     \/ ok  /\ Goto(r, "check", "wait")
  /\ UNCHANGED <<ok, mainVars, kernelVars, address, stopped, receive, buffer,
                 current, broken>>

Wait(r) ==
  /\ Goto(r, "wait", "run")
  /\ receive' = Armed(r)
  /\ UNCHANGED <<ok, mainVars, kernelVars, address, stopped, buffer, current, broken>>

(* run() calls the handler of a completed receive unless it was stopped.   *)
ArmedBeforeHandling(r) == Armed(r)
Disarmed(r) == [receive EXCEPT ![r] = "none"]

Dispatch(r) ==
  /\ ~stopped[r]
  /\ receive[r] = "ready"
  /\ Goto(r, "run", "handle")
  /\ receive' = Disarmed(r)
  /\ current' = [current EXCEPT ![r] = buffer[r]]
  /\ UNCHANGED <<ok, mainVars, kernelVars, address, stopped, buffer, broken>>

(* With an error the handler returns without a further wait().             *)
DispatchError(r) ==
  /\ ~stopped[r]
  /\ receive[r] = "failed"
  /\ pc[r] = "run"
  /\ receive' = Disarmed(r)
  /\ broken' = [broken EXCEPT ![r] = TRUE]
  /\ UNCHANGED <<ok, mainVars, kernelVars, pc, address, stopped, buffer, current>>

(* receiveImpl() returns and the handler ends with wait().                 *)
NotRearmed(r) == receive
Rearmed(r) == Armed(r)

HandlerReturns(r) ==
  /\ Goto(r, "handle", "run")
  /\ receive' = Rearmed(r)
  /\ UNCHANGED <<ok, mainVars, kernelVars, address, stopped, buffer, current, broken>>

(* run() returns once it was stopped, or when there is no work left.       *)
RunReturns(r) ==
  /\ stopped[r] \/ receive[r] = "none"
  /\ Goto(r, "run", "done")
  /\ UNCHANGED <<ok, mainVars, kernelVars, address, stopped, receive, buffer,
                 current, broken>>

Thread(r) ==
  \/ OpenSocket(r)
  \/ WhileOk(r)
  \/ BindSucceeds(r)
  \/ BindFails(r)
  \/ CheckShutdown(r)
  \/ Wait(r)
  \/ Dispatch(r)
  \/ DispatchError(r)
  \/ HandlerReturns(r)
  \/ RunReturns(r)

Kernel(r) ==
  \/ TakePort(r)
  \/ FreePort(r)
  \/ \E via \in Interfaces : Arrive(r, via)
  \/ Complete(r)
  \/ CompleteWithError(r)

Init ==
  /\ ok = TRUE
  /\ main = "starting"
  /\ cursor = 1
  /\ pc = [r \in Receivers |-> "unborn"]
  /\ portHeld \in [Receivers -> BOOLEAN]
  /\ address = [r \in Receivers |-> Unbound]
  /\ stopped = [r \in Receivers |-> FALSE]
  /\ receive = [r \in Receivers |-> "none"]
  /\ queue = [r \in Receivers |-> <<>>]
  /\ buffer = [r \in Receivers |-> NoDatagram]
  /\ current = [r \in Receivers |-> NoDatagram]
  /\ arrived = [r \in Receivers |-> 0]
  /\ broken = [r \in Receivers |-> FALSE]

Next ==
  \/ Interrupt
  \/ Main
  \/ \E r \in Receivers : Thread(r) \/ Kernel(r)

Spec == Init /\ [][Next]_vars

(* The operating system runs every thread that can run and delivers what   *)
(* it has queued.  Signals, datagrams, errors and ports are owed by nobody.*)
FairSpec ==
  /\ Spec
  /\ WF_vars(Main)
  /\ \A r \in Receivers : WF_vars(Thread(r)) /\ WF_vars(Complete(r))

(***************************************************************************)
(* Properties.                                                             *)
(***************************************************************************)

(* Every variable has its type; the cursor of main stays on a receiver.    *)
TypeOK ==
  /\ ok \in BOOLEAN
  /\ main \in {"starting", "spinning", "stopping", "joining", "exited"}
  /\ cursor \in Receivers
  /\ pc \in [Receivers -> {"unborn", "open", "loop", "bind", "check", "wait",
                           "run", "handle", "done"}]
  /\ portHeld \in [Receivers -> BOOLEAN]
  /\ address \in [Receivers -> {Unbound, AnyInterface} \cup Interfaces]
  /\ stopped \in [Receivers -> BOOLEAN]
  /\ receive \in [Receivers -> {"none", "armed", "ready", "failed"}]
  /\ queue \in [Receivers -> Seq(Datagrams)]
  /\ buffer \in [Receivers -> Datagrams \cup {NoDatagram}]
  /\ current \in [Receivers -> Datagrams \cup {NoDatagram}]
  /\ arrived \in [Receivers -> 0..MaxDatagrams]
  /\ broken \in [Receivers -> BOOLEAN]

(* While receiveImpl reads recv_buffer_ the kernel does not write it: the  *)
(* next receive is armed only after receiveImpl has returned.              *)
BufferStable ==
  \A r \in Receivers : pc[r] = "handle" => buffer[r] = current[r]

(* When main returns and destroys the node and the receivers, no thread is *)
(* left that could use them.                                               *)
NoThreadOutlivesMain ==
  main = "exited" => \A r \in Receivers : pc[r] = "done"

(* A receiver thread ends for two reasons only: the node is shut down, or  *)
(* its handler got an error.  Until then it never runs its io_context with *)
(* no receive outstanding or on a socket that is not bound.                *)
ListensUntilShutdown ==
  \A r \in Receivers :
    ok /\ ~broken[r] =>
      /\ pc[r] # "done"
      /\ pc[r] = "run" => receive[r] # "none" /\ address[r] # Unbound

(* Once the node is interrupted the process ends, wherever main and the    *)
(* receivers are: waiting for a port, about to run, handling a datagram.   *)
ShutdownCompletes == ~ok ~> main = "exited"

(* A receiver whose port is free for good gets to listen on it, unless the *)
(* node is shut down before, however often the bind failed until then.     *)
Listening(r) == pc[r] = "run" /\ address[r] # Unbound

EventuallyListens ==
  \A r \in Receivers : <>[](~portHeld[r]) => <>(Listening(r) \/ ~ok)

(* What the socket buffer took is handled, unless the node is shut down or *)
(* the receiver had an error.                                              *)
EveryDatagramHandled ==
  \A r \in Receivers, n \in 1..MaxDatagrams :
    (\E i \in DOMAIN queue[r] : queue[r][i].no = n)
      ~> (current[r].no >= n \/ ~ok \/ broken[r])

(* r2sonic_node.hpp calls sonar.interface_ip "the interface you want to    *)
(* listen on (0.0.0.0 to listen on all)", hence nothing that came over     *)
(* another one is handled.                                                 *)
ListensOnInterface ==
  \A r \in Receivers :
    current[r] # NoDatagram /\ InterfaceIp # AnyInterface
      => current[r].via = InterfaceIp
=============================================================================
