------------------------- MODULE NodeLifecycle_proofs -------------------------
(***************************************************************************)
(* Proofs of the safety properties of NodeLifecycle, for any number of     *)
(* receivers, any socket buffer and any number of datagrams.               *)
(***************************************************************************)
EXTENDS NodeLifecycle, TLAPS

(***************************************************************************)
(* The inductive invariant.  BufferStable holds because no receive is      *)
(* outstanding while a handler runs; ListensUntilShutdown because main     *)
(* stops an io_context only after the context was shut down, and because   *)
(* the code behind the retry loop is reached with an unbound socket only   *)
(* after shutdown; NoThreadOutlivesMain because main joins every thread.   *)
(***************************************************************************)
NoReceiveInHandler ==
  \A r \in Receivers : pc[r] = "handle" => receive[r] = "none"

StopsAfterShutdown ==
  /\ main \in {"stopping", "joining", "exited"} => ~ok
  /\ \A r \in Receivers : stopped[r] => ~ok

BoundBehindLoop ==
  \A r \in Receivers :
    ok /\ pc[r] \in {"check", "wait", "run", "handle"} => address[r] # Unbound

JoinedUpToCursor ==
  main = "joining" => \A r \in 1..cursor - 1 : pc[r] = "done"

SafetyInv ==
  /\ TypeOK
  /\ NoReceiveInHandler
  /\ BufferStable
  /\ StopsAfterShutdown
  /\ BoundBehindLoop
  /\ ListensUntilShutdown
  /\ JoinedUpToCursor
  /\ NoThreadOutlivesMain

USE DEF Receivers

-----------------------------------------------------------------------------
(* Type correctness.                                                       *)

LEMMA TypeInit == Init => TypeOK
BY NodeAssumption DEF Init, TypeOK, NoDatagram

LEMMA TypeThread ==
  ASSUME TypeOK, NEW r \in Receivers, Thread(r)
  PROVE  TypeOK'
<1> USE DEF TypeOK, Goto, Armed, Disarmed, Rearmed, LocalEndpoint, AfterFailedBind,
            mainVars, kernelVars
<1>1. CASE OpenSocket(r)      BY <1>1 DEF OpenSocket
<1>2. CASE WhileOk(r)         BY <1>2 DEF WhileOk
<1>3. CASE BindSucceeds(r)    BY <1>3 DEF BindSucceeds
<1>4. CASE BindFails(r)       BY <1>4 DEF BindFails
<1>5. CASE CheckShutdown(r)   BY <1>5 DEF CheckShutdown
<1>6. CASE Wait(r)            BY <1>6 DEF Wait
<1>7. CASE Dispatch(r)        BY <1>7 DEF Dispatch
<1>8. CASE DispatchError(r)   BY <1>8 DEF DispatchError
<1>9. CASE HandlerReturns(r)  BY <1>9 DEF HandlerReturns
<1>10. CASE RunReturns(r)     BY <1>10 DEF RunReturns
<1> QED
  BY <1>1, <1>2, <1>3, <1>4, <1>5, <1>6, <1>7, <1>8, <1>9, <1>10 DEF Thread

LEMMA TypeKernel ==
  ASSUME TypeOK, NEW r \in Receivers, Kernel(r)
  PROVE  TypeOK'
<1> USE DEF TypeOK, mainVars, threadVars, kernelVars
<1>1. CASE TakePort(r)           BY <1>1 DEF TakePort
<1>2. CASE FreePort(r)           BY <1>2 DEF FreePort
<1>3. ASSUME NEW via \in Interfaces, Arrive(r, via) PROVE TypeOK'
  <2>1. arrived' \in [Receivers -> 0..MaxDatagrams]
    BY <1>3, NodeAssumption DEF Arrive
  <2>2. [no |-> arrived[r] + 1, via |-> via] \in Datagrams
    BY <1>3, NodeAssumption DEF Arrive, Datagrams
  <2>3. queue' \in [Receivers -> Seq(Datagrams)]
    BY <1>3, <2>2 DEF Arrive
  <2> QED
    BY <1>3, <2>1, <2>3 DEF Arrive
<1>4. CASE Complete(r)
  <2>1. Head(queue[r]) \in Datagrams /\ Tail(queue[r]) \in Seq(Datagrams)
    BY <1>4 DEF Complete
  <2> QED
    BY <1>4, <2>1 DEF Complete
<1>5. CASE CompleteWithError(r)  BY <1>5 DEF CompleteWithError
<1> QED
  BY <1>1, <1>2, <1>3, <1>4, <1>5 DEF Kernel

(* The cursor of a loop of main moves to a further receiver or stays.      *)
LEMMA CursorType ==
  ASSUME cursor \in Receivers, cursor' \in {cursor, 1} \/ (~AtLast /\ cursor' = cursor + 1)
  PROVE  cursor' \in Receivers
BY NodeAssumption DEF AtLast

LEMMA TypeMain ==
  ASSUME TypeOK, Main
  PROVE  TypeOK'
<1>1. cursor' \in Receivers
  BY CursorType DEF TypeOK, Main, StartThread, SpinReturns, StopReceiver, JoinThread
<1> USE <1>1 DEF TypeOK, threadVars, kernelVars, Stopped
<1>2. CASE StartThread   BY <1>2 DEF StartThread
<1>3. CASE SpinReturns   BY <1>3 DEF SpinReturns
<1>4. CASE StopReceiver  BY <1>4 DEF StopReceiver
<1>5. CASE JoinThread    BY <1>5 DEF JoinThread
<1> QED
  BY <1>2, <1>3, <1>4, <1>5 DEF Main

LEMMA TypeNext == TypeOK /\ [Next]_vars => TypeOK'
<1> SUFFICES ASSUME TypeOK, [Next]_vars PROVE TypeOK'
  OBVIOUS
<1>1. CASE Interrupt
  BY <1>1 DEF Interrupt, TypeOK, mainVars, threadVars, kernelVars
<1>2. CASE UNCHANGED vars
  BY <1>2 DEF TypeOK, vars
<1> QED
  BY <1>1, <1>2, TypeMain, TypeThread, TypeKernel DEF Next

(* Every variable keeps its type; main never starts, stops or joins a      *)
(* receiver that does not exist.                                           *)
THEOREM TypeCorrect == Spec => []TypeOK
BY TypeInit, TypeNext, PTL DEF Spec

-----------------------------------------------------------------------------
(* The other parts of the invariant.                                       *)

LEMMA SafetyInit == Init => SafetyInv
BY TypeInit
DEF Init, SafetyInv, NoReceiveInHandler, BufferStable, StopsAfterShutdown,
    BoundBehindLoop, ListensUntilShutdown, JoinedUpToCursor, NoThreadOutlivesMain

(* What main waits for and what it did is stable under steps of threads.   *)
LEMMA ThreadKeepsMain ==
  ASSUME TypeOK, NEW r \in Receivers, Thread(r)
  PROVE  /\ UNCHANGED <<ok, main, cursor, stopped>>
         /\ \A q \in Receivers : pc[q] = "done" => pc'[q] = "done"
BY DEF TypeOK, Thread, OpenSocket, WhileOk, BindSucceeds, BindFails, CheckShutdown,
       Wait, Dispatch, DispatchError, HandlerReturns, RunReturns, Goto, mainVars

LEMMA SafetyThread ==
  ASSUME SafetyInv, NEW r \in Receivers, Thread(r)
  PROVE  SafetyInv'
<1>1. TypeOK /\ TypeOK'
  BY TypeThread DEF SafetyInv
<1>2. StopsAfterShutdown' /\ NoThreadOutlivesMain'
  BY <1>1, ThreadKeepsMain DEF SafetyInv, StopsAfterShutdown, NoThreadOutlivesMain
<1>3. JoinedUpToCursor'
  <2>1. \A q \in 1..cursor - 1 : q \in Receivers
    BY <1>1, NodeAssumption DEF TypeOK, Receivers
  <2> QED
    BY <1>1, <2>1, ThreadKeepsMain DEF SafetyInv, JoinedUpToCursor
<1> DEFINE RestInv == /\ NoReceiveInHandler
                      /\ BufferStable
                      /\ BoundBehindLoop
                      /\ ListensUntilShutdown
<1>4. RestInv'
  <2> USE <1>1 DEF SafetyInv, TypeOK, NoReceiveInHandler, BufferStable,
                   StopsAfterShutdown, BoundBehindLoop, ListensUntilShutdown, Goto
  <2>1. CASE OpenSocket(r)      BY <2>1 DEF OpenSocket
  <2>2. CASE WhileOk(r)
    <3>1. CASE ok               BY <2>2, <3>1 DEF WhileOk
    <3>2. CASE ~ok              BY <2>2, <3>2 DEF WhileOk
    <3> QED                     BY <3>1, <3>2
  <2>3. CASE BindSucceeds(r)
    BY <2>3, NodeAssumption DEF BindSucceeds, LocalEndpoint
  <2>4. CASE BindFails(r)       BY <2>4 DEF BindFails, AfterFailedBind
  <2>5. CASE CheckShutdown(r)
    <3>1. CASE ok               BY <2>5, <3>1 DEF CheckShutdown
    <3>2. CASE ~ok              BY <2>5, <3>2 DEF CheckShutdown
    <3> QED                     BY <3>1, <3>2
  <2>6. CASE Wait(r)            BY <2>6 DEF Wait, Armed
  <2>7. CASE Dispatch(r)        BY <2>7 DEF Dispatch, Disarmed
  <2>8. CASE DispatchError(r)   BY <2>8 DEF DispatchError, Disarmed
  <2>9. CASE HandlerReturns(r)  BY <2>9 DEF HandlerReturns, Rearmed, Armed
  <2>10. CASE RunReturns(r)     BY <2>10 DEF RunReturns
  <2> QED
    BY <2>1, <2>2, <2>3, <2>4, <2>5, <2>6, <2>7, <2>8, <2>9, <2>10 DEF Thread
<1> QED
  BY <1>1, <1>2, <1>3, <1>4 DEF SafetyInv

LEMMA SafetyKernel ==
  ASSUME SafetyInv, NEW r \in Receivers, Kernel(r)
  PROVE  SafetyInv'
<1> TypeOK'
  BY TypeKernel DEF SafetyInv
<1> USE DEF SafetyInv, TypeOK, NoReceiveInHandler, BufferStable, StopsAfterShutdown,
            BoundBehindLoop, ListensUntilShutdown, JoinedUpToCursor,
            NoThreadOutlivesMain, mainVars, threadVars, kernelVars
<1>1. CASE TakePort(r)           BY <1>1 DEF TakePort
<1>2. CASE FreePort(r)           BY <1>2 DEF FreePort
<1>3. CASE \E via \in Interfaces : Arrive(r, via)
  BY <1>3 DEF Arrive
<1>4. CASE Complete(r)           BY <1>4 DEF Complete
<1>5. CASE CompleteWithError(r)  BY <1>5 DEF CompleteWithError
<1> QED
  BY <1>1, <1>2, <1>3, <1>4, <1>5 DEF Kernel

LEMMA SafetyMain ==
  ASSUME SafetyInv, Main
  PROVE  SafetyInv'
<1>1. TypeOK /\ TypeOK'
  BY TypeMain DEF SafetyInv
<1> DEFINE RestInv == /\ NoReceiveInHandler
                      /\ BufferStable
                      /\ StopsAfterShutdown
                      /\ BoundBehindLoop
                      /\ ListensUntilShutdown
<1>2. RestInv'
  <2> USE <1>1 DEF SafetyInv, TypeOK, NoReceiveInHandler, BufferStable,
                   StopsAfterShutdown, BoundBehindLoop, ListensUntilShutdown,
                   threadVars, kernelVars
  <2>1. CASE StartThread   BY <2>1 DEF StartThread
  <2>2. CASE SpinReturns   BY <2>2 DEF SpinReturns
  <2>3. CASE StopReceiver
    <3>1. ~ok' /\ StopsAfterShutdown'
      BY <2>3 DEF StopReceiver, Stopped
    <3> QED
      BY <2>3, <3>1 DEF StopReceiver
  <2>4. CASE JoinThread    BY <2>4 DEF JoinThread
  <2> QED
    BY <2>1, <2>2, <2>3, <2>4 DEF Main
<1>3. JoinedUpToCursor' /\ NoThreadOutlivesMain'
  <2>1. CASE StartThread
    BY <2>1 DEF StartThread, JoinedUpToCursor, NoThreadOutlivesMain
  <2>2. CASE SpinReturns
    BY <2>2 DEF SpinReturns, JoinedUpToCursor, NoThreadOutlivesMain
  <2>3. CASE StopReceiver
    BY <2>3 DEF StopReceiver, JoinedUpToCursor, NoThreadOutlivesMain
  <2>4. CASE JoinThread
    <3>1. \A r \in 1..cursor : pc[r] = "done"
      BY <1>1, <2>4 DEF JoinThread, Joinable, SafetyInv, JoinedUpToCursor, TypeOK
    <3>2. UNCHANGED pc
      BY <2>4 DEF JoinThread, threadVars
    <3>3. CASE AtLast
      BY <2>4, <3>1, <3>2, <3>3
      DEF JoinThread, JoinedUpToCursor, NoThreadOutlivesMain, AtLast
    <3>4. CASE ~AtLast
      BY <1>1, <2>4, <3>1, <3>2, <3>4
      DEF JoinThread, JoinedUpToCursor, NoThreadOutlivesMain, TypeOK
    <3> QED
      BY <3>3, <3>4
  <2> QED
    BY <2>1, <2>2, <2>3, <2>4 DEF Main
<1> QED
  BY <1>1, <1>2, <1>3 DEF SafetyInv

LEMMA SafetyNext == SafetyInv /\ [Next]_vars => SafetyInv'
<1> SUFFICES ASSUME SafetyInv, [Next]_vars PROVE SafetyInv'
  OBVIOUS
<1> TypeOK'
  BY TypeNext DEF SafetyInv
<1>1. CASE Interrupt
  BY <1>1
  DEF Interrupt, SafetyInv, NoReceiveInHandler, BufferStable, StopsAfterShutdown,
      BoundBehindLoop, ListensUntilShutdown, JoinedUpToCursor, NoThreadOutlivesMain,
      mainVars, threadVars, kernelVars
<1>2. CASE UNCHANGED vars
  BY <1>2
  DEF vars, SafetyInv, NoReceiveInHandler, BufferStable, StopsAfterShutdown,
      BoundBehindLoop, ListensUntilShutdown, JoinedUpToCursor, NoThreadOutlivesMain
<1> QED
  BY <1>1, <1>2, SafetyMain, SafetyThread, SafetyKernel DEF Next

LEMMA SafetyInvariant == Spec => []SafetyInv
BY SafetyInit, SafetyNext, PTL DEF Spec

(* The kernel never writes recv_buffer_ while receiveImpl reads it.        *)
THEOREM BufferStaysStable == Spec => []BufferStable
<1>1. SafetyInv => BufferStable
  BY DEF SafetyInv
<1> QED
  BY <1>1, SafetyInvariant, PTL

(* Until shutdown or an error a receiver neither ends nor idles deaf.      *)
THEOREM ReceiversListen == Spec => []ListensUntilShutdown
<1>1. SafetyInv => ListensUntilShutdown
  BY DEF SafetyInv
<1> QED
  BY <1>1, SafetyInvariant, PTL

(* No thread is left to use the node or a receiver after main returned.    *)
THEOREM ThreadsJoined == Spec => []NoThreadOutlivesMain
<1>1. SafetyInv => NoThreadOutlivesMain
  BY DEF SafetyInv
<1> QED
  BY <1>1, SafetyInvariant, PTL
=============================================================================
