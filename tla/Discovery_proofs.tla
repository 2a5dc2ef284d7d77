--------------------------- MODULE Discovery_proofs ---------------------------
(***************************************************************************)
(* The invariants of Discovery, for every set of names and sizes, every    *)
(* timeout and every bound on the arrivals.                                *)
(*                                                                         *)
(* That timely answers are found needs three facts beside the types: the   *)
(* timeout loses at most a tick for each tick of time (Budget), recvfrom() *)
(* is only called for a datagram that is there (NeverBlocks), and what is  *)
(* left unread when the timeout ended the program came late (LeftIsLate).  *)
(***************************************************************************)
EXTENDS Discovery, TLAPS

Budget == timeout + elapsed >= Timeout

NeverBlocks == pc = "receive" => Readable

LeftIsLate ==
  exit = "timeout" =>
    /\ pc = "end"
    /\ elapsed >= Timeout
    /\ \A i \in DOMAIN arrived : i > read => arrived[i].at >= Timeout

IInv == TypeOK /\ Budget /\ NeverBlocks /\ AnswersReported /\ LeftIsLate

(* At the start nothing has arrived and the whole timeout is left.         *)
LEMMA InitIInv == Init => IInv
<1> USE DiscoveryAssumption
<1>1. Init => TypeOK /\ Budget /\ NeverBlocks /\ LeftIsLate
  BY DEF Init, TypeOK, Budget, NeverBlocks, LeftIsLate
<1>2. Init => AnswersReported
  BY DEF Init, AnswersReported
<1> QED
  BY <1>1, <1>2 DEF IInv

(* The steps of main that change neither the queue nor the clock.          *)
LEMMA ProceedIInv ==
  ASSUME IInv, UNCHANGED <<arrived, read, timeout, elapsed, reported>>,
         pc' \in {"bind", "send", "select", "receive", "end"},
         exit' \in {exit, "failure", "interrupted"},
         pc # "end",
         pc' = "receive" => Readable
  PROVE  IInv'
<1> USE DiscoveryAssumption
<1>1. exit # "timeout" /\ exit' # "timeout"
  BY DEF IInv, LeftIsLate
<1>2. TypeOK' /\ Budget' /\ NeverBlocks' /\ LeftIsLate'
  BY <1>1 DEF IInv, TypeOK, Budget, NeverBlocks, LeftIsLate, Readable
<1>3. AnswersReported'
  BY DEF IInv, AnswersReported
<1> QED
  BY <1>2, <1>3 DEF IInv

(* The datagrams that were there stay, with the new one behind them.       *)
LEMMA ArriveIInv ==
  ASSUME IInv, NEW name \in Names, NEW size \in Sizes, Arrive(name, size)
  PROVE  IInv'
<1> USE DiscoveryAssumption
<1> DEFINE d == [name |-> name, size |-> size, at |-> elapsed]
<1>1. /\ arrived \in Seq(Datagrams) /\ read \in 0..Len(arrived)
      /\ elapsed \in Nat /\ reported \in Seq(1..read)
  BY DEF IInv, TypeOK
<1>2. d \in Datagrams
  BY <1>1 DEF Datagrams
<1>3. /\ arrived' = Append(arrived, d)
      /\ arrived' \in Seq(Datagrams) /\ Len(arrived') = Len(arrived) + 1
      /\ \A i \in 1..Len(arrived) : arrived'[i] = arrived[i]
      /\ arrived'[Len(arrived) + 1] = d
  BY <1>1, <1>2 DEF Arrive
<1>4. read \in 0..Len(arrived')
  BY <1>1, <1>3
<1>5. TypeOK' /\ Budget'
  BY <1>3, <1>4 DEF IInv, TypeOK, Budget, Arrive
<1>6. NeverBlocks'
  BY <1>1, <1>3 DEF IInv, NeverBlocks, Readable, Arrive
<1>7. AnswersReported'
  <2>1. \A i \in 1..read : arrived'[i] = arrived[i]
    BY <1>1, <1>3
  <2>2. UNCHANGED <<read, reported>>
    BY DEF Arrive
  <2> QED
    BY <2>1, <2>2 DEF IInv, AnswersReported
<1>8. LeftIsLate'
  <2>1. SUFFICES ASSUME exit = "timeout"
                 PROVE  \A i \in 1..(Len(arrived) + 1) : i > read => arrived'[i].at >= Timeout
    BY <1>1, <1>3 DEF IInv, LeftIsLate, Arrive
  <2>2. d.at >= Timeout
    BY <2>1 DEF IInv, LeftIsLate
  <2>3. \A i \in 1..Len(arrived) : i > read => arrived'[i].at >= Timeout
    BY <1>1, <1>3, <2>1 DEF IInv, LeftIsLate
  <2> QED
    BY <1>1, <1>3, <2>2, <2>3
<1> QED
  BY <1>5, <1>6, <1>7, <1>8 DEF IInv

(* A tick of time costs the timeout at most a tick.                        *)
LEMMA TickIInv ==
  ASSUME IInv, Tick
  PROVE  IInv'
<1> USE DiscoveryAssumption
<1>1. /\ timeout \in Nat /\ timeout <= Timeout /\ elapsed \in Nat /\ elapsed <= MaxElapsed
      /\ timeout + elapsed >= Timeout
  BY DEF IInv, TypeOK, Budget
<1>2. timeout' \in 0..Timeout /\ elapsed' \in 0..MaxElapsed /\ timeout' + elapsed' >= Timeout
  BY <1>1 DEF Tick, Left
<1>3. TypeOK' /\ Budget'
  BY <1>2 DEF IInv, TypeOK, Budget, Tick
<1>4. exit # "timeout"
  BY DEF IInv, LeftIsLate, Tick
<1>5. NeverBlocks' /\ LeftIsLate'
  BY <1>4 DEF IInv, NeverBlocks, LeftIsLate, Readable, Tick
<1>6. AnswersReported'
  BY DEF IInv, AnswersReported, Tick
<1> QED
  BY <1>3, <1>5, <1>6 DEF IInv

(* By the budget, a second has passed when the timeout ends the program,   *)
(* and nothing is left unread.                                             *)
LEMMA SelectTimesOutIInv ==
  ASSUME IInv, SelectTimesOut
  PROVE  IInv'
<1> USE DiscoveryAssumption
<1>1. /\ UNCHANGED <<arrived, read, timeout, elapsed, reported>>
      /\ pc' = "end" /\ exit' = "timeout" /\ timeout = 0 /\ ~(read < Len(arrived))
  BY DEF SelectTimesOut, TimeIsUp, Readable
<1>2. TypeOK' /\ Budget' /\ NeverBlocks'
  BY <1>1 DEF IInv, TypeOK, Budget, NeverBlocks
<1>3. elapsed >= Timeout
  BY <1>1 DEF IInv, TypeOK, Budget
<1>4. \A i \in DOMAIN arrived : ~(i > read)
  BY <1>1 DEF IInv, TypeOK
<1>5. LeftIsLate'
  BY <1>1, <1>3, <1>4 DEF LeftIsLate
<1>6. AnswersReported'
  BY <1>1 DEF IInv, AnswersReported
<1> QED
  BY <1>2, <1>5, <1>6 DEF IInv

(* The next position is larger than all that are printed, so that printing *)
(* it keeps their order and changes none of the earlier verdicts.          *)
LEMMA ReceiveIInv ==
  ASSUME IInv, Receive
  PROVE  IInv'
<1> USE DiscoveryAssumption
<1>1. /\ UNCHANGED <<exit, arrived, timeout, elapsed>>
      /\ read' = read + 1 /\ pc' = "select" /\ pc = "receive"
  BY DEF Receive
<1>2. /\ arrived \in Seq(Datagrams) /\ read \in Nat /\ read < Len(arrived)
      /\ reported \in Seq(1..read)
  BY <1>1 DEF IInv, TypeOK, NeverBlocks, Readable
<1>3. read' \in 0..Len(arrived) /\ exit # "timeout"
  BY <1>1, <1>2 DEF IInv, LeftIsLate
<1>4. IsAnswer(arrived[read + 1])
        <=> arrived[read + 1].name = "R2DI" /\ arrived[read + 1].size >= InfoSize
  <2>1. arrived[read + 1] \in Datagrams
    BY <1>2
  <2>2. arrived[read + 1].size \in Nat
    BY <2>1 DEF Datagrams
  <2> QED
    BY <2>2 DEF IsAnswer, Received
<1>5. reported \in Seq(1..(read + 1))
  <2>1. /\ Len(reported) \in Nat /\ DOMAIN reported = 1..Len(reported)
        /\ \A k \in 1..Len(reported) : reported[k] \in 1..(read + 1)
    BY <1>2
  <2> QED
    BY <1>2, <2>1
<1>6. CASE IsAnswer(arrived[read + 1])
  <2>1. reported' = Append(reported, read + 1)
    BY <1>6 DEF Receive
  <2>2. /\ reported' \in Seq(1..(read + 1))
        /\ Len(reported') = Len(reported) + 1
        /\ \A k \in 1..Len(reported) : reported'[k] = reported[k] /\ reported[k] <= read
        /\ reported'[Len(reported) + 1] = read + 1
    BY <1>2, <1>5, <2>1
  <2> DEFINE n == Len(reported)
  <2>3. /\ n \in Nat
        /\ DOMAIN reported = 1..n
        /\ DOMAIN reported' = 1..(n + 1)
        /\ \A k \in 1..n : reported[k] \in Nat
    BY <1>2, <2>2
  <2>4. \A k, l \in 1..n : k < l => reported[k] < reported[l]
    BY <2>3 DEF IInv, AnswersReported
  <2> HIDE DEF n
  <2>5. \A k, l \in DOMAIN reported' : k < l => reported'[k] < reported'[l]
    <3>1. SUFFICES ASSUME NEW k \in 1..(n + 1), NEW l \in 1..(n + 1), k < l
                   PROVE  reported'[k] < reported'[l]
      BY <2>3
    <3>2. k \in 1..n
      BY <3>1, <2>3
    <3>3. l \in 1..n \/ l = n + 1
      BY <3>1, <2>3
    <3> QED
      BY <3>1, <3>2, <3>3, <2>3, <2>4, <2>2, <1>2 DEF n
  <2>6. \A i \in 1..read : (\E k \in DOMAIN reported' : reported'[k] = i)
                           <=> (\E k \in DOMAIN reported : reported[k] = i)
    <3>1. SUFFICES ASSUME NEW i \in 1..read
                   PROVE  (\E k \in 1..(n + 1) : reported'[k] = i)
                          <=> (\E k \in 1..n : reported[k] = i)
      BY <2>3
    <3>2. reported'[n + 1] # i
      BY <1>2, <2>2 DEF n
    <3>3. \A k \in 1..(n + 1) : k \in 1..n \/ k = n + 1
      BY <2>3
    <3>4. 1..n \subseteq 1..(n + 1)
      BY <2>3
    <3> QED
      BY <3>2, <3>3, <3>4, <2>2 DEF n
  <2>7. \E k \in DOMAIN reported' : reported'[k] = read + 1
    <3>1. n + 1 \in 1..(n + 1)
      BY <2>3
    <3> QED
      BY <3>1, <2>2, <2>3 DEF n
  <2>8. AnswersReported'
    BY <1>1, <1>2, <1>4, <1>6, <2>5, <2>6, <2>7 DEF IInv, AnswersReported
  <2>9. TypeOK'
    BY <1>1, <1>3, <2>2 DEF IInv, TypeOK
  <2> QED
    BY <1>1, <1>3, <2>8, <2>9 DEF IInv, Budget, NeverBlocks, LeftIsLate
<1>7. CASE ~IsAnswer(arrived[read + 1])
  <2>1. reported' = reported
    BY <1>7 DEF Receive
  <2>2. \A k \in DOMAIN reported : reported[k] # read + 1
    BY <1>2
  <2>3. AnswersReported'
    <3>1. \A i \in 1..read' : i \in 1..read \/ i = read + 1
      BY <1>1, <1>2
    <3>2. \A i \in 1..read :
            (\E k \in DOMAIN reported : reported[k] = i)
              <=> arrived[i].name = "R2DI" /\ arrived[i].size >= InfoSize
      BY DEF IInv, AnswersReported
    <3>3. \A i \in 1..read' :
            (\E k \in DOMAIN reported : reported[k] = i)
              <=> arrived[i].name = "R2DI" /\ arrived[i].size >= InfoSize
      <4>1. SUFFICES ASSUME NEW i \in 1..read'
                     PROVE  (\E k \in DOMAIN reported : reported[k] = i)
                              <=> arrived[i].name = "R2DI" /\ arrived[i].size >= InfoSize
        OBVIOUS
      <4>2. CASE i \in 1..read
        BY <3>2, <4>2
      <4>3. CASE i = read + 1
        BY <1>4, <1>7, <2>2, <4>3
      <4> QED
        BY <3>1, <4>2, <4>3
    <3>4. \A k, l \in DOMAIN reported : k < l => reported[k] < reported[l]
      BY DEF IInv, AnswersReported
    <3> HIDE DiscoveryAssumption
    <3> QED
      BY <1>1, <2>1, <3>3, <3>4 DEF AnswersReported
  <2>4. TypeOK'
    BY <1>1, <1>3, <1>5, <2>1 DEF IInv, TypeOK
  <2> QED
    BY <1>1, <1>3, <2>3, <2>4 DEF IInv, Budget, NeverBlocks, LeftIsLate
<1> QED
  BY <1>6, <1>7

(* Every step of the program and of its surroundings keeps the invariant.  *)
LEMMA NextIInv == IInv /\ [Next]_vars => IInv'
<1> SUFFICES ASSUME IInv, [Next]_vars PROVE IInv'
  OBVIOUS
<1>1. CASE OpenSocket
  BY <1>1, ProceedIInv DEF OpenSocket, Proceeds, Fails
<1>2. CASE BindSocket
  BY <1>2, ProceedIInv DEF BindSocket, Proceeds, Fails
<1>3. CASE SendRequest
  BY <1>3, ProceedIInv DEF SendRequest, Proceeds, Fails
<1>4. CASE SelectReadable
  BY <1>4, ProceedIInv DEF SelectReadable, Proceeds
<1>5. CASE SelectTimesOut
  BY <1>5, SelectTimesOutIInv
<1>6. CASE Receive
  BY <1>6, ReceiveIInv
<1>7. CASE SelectFails
  BY <1>7, ProceedIInv DEF SelectFails
<1>8. CASE Tick
  BY <1>8, TickIInv
<1>9. CASE \E name \in Names, size \in Sizes : Arrive(name, size)
  BY <1>9, ArriveIInv
<1>10. CASE UNCHANGED vars
  BY <1>10 DEF vars, IInv, TypeOK, Budget, NeverBlocks, Readable, AnswersReported, LeftIsLate
<1> QED
  BY <1>1, <1>2, <1>3, <1>4, <1>5, <1>6, <1>7, <1>8, <1>9, <1>10 DEF Next, Program

(* The strengthened invariant holds throughout.                            *)
LEMMA Invariance == Spec => []IInv
  BY InitIInv, NextIInv, PTL DEF Spec

(* The types hold, and recvfrom() has never taken what did not arrive.     *)
THEOREM TypeCorrect == Spec => []TypeOK
<1>1. IInv => TypeOK
  BY DEF IInv
<1> QED
  BY <1>1, Invariance, PTL

(* Exactly the answers among the datagrams read are printed, in order.     *)
THEOREM ReportsAnswers == Spec => []AnswersReported
<1>1. IInv => AnswersReported
  BY DEF IInv
<1> QED
  BY <1>1, Invariance, PTL

(* No answer that came within the timeout is missed when it ends main.     *)
THEOREM FindsTimelyAnswers == Spec => []TimelyAnswersFound
<1>1. IInv => TimelyAnswersFound
  <2>1. SUFFICES ASSUME IInv, exit = "timeout", NEW i \in DOMAIN arrived,
                        arrived[i].name = "R2DI", arrived[i].size >= InfoSize,
                        arrived[i].at < Timeout
                 PROVE  \E k \in DOMAIN reported : reported[k] = i
    BY DEF TimelyAnswersFound
  <2>2. arrived[i] \in Datagrams /\ i \in Nat /\ i >= 1 /\ read \in Nat
    BY <2>1 DEF IInv, TypeOK
  <2>3. ~(i > read)
    BY <2>1, <2>2, DiscoveryAssumption DEF IInv, LeftIsLate, Datagrams
  <2> QED
    BY <2>1, <2>2, <2>3 DEF IInv, AnswersReported
<1> QED
  BY <1>1, Invariance, PTL
=============================================================================
