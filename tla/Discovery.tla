------------------------------- MODULE Discovery -------------------------------
(***************************************************************************)
(* The program discover: it binds the GUI port, broadcasts one R2DD, and   *)
(* prints every R2DI that comes back until select() has waited one second. *)
(* The port is shared by requests, answers and configurations, so that the *)
(* program may hear its own broadcast, the driver's R2DC and answers of a  *)
(* foreign size.                                                           *)
(*                                                                         *)
(* Linux leaves in `timeout' what select() has not waited, and the next    *)
(* select() goes on with it.  Time is counted in ticks.                    *)
(***************************************************************************)
EXTENDS Integers, Sequences

CONSTANTS
  Names,       \* packet names of the datagrams that may arrive
  Sizes,       \* and their sizes
  InfoSize,    \* sizeof(R2DI), 72 in the code
  Timeout,     \* the timeout of select(), one second in the code
  MaxArrived,  \* bound on the datagrams that arrive
  MaxElapsed   \* bound on the ticks counted

ASSUME DiscoveryAssumption ==
  /\ Sizes \subseteq Nat
  /\ InfoSize \in Nat
  /\ Timeout \in Nat
  /\ MaxArrived \in Nat
  /\ MaxElapsed \in Nat
  /\ Timeout <= MaxElapsed

VARIABLES
  pc,        \* where main is
  exit,      \* how it ended, "no" while it runs
  arrived,   \* history: the datagrams queued at the socket, in order
  read,      \* how many of them recvfrom() has taken
  timeout,   \* ticks select() may still wait
  elapsed,   \* ticks since the request was sent
  reported   \* the answers printed, as positions in arrived

vars == <<pc, exit, arrived, read, timeout, elapsed, reported>>

Datagrams == [name : Names, size : Sizes, at : Nat]

Readable == read < Len(arrived)

(***************************************************************************)
(* The network and the clock (outside the program).  A datagram that comes *)
(* before the port is bound is nobody's; one that comes after the end is   *)
(* an answer that was missed.                                              *)
(***************************************************************************)
Arrive(name, size) ==
  /\ pc \notin {"open", "bind"}
  /\ Len(arrived) < MaxArrived
  /\ arrived' = Append(arrived, [name |-> name, size |-> size, at |-> elapsed])
  /\ UNCHANGED <<pc, exit, read, timeout, elapsed, reported>>

(* Time passes.  The timeout runs only while select() waits, and stops at  *)
(* zero.  Where a definition is preceded by another with the same          *)
(* parameters, that one is the same code with a plausible mistake, kept to *)
(* show that a property notices (PROJECT.json, "mutants").                 *)
LeftBelowZero == IF pc = "select" /\ ~Readable THEN timeout - 1 ELSE timeout
Left == IF pc = "select" /\ ~Readable /\ timeout > 0 THEN timeout - 1 ELSE timeout

Tick ==
  /\ pc \in {"select", "receive"}
  /\ elapsed' = IF elapsed < MaxElapsed THEN elapsed + 1 ELSE elapsed
  /\ timeout' = Left
  /\ UNCHANGED <<pc, exit, arrived, read, reported>>

(***************************************************************************)
(* main.                                                                   *)
(***************************************************************************)
Fails ==
  /\ pc' = "end"
  /\ exit' = "failure"
  /\ UNCHANGED <<arrived, read, timeout, elapsed, reported>>

Proceeds(next) ==
  /\ pc' = next
  /\ UNCHANGED <<exit, arrived, read, timeout, elapsed, reported>>

(* socket(), bind() and sendto(), each of which may report an error.       *)
OpenSocket  == pc = "open" /\ (Proceeds("bind") \/ Fails)
BindSocket  == pc = "bind" /\ (Proceeds("send") \/ Fails)
SendRequest == pc = "send" /\ (Proceeds("select") \/ Fails)

(* select() prefers a datagram to a timeout that is over.                  *)
SelectReadable == pc = "select" /\ Readable /\ Proceeds("receive")

TimeIsUpAtOnce == TRUE
TimeIsNoError == FALSE
TimeIsUp == timeout = 0

SelectTimesOut ==
  /\ pc = "select"
  /\ ~Readable
  /\ TimeIsUp
  /\ pc' = "end"
  /\ exit' = "timeout"
  /\ UNCHANGED <<arrived, read, timeout, elapsed, reported>>

(* select() fails, for example after the process was stopped and resumed.  *)
SelectFails ==
  /\ pc = "select"
  /\ pc' = "end"
  /\ exit' = "interrupted"
  /\ UNCHANGED <<arrived, read, timeout, elapsed, reported>>

(* recvfrom() cuts a datagram to the size of the buffer.                   *)
Received(d) == IF d.size < InfoSize THEN d.size ELSE InfoSize

IsAnswerOfAnyName(d) == Received(d) = InfoSize
IsAnswer(d) == Received(d) = InfoSize /\ d.name = "R2DI"

Receive ==
  /\ pc = "receive"
  /\ read' = read + 1
  /\ reported' = IF IsAnswer(arrived[read + 1]) THEN Append(reported, read + 1) ELSE reported
  /\ pc' = "select"
  /\ UNCHANGED <<exit, arrived, timeout, elapsed>>

Init ==
  /\ pc = "open"
  /\ exit = "no"
  /\ arrived = <<>>
  /\ read = 0
  /\ timeout = Timeout
  /\ elapsed = 0
  /\ reported = <<>>

Program == OpenSocket \/ BindSocket \/ SendRequest \/ SelectReadable \/ SelectTimesOut
           \/ Receive

Next ==
  \/ Program
  \/ SelectFails
  \/ Tick
  \/ \E name \in Names, size \in Sizes : Arrive(name, size)

Spec == Init /\ [][Next]_vars

(* The process is scheduled and time goes on; nobody owes datagrams or     *)
(* errors.                                                                 *)
FairSpec == Spec /\ WF_vars(Program) /\ WF_vars(Tick)

(***************************************************************************)
(* Properties.                                                             *)
(***************************************************************************)

(* The variables have their types; nothing is read that has not arrived,   *)
(* and the timeout never runs below zero.                                  *)
TypeOK ==
  /\ pc \in {"open", "bind", "send", "select", "receive", "end"}
  /\ exit \in {"no", "failure", "timeout", "interrupted"}
  /\ arrived \in Seq(Datagrams)
  /\ read \in 0..Len(arrived)
  /\ timeout \in 0..Timeout
  /\ elapsed \in 0..MaxElapsed
  /\ reported \in Seq(1..read)

(* What is printed are the answers, each once and in the order they came,  *)
(* and nothing else of what arrives at the port: no request, no            *)
(* configuration, no short datagram.                                       *)
AnswersReported ==
  /\ \A k, l \in DOMAIN reported : k < l => reported[k] < reported[l]
  /\ \A i \in 1..read :
       (\E k \in DOMAIN reported : reported[k] = i)
         <=> arrived[i].name = "R2DI" /\ arrived[i].size >= InfoSize

(* A device that answers within the timeout is found: whatever else comes  *)
(* in between and however the waiting is cut into calls of select(), main  *)
(* does not end by the timeout before it has printed every answer that     *)
(* arrived in time.                                                        *)
TimelyAnswersFound ==
  exit = "timeout" =>
    \A i \in DOMAIN arrived :
      arrived[i].name = "R2DI" /\ arrived[i].size >= InfoSize /\ arrived[i].at < Timeout
        => \E k \in DOMAIN reported : reported[k] = i

(* The program ends, once datagrams no longer keep it busy.                *)
Terminates == <>(pc = "end")
=============================================================================
