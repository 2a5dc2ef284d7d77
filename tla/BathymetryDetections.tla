-------------------------- MODULE BathymetryDetections --------------------------
(***************************************************************************)
(* The path of a BTH0 datagram: the kernel writes it over the one receive  *)
(* buffer, R2SonicNode::publish(packets::BTH0&) decodes the buffer in      *)
(* place and publishes the topics detections and raw/bth0.                 *)
(*                                                                         *)
(* Most sections of a datagram are optional, and the length of what was    *)
(* received is ignored: packets::BTH0 finds each section where the one     *)
(* before it ends, and takes the name it finds there for the answer.  What *)
(* lies behind a datagram is what earlier, longer ones left.               *)
(*                                                                         *)
(* Memory is made of cells: the SectionInfo of a section, its part of      *)
(* fixed length (in R0, I1 and G1 the scaling factor), and one cell for    *)
(* each beam or, in Q0, for each word of BeamsPerWord beams.  A cell says  *)
(* what was measured: section, place in it, datagram.                      *)
(***************************************************************************)
EXTENDS Integers, Sequences

CONSTANTS
  Pings,           \* the pings whose datagrams arrive, in any order
  BeamCounts,      \* values of H0 Beams
  SectionSets,     \* the sets of sections that the sonar is configured to send
  BeamsPerWord,    \* quality flags in a word of Q0, 8 in the code
  Detects(_, _),   \* how a beam of a ping was detected: by phase, by magnitude
  BufferSize,      \* size of recv_buffer_ in cells
  InitialCells,    \* what unwritten memory and other datagrams may hold
  OtherLengths,    \* lengths of datagrams of another type
  MaxReceived      \* bound on the datagrams received

Names     == {"H0", "R0", "A0", "A2", "I1", "G0", "G1", "Q0"}
Datagrams == [ping : Pings, beams : BeamCounts, sections : SectionSets]
Cells     == [section : Names \cup {"none"}, index : Nat, from : Datagrams]
Offsets   == 0..BufferSize - 1
Topics    == {"detections", "bth0"}
Flags     == {"DETECT_OK", "DETECT_BAD_SONAR"}

(* Sizes of the sections, as the sonar sends them.                         *)
Words(n) == (n + BeamsPerWord - 1) \div BeamsPerWord

Length(s, n) ==
  CASE s \in {"H0", "A0", "G0"} -> 2
    [] s = "Q0"                 -> 1 + Words(n)
    [] OTHER                    -> 2 + n

CellOf(d, s, k) == [section |-> s, index |-> k, from |-> d]

Section(d, s) ==
  IF s \in d.sections
  THEN [k \in 1..Length(s, d.beams) |-> CellOf(d, s, k - 1)]
  ELSE <<>>

(* The sections of a datagram, in the order in which BTH0 looks for them.  *)
Encode(d) ==
  Section(d, "H0") \o (Section(d, "R0") \o (Section(d, "A0") \o
    (Section(d, "A2") \o (Section(d, "I1") \o (Section(d, "G0") \o
      (Section(d, "G1") \o Section(d, "Q0")))))))

ASSUME SonarAssumption ==
  /\ BeamCounts \subseteq Nat
  /\ BeamsPerWord \in Nat \ {0}
  /\ \A sections \in SectionSets :
       {"H0", "R0", "G0"} \subseteq sections /\ sections \subseteq Names
  /\ \A ping \in Pings, n \in BeamCounts :
       \A i \in 0..n - 1 : Detects(ping, i) \subseteq {"phase", "magnitude"}

ASSUME BufferAssumption ==
  /\ BufferSize \in Nat
  /\ \A d \in Datagrams : Len(Encode(d)) < BufferSize
  /\ InitialCells \subseteq [Offsets -> Cells]
  /\ OtherLengths \subseteq 0..BufferSize
  /\ MaxReceived \in Nat

VARIABLES
  advertised,  \* the topics that have a publisher
  buffer,      \* recv_buffer_: MiniHeader and cells
  receive,     \* the asynchronous receive: none, armed or ready
  pc,          \* where the receiver thread is
  arrived,     \* history: the BTH0 datagrams received, oldest first
  others,      \* number of other datagrams received
  detections,  \* messages published on detections, oldest first
  raw          \* messages published on raw/bth0, oldest first

vars == <<advertised, buffer, receive, pc, arrived, others, detections, raw>>

messages == <<detections, raw>>

(***************************************************************************)
(* The kernel, which writes the buffer while a receive is outstanding.     *)
(***************************************************************************)
Written(cells, e) ==
  [k \in Offsets |-> IF k < Len(e) THEN e[k + 1] ELSE cells[k]]

MayArrive == receive = "armed" /\ Len(arrived) + others < MaxReceived

Arrive(d) ==
  /\ MayArrive
  /\ buffer' = [name |-> "BTH0", size |-> Len(Encode(d)),
                cells |-> Written(buffer.cells, Encode(d))]
  /\ arrived' = Append(arrived, d)
  /\ receive' = "ready"
  /\ UNCHANGED <<advertised, pc, others, messages>>

ArriveOther(n, bytes) ==
  /\ MayArrive
  /\ buffer' = [name |-> "other", size |-> n,
                cells |-> [k \in Offsets |-> IF k < n THEN bytes[k] ELSE buffer.cells[k]]]
  /\ others' = others + 1
  /\ receive' = "ready"
  /\ UNCHANGED <<advertised, pc, arrived, messages>>

(***************************************************************************)
(* Sections in memory.  Where a definition is preceded by another with the *)
(* same parameters, that one is the same code with a plausible mistake,    *)
(* kept to show that a property notices (PROJECT.json, "mutants").         *)
(***************************************************************************)
Exists(m, p, s) == m[p].section = s /\ m[p].index = 0

(* Section::end(): a section that does not exist has size 0.               *)
EndUnchecked(m, p, s) == p + Length(m[p].section, m[p].from.beams)
End(m, p, s) == IF Exists(m, p, s) THEN p + Length(s, m[p].from.beams) ELSE p

R0(m) == End(m, 0, "H0")
A0(m) == End(m, R0(m), "R0")
A2(m) == End(m, A0(m), "A0")
I1(m) == End(m, A2(m), "A2")
G0(m) == End(m, I1(m), "I1")
G1(m) == End(m, G0(m), "G0")
Q0(m) == End(m, G1(m), "G1")

(* A section's part of fixed length, and what it says of a beam.           *)
Body(m, p)    == m[p + 1]
Item(m, p, i) == m[p + 2 + i]

(***************************************************************************)
(* bth02SonarDetections.                                                   *)
(***************************************************************************)
NumBeams(m) == Body(m, 0).from.beams

BeamsOneMore(n) == 0..n
Beams(n) == 0..n - 1

None == <<>>   \* zero: no intensity, no angle

(* An angle is its first angle, the steps added to it and, for A0, which   *)
(* part of the way to the last angle it is.                                *)
AngleA2ToBefore(m, p, i) ==
  [first |-> Body(m, p), steps |-> {Item(m, p, j) : j \in 0..i - 1}, part |-> <<0, 1>>]
AngleA2(m, p, i) ==
  [first |-> Body(m, p), steps |-> {Item(m, p, j) : j \in 0..i}, part |-> <<0, 1>>]

AngleA0(m, p, i, n) ==
  [first |-> Body(m, p), steps |-> {}, part |-> <<i, n - 1>>]

RxAngle(m, i, n) ==
  IF Exists(m, A2(m), "A2") THEN AngleA2(m, A2(m), i)
  ELSE IF Exists(m, A0(m), "A0") /\ n > 1 THEN AngleA0(m, A0(m), i, n)
  ELSE [first |-> None, steps |-> {}, part |-> <<0, 1>>]

Range(m, i) == <<Body(m, R0(m)), Item(m, R0(m), i)>>

Intensity(m, i) ==
  IF Exists(m, I1(m), "I1") THEN <<Body(m, I1(m)), Item(m, I1(m), i)>> ELSE None

PhaseDetect(ping, i)     == "phase" \in Detects(ping, i)
MagnitudeDetect(ping, i) == "magnitude" \in Detects(ping, i)

FlagOfBoth(ping, i) ==
  IF PhaseDetect(ping, i) /\ MagnitudeDetect(ping, i)
  THEN "DETECT_OK" ELSE "DETECT_BAD_SONAR"
Flag(ping, i) ==
  IF PhaseDetect(ping, i) \/ MagnitudeDetect(ping, i)
  THEN "DETECT_OK" ELSE "DETECT_BAD_SONAR"

(* The word of Q0 that getQualityFlag reads for a beam.  Behind a short Q0 *)
(* lies other memory, whose bits may say anything.                         *)
Word(m, i) == m[Q0(m) + 1 + i \div BeamsPerWord]

FlagAllowed(m, i, flag) ==
  IF Exists(m, Q0(m), "Q0")
  THEN Word(m, i).section = "Q0" /\ Word(m, i).index > 0 =>
         flag = Flag(Word(m, i).from.ping,
                     (Word(m, i).index - 1) * BeamsPerWord + (i % BeamsPerWord))
  ELSE flag = "DETECT_OK"

SonarDetections(m, flags) ==
  [header |-> Body(m, 0),
   beams  |-> [i \in Beams(NumBeams(m)) |->
                 [range     |-> Range(m, i),
                  intensity |-> Intensity(m, i),
                  angle     |-> RxAngle(m, i, NumBeams(m)),
                  flag      |-> flags[i]]]]

(* packet2RawPacket: as many cells as the MiniHeader says.                 *)
RawPacketWhole(b) == [k \in 1..BufferSize |-> b.cells[k - 1]]
RawPacket(b) == [k \in 1..b.size |-> b.cells[k - 1]]

(***************************************************************************)
(* The handler in the receiver thread: receiveImpl, publish(BTH0&) and the *)
(* wait() that ends it.                                                    *)
(***************************************************************************)
ShouldPublish(topic) == topic \in advertised

IsType == buffer.name = "BTH0"

IgnoreOther ==
  /\ pc = "run"
  /\ receive = "ready"
  /\ ~IsType
  /\ receive' = "armed"
  /\ UNCHANGED <<advertised, buffer, pc, arrived, others, messages>>

ArmedBeforeHandling == "armed"
Disarmed == "none"

Dispatch ==
  /\ pc = "run"
  /\ receive = "ready"
  /\ IsType
  /\ receive' = Disarmed
  /\ pc' = "detections"
  /\ UNCHANGED <<advertised, buffer, arrived, others, messages>>

PublishDetections ==
  /\ pc = "detections"
  /\ IF ShouldPublish("detections")
     THEN \E flags \in [Beams(NumBeams(buffer.cells)) -> Flags] :
            /\ \A i \in DOMAIN flags : FlagAllowed(buffer.cells, i, flags[i])
            /\ detections' = Append(detections, SonarDetections(buffer.cells, flags))
     ELSE detections' = detections
  /\ pc' = "bth0"
  /\ UNCHANGED <<advertised, buffer, receive, arrived, others, raw>>

PublishRaw ==
  /\ pc = "bth0"
  /\ raw' = IF ShouldPublish("bth0") THEN Append(raw, RawPacket(buffer)) ELSE raw
  /\ receive' = "armed"
  /\ pc' = "run"
  /\ UNCHANGED <<advertised, buffer, arrived, others, detections>>

Init ==
  /\ advertised \in SUBSET Topics
  /\ \E cells \in InitialCells :
       buffer = [name |-> "other", size |-> 0, cells |-> cells]
  /\ receive = "armed"
  /\ pc = "run"
  /\ arrived = <<>>
  /\ others = 0
  /\ detections = <<>>
  /\ raw = <<>>

Next ==
  \/ \E d \in Datagrams : Arrive(d)
  \/ \E n \in OtherLengths, bytes \in InitialCells : ArriveOther(n, bytes)
  \/ IgnoreOther
  \/ Dispatch
  \/ PublishDetections
  \/ PublishRaw

Spec == Init /\ [][Next]_vars

(***************************************************************************)
(* Properties.                                                             *)
(***************************************************************************)
(* Scaled values, angles and messages on detections.                       *)
Values == Cells \X Cells

BeamData ==
  [range     : Values,
   intensity : {None} \cup Values,
   angle     : [first : {None} \cup Cells, steps : SUBSET Cells, part : Nat \X Int],
   flag      : Flags]

Message(n) == [header : Cells, beams : [0..n - 1 -> BeamData]]

(* The variables have their types; a message on detections has one entry   *)
(* for each beam of the H0 it was made from (the vectors that              *)
(* bth02SonarDetections resizes to num_beams).                             *)
TypeOK ==
  /\ advertised \subseteq Topics
  /\ buffer \in [name : {"BTH0", "other"}, size : 0..BufferSize, cells : [Offsets -> Cells]]
  /\ receive \in {"none", "armed", "ready"}
  /\ pc \in {"run", "detections", "bth0"}
  /\ arrived \in Seq(Datagrams)
  /\ others \in Nat
  /\ raw \in Seq(Seq(Cells))
  /\ \A k \in DOMAIN detections : detections[k] \in Message(detections[k].header.from.beams)

(* What a datagram says of the angle of a beam.                            *)
AngleSent(d, i) ==
  IF "A2" \in d.sections
  THEN [first |-> CellOf(d, "A2", 1), steps |-> {CellOf(d, "A2", 2 + j) : j \in 0..i},
        part |-> <<0, 1>>]
  ELSE [first |-> CellOf(d, "A0", 1), steps |-> {}, part |-> <<i, d.beams - 1>>]

(* The k-th message on detections is made of the k-th datagram and of      *)
(* nothing else, whatever sections earlier datagrams had and left in the   *)
(* buffer: every beam has the range, the intensity (0 when I1 is off) and  *)
(* the angle that this datagram sent for this beam.  (With A0 and a single *)
(* beam bth02SonarDetections does not read the angle and publishes 0.)     *)
DetectionsFaithful ==
  \A k \in DOMAIN detections :
    LET d == arrived[k]  IN
    /\ detections[k].header = CellOf(d, "H0", 1)
    /\ \A i \in 0..d.beams - 1 :
         LET beam == detections[k].beams[i]  IN
         /\ beam.range = <<CellOf(d, "R0", 1), CellOf(d, "R0", 2 + i)>>
         /\ beam.intensity = IF "I1" \in d.sections
                             THEN <<CellOf(d, "I1", 1), CellOf(d, "I1", 2 + i)>>
                             ELSE None
         /\ "A2" \in d.sections \/ ("A0" \in d.sections /\ d.beams > 1) =>
              beam.angle = AngleSent(d, i)

(* A datagram with Q0 gives each of its beams the flag that its own        *)
(* quality bits ask for: good if the bottom was detected by phase or by    *)
(* magnitude (getQualityFlag, behind up to six optional sections).         *)
FlagsFaithful ==
  \A k \in DOMAIN detections :
    "Q0" \in arrived[k].sections =>
      \A i \in 0..arrived[k].beams - 1 :
        detections[k].beams[i].flag =
          IF Detects(arrived[k].ping, i) # {} THEN "DETECT_OK" ELSE "DETECT_BAD_SONAR"

(* Each datagram is published once on every advertised topic, in the order *)
(* of arrival: raw/bth0 carries the bytes that detections was decoded      *)
(* from, and a receiver that waits for the next datagram has published     *)
(* everything before it.                                                   *)
TopicsAgree ==
  /\ \A k \in DOMAIN raw : raw[k] = Encode(arrived[k])
  /\ receive = "armed" =>
       /\ "bth0" \in advertised => Len(raw) = Len(arrived)
       /\ "detections" \in advertised => Len(detections) = Len(arrived)

(* "If Q0 isn't present, default to OK." (bth02SonarDetections)            *)
NoQualityMeansOk ==
  \A k \in DOMAIN detections :
    "Q0" \notin arrived[k].sections =>
      \A i \in DOMAIN detections[k].beams : detections[k].beams[i].flag = "DETECT_OK"
=============================================================================
