---------------------- MODULE BathymetryDetections_proofs ----------------------
(***************************************************************************)
(* The bathymetry path, for every set of pings, beam counts and section    *)
(* sets, any content of the memory behind a datagram and any other         *)
(* datagrams in between.  The argument: while a datagram is handled the    *)
(* buffer holds its sections one behind the other from offset 0 (IInv);    *)
(* the section behind an optional one that was not sent has another name,  *)
(* so Section::end() finds the start of each section (SectionRead), and    *)
(* bth02SonarDetections reads nothing but this datagram (MessageFaithful). *)
(***************************************************************************)
EXTENDS BathymetryDetections, TLAPS

(* m holds the sequence e from offset p.                                   *)
Holds(m, p, e) == \A k \in 1..Len(e) : m[p + k - 1] = e[k]

(* e begins with the name of one of the sections S.                        *)
Starts(e, S) == Len(e) > 0 /\ e[1].section \in S

(* What is behind each section of a datagram.                              *)
TailQ0(d) == Section(d, "Q0")
TailG1(d) == Section(d, "G1") \o TailQ0(d)
TailG0(d) == Section(d, "G0") \o TailG1(d)
TailI1(d) == Section(d, "I1") \o TailG0(d)
TailA2(d) == Section(d, "A2") \o TailI1(d)
TailA0(d) == Section(d, "A0") \o TailA2(d)
TailR0(d) == Section(d, "R0") \o TailA0(d)

(* The driver finds section s of d at offset p when, and only when, it was *)
(* sent, and then reads its cells.                                         *)
Read(m, p, d, s) ==
  /\ p \in Nat
  /\ Exists(m, p, s) <=> s \in d.sections
  /\ s \in d.sections => \A k \in 0..Length(s, d.beams) - 1 : m[p + k] = CellOf(d, s, k)

Layout(m, d) ==
  /\ Read(m, 0, d, "H0")
  /\ Read(m, R0(m), d, "R0")
  /\ Read(m, A0(m), d, "A0")
  /\ Read(m, A2(m), d, "A2")
  /\ Read(m, I1(m), d, "I1")
  /\ "Q0" \in d.sections => Read(m, Q0(m), d, "Q0")

-----------------------------------------------------------------------------
(* Arithmetic of the words of Q0: beam i of n lies in one of the Words(n)  *)
(* words, at the place that getQualityFlag computes.                       *)
LEMMA WordOfBeam ==
  ASSUME NEW i \in Nat, NEW n \in Nat, NEW b \in Nat \ {0}, i < n
  PROVE  /\ i \div b \in Nat
         /\ i \div b < (n + b - 1) \div b
         /\ (i \div b) * b + (i % b) = i
<1> DEFINE q == i \div b
           r == (n + b - 1) \div b
<1>1. q \in Nat /\ q * b <= i
  BY SMT
<1>2. r \in Nat /\ n + b - 1 < r * b + b
  BY SMT
<1>3. q * b < r * b
  BY <1>1, <1>2
<1>4. (i \div b) * b + (i % b) = i
  BY SMT
<1> HIDE DEF q, r
<1>5. ASSUME q >= r PROVE FALSE
  <2>1. PICK k \in Nat : q = r + k
    BY <1>1, <1>2, <1>5
  <2>2. q * b = r * b + k * b
    BY <1>1, <1>2, <2>1
  <2>3. k * b \in Nat /\ r * b \in Nat
    BY <1>2, <2>1
  <2> QED
    BY <1>3, <2>2, <2>3
<1> QED
  BY <1>1, <1>2, <1>4, <1>5 DEF q, r

LEMMA LengthPositive ==
  ASSUME NEW s \in Names, NEW n \in BeamCounts
  PROVE  Length(s, n) \in Nat /\ Length(s, n) > 0 /\ (s # "Q0" => Length(s, n) > 1)
<1>1. n \in Nat /\ BeamsPerWord \in Nat \ {0}
  BY SonarAssumption
<1>2. (n + BeamsPerWord - 1) \div BeamsPerWord \in Nat
  BY <1>1, SMT
<1> QED
  BY <1>1, <1>2 DEF Length, Words, Names

(* A section is a sequence of cells of the datagram.                       *)
LEMMA SectionCells ==
  ASSUME NEW d \in Datagrams, NEW s \in Names
  PROVE  /\ Section(d, s) \in Seq(Cells)
         /\ Len(Section(d, s)) = IF s \in d.sections THEN Length(s, d.beams) ELSE 0
         /\ s \in d.sections =>
              \A k \in 1..Length(s, d.beams) : Section(d, s)[k] = CellOf(d, s, k - 1)
<1>1. d.beams \in BeamCounts
  BY DEF Datagrams
<1>2. Length(s, d.beams) \in Nat
  BY <1>1, LengthPositive
<1>3. CASE s \in d.sections
  <2>1. \A k \in 1..Length(s, d.beams) : CellOf(d, s, k - 1) \in Cells
    BY <1>2 DEF CellOf, Cells
  <2> QED
    BY <1>2, <1>3, <2>1 DEF Section
<1>4. CASE s \notin d.sections
  BY <1>4 DEF Section
<1> QED
  BY <1>3, <1>4

LEMMA StartOfSection ==
  ASSUME NEW d \in Datagrams, NEW s \in Names, NEW rest \in Seq(Cells),
         NEW S \in SUBSET Names, s \in d.sections \/ Starts(rest, S)
  PROVE  /\ Section(d, s) \o rest \in Seq(Cells)
         /\ Starts(Section(d, s) \o rest, S \cup {s})
<1>1. Section(d, s) \in Seq(Cells)
  BY SectionCells
<1>2. CASE s \in d.sections
  <2>1. d.beams \in BeamCounts
    BY DEF Datagrams
  <2>2. Len(Section(d, s)) > 0 /\ Section(d, s)[1] = CellOf(d, s, 0)
    BY <1>2, <2>1, SectionCells, LengthPositive
  <2>3. (Section(d, s) \o rest)[1] = CellOf(d, s, 0)
    BY <1>1, <2>2
  <2> QED
    BY <1>1, <2>2, <2>3 DEF Starts, CellOf
<1>3. CASE s \notin d.sections
  <2>1. Len(Section(d, s)) = 0
    BY <1>3, SectionCells
  <2>2. Len(Section(d, s) \o rest) = Len(rest) /\ (Section(d, s) \o rest)[1] = rest[1]
    BY <1>1, <1>3, <2>1 DEF Starts
  <2> QED
    BY <1>1, <1>3, <2>2 DEF Starts
<1> QED
  BY <1>2, <1>3

(* One link of the chain: Section::exists() and Section::end().            *)
LEMMA SectionRead ==
  ASSUME NEW m, NEW p \in Nat, NEW d \in Datagrams, NEW s \in Names,
         NEW rest \in Seq(Cells), NEW S \in SUBSET Names, s \notin S,
         s \in d.sections \/ Starts(rest, S),
         Holds(m, p, Section(d, s) \o rest)
  PROVE  /\ Read(m, p, d, s)
         /\ End(m, p, s) \in Nat
         /\ Holds(m, End(m, p, s), rest)
         /\ End(m, p, s) + Len(rest) = p + Len(Section(d, s) \o rest)
<1>1. Section(d, s) \in Seq(Cells)
  BY SectionCells
<1>2. d.beams \in BeamCounts
  BY DEF Datagrams
<1> DEFINE n == Length(s, d.beams)
           e == Section(d, s) \o rest
<1>3. n \in Nat /\ n > 0
  BY <1>2, LengthPositive
<1>4. CASE s \in d.sections
  <2>1. Len(Section(d, s)) = n /\ \A k \in 1..n : Section(d, s)[k] = CellOf(d, s, k - 1)
    BY <1>4, SectionCells
  <2> HIDE DEF n
  <2>2. Len(e) = n + Len(rest)
    BY <1>1, <2>1
  <2>3. \A k \in 1..n : e[k] = CellOf(d, s, k - 1)
    BY <1>1, <1>3, <2>1
  <2>4. \A k \in 1..Len(rest) : e[n + k] = rest[k]
    BY <1>1, <1>3, <2>1
  <2>5. \A k \in 0..n - 1 : m[p + k] = CellOf(d, s, k)
    <3>1. TAKE k \in 0..n - 1
    <3>2. k + 1 \in 1..Len(e) /\ k + 1 \in 1..n
      BY <1>3, <2>2
    <3>3. m[p + (k + 1) - 1] = e[k + 1] /\ e[k + 1] = CellOf(d, s, (k + 1) - 1)
      BY <2>3, <3>2 DEF Holds
    <3>4. p + (k + 1) - 1 = p + k /\ (k + 1) - 1 = k
      BY <3>1
    <3> QED
      BY <3>3, <3>4
  <2>6. m[p] = CellOf(d, s, 0)
    BY <1>3, <2>5
  <2>7. Exists(m, p, s) /\ End(m, p, s) = p + n
    BY <2>6 DEF Exists, End, CellOf, n
  <2>8. Holds(m, p + n, rest)
    <3>1. SUFFICES ASSUME NEW k \in 1..Len(rest) PROVE m[p + n + k - 1] = rest[k]
      BY DEF Holds
    <3>2. n + k \in 1..Len(e)
      BY <1>3, <2>2
    <3>3. m[p + (n + k) - 1] = e[n + k]
      BY <3>2 DEF Holds
    <3>4. p + (n + k) - 1 = p + n + k - 1
      BY <1>3
    <3> QED
      BY <2>4, <3>3, <3>4
  <2>9. End(m, p, s) + Len(rest) = p + Len(e)
    BY <1>3, <2>2, <2>7
  <2> QED
    BY <1>3, <1>4, <2>5, <2>7, <2>8, <2>9 DEF Read, n
<1>5. CASE s \notin d.sections
  <2>1. Section(d, s) = <<>>
    BY <1>5 DEF Section
  <2>2. e = rest
    BY <2>1
  <2>3. Holds(m, p, rest) /\ Starts(rest, S)
    BY <1>5, <2>2
  <2>4. m[p] = rest[1]
    BY <2>3 DEF Holds, Starts
  <2>5. ~Exists(m, p, s) /\ End(m, p, s) = p
    BY <2>3, <2>4 DEF Exists, End, Starts
  <2> QED
    BY <1>5, <2>2, <2>3, <2>5 DEF Read
<1> QED
  BY <1>4, <1>5

(* The whole chain: the driver finds the sections of the datagram that is  *)
(* in the buffer, whatever lies behind it.  Q0 only if it was sent: else   *)
(* nothing is known of what is found where it would be.                    *)
LEMMA LayoutHolds ==
  ASSUME NEW m, NEW d \in Datagrams, Holds(m, 0, Encode(d))
  PROVE  /\ Layout(m, d)
         /\ G1(m) \in Nat /\ G1(m) <= Len(Encode(d))
         /\ "G1" \in d.sections => Q0(m) \in Nat /\ Q0(m) <= Len(Encode(d))
<1>0. ASSUME NEW s \in d.sections, NEW p \in Nat, NEW rest \in Seq(Cells), s \in Names,
             Holds(m, p, Section(d, s) \o rest)
      PROVE  /\ Read(m, p, d, s)
             /\ End(m, p, s) \in Nat
             /\ Holds(m, End(m, p, s), rest)
             /\ End(m, p, s) + Len(rest) = p + Len(Section(d, s) \o rest)
  <2>1. {} \in SUBSET Names /\ s \notin {}
    OBVIOUS
  <2> QED
    BY <1>0, <2>1, SectionRead
<1>1. {"H0", "R0", "G0"} \subseteq d.sections
  BY SonarAssumption DEF Datagrams
<1>2. TailQ0(d) \in Seq(Cells) /\ ("Q0" \in d.sections => Starts(TailQ0(d), {"Q0"}))
  <2>1. Section(d, "Q0") \in Seq(Cells) /\ <<>> \in Seq(Cells)
    BY SectionCells DEF Names
  <2>2. ASSUME "Q0" \in d.sections PROVE Starts(Section(d, "Q0"), {"Q0"})
    <3>1. d.beams \in BeamCounts /\ "Q0" \in Names
      BY DEF Datagrams, Names
    <3>2. Len(Section(d, "Q0")) > 0 /\ Section(d, "Q0")[1] = CellOf(d, "Q0", 0)
      BY <2>2, <3>1, SectionCells, LengthPositive
    <3> QED
      BY <3>2 DEF Starts, CellOf
  <2> QED
    BY <2>1, <2>2 DEF TailQ0
<1>3. TailG1(d) \in Seq(Cells)
  BY <1>2, SectionCells DEF TailG1, Names
<1>4. TailG0(d) \in Seq(Cells) /\ Starts(TailG0(d), {"G0"})
  <2>1. "G0" \in d.sections
    BY <1>1
  <2>2. /\ Section(d, "G0") \o TailG1(d) \in Seq(Cells)
        /\ Starts(Section(d, "G0") \o TailG1(d), {} \cup {"G0"})
    <3>1. {} \in SUBSET Names /\ "G0" \in Names
      BY DEF Names
    <3> QED
      BY <1>3, <2>1, <3>1, StartOfSection
  <2> QED
    BY <2>2 DEF TailG0
<1>5. TailI1(d) \in Seq(Cells) /\ Starts(TailI1(d), {"G0", "I1"})
  <2>1. /\ Section(d, "I1") \o TailG0(d) \in Seq(Cells)
        /\ Starts(Section(d, "I1") \o TailG0(d), {"G0"} \cup {"I1"})
    BY <1>4, StartOfSection DEF Names
  <2> QED
    BY <2>1 DEF TailI1, Starts
<1>6. TailA2(d) \in Seq(Cells) /\ Starts(TailA2(d), {"G0", "I1", "A2"})
  <2>1. /\ Section(d, "A2") \o TailI1(d) \in Seq(Cells)
        /\ Starts(Section(d, "A2") \o TailI1(d), {"G0", "I1"} \cup {"A2"})
    BY <1>5, StartOfSection DEF Names
  <2> QED
    BY <2>1 DEF TailA2, Starts
<1>7. TailA0(d) \in Seq(Cells)
  BY <1>6, StartOfSection DEF TailA0, Names
<1>8. TailR0(d) \in Seq(Cells)
  BY <1>7, SectionCells DEF TailR0, Names
<1>9. Encode(d) = Section(d, "H0") \o TailR0(d)
  BY DEF Encode, TailR0, TailA0, TailA2, TailI1, TailG0, TailG1, TailQ0
<1>10. /\ Read(m, 0, d, "H0") /\ R0(m) \in Nat /\ Holds(m, R0(m), TailR0(d))
       /\ R0(m) + Len(TailR0(d)) = 0 + Len(Encode(d))
  BY <1>1, <1>0, <1>8, <1>9 DEF Names, R0
<1>11. /\ Read(m, R0(m), d, "R0") /\ A0(m) \in Nat /\ Holds(m, A0(m), TailA0(d))
       /\ A0(m) + Len(TailA0(d)) = R0(m) + Len(TailR0(d))
  BY <1>1, <1>0, <1>7, <1>10 DEF Names, A0, TailR0
<1>12. /\ Read(m, A0(m), d, "A0") /\ A2(m) \in Nat /\ Holds(m, A2(m), TailA2(d))
       /\ A2(m) + Len(TailA2(d)) = A0(m) + Len(TailA0(d))
  <2>1. PICK S \in SUBSET Names : "A0" \notin S /\ Starts(TailA2(d), S)
    BY <1>6 DEF Names
  <2>2. Holds(m, A0(m), Section(d, "A0") \o TailA2(d))
    BY <1>11 DEF TailA0
  <2>3. "A0" \in Names
    BY DEF Names
  <2>4. /\ Read(m, A0(m), d, "A0")
        /\ End(m, A0(m), "A0") \in Nat
        /\ Holds(m, End(m, A0(m), "A0"), TailA2(d))
        /\ End(m, A0(m), "A0") + Len(TailA2(d)) = A0(m) + Len(Section(d, "A0") \o TailA2(d))
    BY <1>6, <1>11, <2>1, <2>2, <2>3, SectionRead
  <2> QED
    BY <2>4 DEF A2, TailA0
<1>13. /\ Read(m, A2(m), d, "A2") /\ I1(m) \in Nat /\ Holds(m, I1(m), TailI1(d))
       /\ I1(m) + Len(TailI1(d)) = A2(m) + Len(TailA2(d))
  <2>1. PICK S \in SUBSET Names : "A2" \notin S /\ Starts(TailI1(d), S)
    BY <1>5 DEF Names
  <2>2. Holds(m, A2(m), Section(d, "A2") \o TailI1(d))
    BY <1>12 DEF TailA2
  <2>3. "A2" \in Names
    BY DEF Names
  <2>4. /\ Read(m, A2(m), d, "A2")
        /\ End(m, A2(m), "A2") \in Nat
        /\ Holds(m, End(m, A2(m), "A2"), TailI1(d))
        /\ End(m, A2(m), "A2") + Len(TailI1(d)) = A2(m) + Len(Section(d, "A2") \o TailI1(d))
    BY <1>5, <1>12, <2>1, <2>2, <2>3, SectionRead
  <2> QED
    BY <2>4 DEF I1, TailA2
<1>14. /\ Read(m, I1(m), d, "I1") /\ G0(m) \in Nat /\ Holds(m, G0(m), TailG0(d))
       /\ G0(m) + Len(TailG0(d)) = I1(m) + Len(TailI1(d))
  <2>1. PICK S \in SUBSET Names : "I1" \notin S /\ Starts(TailG0(d), S)
    BY <1>4 DEF Names
  <2>2. Holds(m, I1(m), Section(d, "I1") \o TailG0(d))
    BY <1>13 DEF TailI1
  <2>3. "I1" \in Names
    BY DEF Names
  <2>4. /\ Read(m, I1(m), d, "I1")
        /\ End(m, I1(m), "I1") \in Nat
        /\ Holds(m, End(m, I1(m), "I1"), TailG0(d))
        /\ End(m, I1(m), "I1") + Len(TailG0(d)) = I1(m) + Len(Section(d, "I1") \o TailG0(d))
    BY <1>4, <1>13, <2>1, <2>2, <2>3, SectionRead
  <2> QED
    BY <2>4 DEF G0, TailI1
<1>15. /\ G1(m) \in Nat /\ Holds(m, G1(m), TailG1(d))
       /\ G1(m) + Len(TailG1(d)) = G0(m) + Len(TailG0(d))
  BY <1>1, <1>0, <1>3, <1>14 DEF Names, G1, TailG0
<1>16. ASSUME "Q0" \in d.sections PROVE Read(m, Q0(m), d, "Q0")
  <2>1. Q0(m) \in Nat /\ Holds(m, Q0(m), TailQ0(d))
    BY <1>2, <1>15, <1>16, SectionRead DEF Names, Q0, TailG1
  <2>2. TailQ0(d) = Section(d, "Q0") \o <<>> /\ <<>> \in Seq(Cells)
    BY SectionCells DEF Names, TailQ0
  <2> QED
    BY <1>16, <1>0, <2>1, <2>2 DEF Names
<1>17. G1(m) + Len(TailG1(d)) = Len(Encode(d))
  <2>1. \A e \in Seq(Cells) : Len(e) \in Nat
    OBVIOUS
  <2>2. /\ Len(TailG1(d)) \in Nat /\ Len(TailG0(d)) \in Nat /\ Len(TailI1(d)) \in Nat
        /\ Len(TailA2(d)) \in Nat /\ Len(TailA0(d)) \in Nat /\ Len(TailR0(d)) \in Nat
    BY <2>1, <1>3, <1>4, <1>5, <1>6, <1>7, <1>8
  <2>3. Len(Encode(d)) \in Nat
    BY <1>10, <2>2
  <2> QED
    BY <1>10, <1>11, <1>12, <1>13, <1>14, <1>15, <2>2, <2>3
<1>18. G1(m) <= Len(Encode(d))
  <2>1. Len(TailG1(d)) \in Nat
    BY <1>3
  <2> QED
    BY <1>15, <1>17, <2>1
<1>19. ASSUME "G1" \in d.sections PROVE Q0(m) \in Nat /\ Q0(m) <= Len(Encode(d))
  <2>1. Q0(m) \in Nat /\ Q0(m) + Len(TailQ0(d)) = G1(m) + Len(TailG1(d))
    BY <1>0, <1>2, <1>15, <1>19 DEF Names, Q0, TailG1
  <2>2. Len(TailQ0(d)) \in Nat
    BY <1>2
  <2> QED
    BY <1>17, <2>1, <2>2
<1>20. Layout(m, d)
  BY <1>10, <1>11, <1>12, <1>13, <1>14, <1>16 DEF Layout
<1> QED
  BY <1>15, <1>18, <1>19, <1>20

-----------------------------------------------------------------------------
(* What the detections message of a datagram says of each beam.            *)
BeamFaithful(d, beam, i) ==
  /\ beam.range = <<CellOf(d, "R0", 1), CellOf(d, "R0", 2 + i)>>
  /\ beam.intensity = IF "I1" \in d.sections
                      THEN <<CellOf(d, "I1", 1), CellOf(d, "I1", 2 + i)>>
                      ELSE None
  /\ "A2" \in d.sections \/ ("A0" \in d.sections /\ d.beams > 1) =>
       beam.angle = AngleSent(d, i)
  /\ "Q0" \in d.sections =>
       beam.flag = IF Detects(d.ping, i) # {} THEN "DETECT_OK" ELSE "DETECT_BAD_SONAR"

MessageOf(d, msg) ==
  /\ msg.header = CellOf(d, "H0", 1)
  /\ msg \in Message(d.beams)
  /\ \A i \in 0..d.beams - 1 : BeamFaithful(d, msg.beams[i], i)

LEMMA MessageType ==
  ASSUME NEW d, NEW msg, MessageOf(d, msg)
  PROVE  msg \in Message(msg.header.from.beams)
<1>1. msg.header.from = d
  BY DEF MessageOf, CellOf
<1> QED
  BY <1>1 DEF MessageOf

LEMMA CellOfType ==
  ASSUME NEW d \in Datagrams, NEW s \in Names, NEW k \in Nat
  PROVE  CellOf(d, s, k) \in Cells
BY DEF CellOf, Cells

LEMMA HeaderRead ==
  ASSUME NEW m, NEW d \in Datagrams, Layout(m, d)
  PROVE  Body(m, 0) = CellOf(d, "H0", 1) /\ NumBeams(m) = d.beams /\ d.beams \in Nat
<1>1. "H0" \in d.sections /\ d.beams \in Nat
  BY SonarAssumption DEF Datagrams
<1>2. m[0 + 1] = CellOf(d, "H0", 1)
  BY <1>1 DEF Layout, Read, Length
<1> QED
  BY <1>1, <1>2 DEF Body, NumBeams, CellOf

(* A section with one cell for each beam: R0, I1 and A2's steps.           *)
LEMMA ItemsRead ==
  ASSUME NEW m, NEW p, NEW d \in Datagrams, NEW s \in {"R0", "A2", "I1"},
         s \in d.sections, Read(m, p, d, s), NEW i \in 0..d.beams - 1
  PROVE  Body(m, p) = CellOf(d, s, 1) /\ Item(m, p, i) = CellOf(d, s, 2 + i)
<1>1. d.beams \in Nat
  BY SonarAssumption DEF Datagrams
<1>2. Length(s, d.beams) = 2 + d.beams
  BY DEF Length
<1>3. 1 \in 0..Length(s, d.beams) - 1 /\ 2 + i \in 0..Length(s, d.beams) - 1
  BY <1>1, <1>2
<1>4. m[p + 1] = CellOf(d, s, 1) /\ m[p + (2 + i)] = CellOf(d, s, 2 + i)
  BY <1>3 DEF Read
<1>5. p + (2 + i) = p + 2 + i
  BY <1>1 DEF Read
<1> QED
  BY <1>4, <1>5 DEF Body, Item

(* The flag read from a Q0 that was sent.                                  *)
LEMMA FlagRead ==
  ASSUME NEW m, NEW d \in Datagrams, "Q0" \in d.sections,
         Read(m, Q0(m), d, "Q0"), NEW i \in 0..d.beams - 1, NEW flag,
         FlagAllowed(m, i, flag)
  PROVE  flag = IF Detects(d.ping, i) # {} THEN "DETECT_OK" ELSE "DETECT_BAD_SONAR"
<1>1. d.beams \in Nat /\ d.beams \in BeamCounts /\ d.ping \in Pings /\ BeamsPerWord \in Nat \ {0}
  BY SonarAssumption DEF Datagrams
<1> DEFINE w == i \div BeamsPerWord
<1>2. w \in Nat /\ w < Words(d.beams) /\ w * BeamsPerWord + (i % BeamsPerWord) = i
  <2>1. i \in Nat /\ i < d.beams
    BY <1>1
  <2>2. /\ i \div BeamsPerWord \in Nat
        /\ i \div BeamsPerWord < (d.beams + BeamsPerWord - 1) \div BeamsPerWord
        /\ (i \div BeamsPerWord) * BeamsPerWord + (i % BeamsPerWord) = i
    BY <1>1, <2>1, WordOfBeam, Zenon
  <2> QED
    BY <2>2 DEF Words
<1>3. Length("Q0", d.beams) = 1 + Words(d.beams) /\ Words(d.beams) \in Nat
  <2>1. (d.beams + BeamsPerWord - 1) \div BeamsPerWord \in Nat
    BY <1>1, SMT
  <2> QED
    BY <2>1 DEF Length, Words
<1> HIDE DEF w
<1>4. 1 + w \in 0..Length("Q0", d.beams) - 1
  BY <1>2, <1>3
<1>5. m[Q0(m) + (1 + w)] = CellOf(d, "Q0", 1 + w)
  BY <1>4 DEF Read
<1>6. Word(m, i) = CellOf(d, "Q0", 1 + w)
  <2>1. Q0(m) + (1 + w) = Q0(m) + 1 + w
    BY <1>2 DEF Read
  <2> QED
    BY <1>5, <2>1 DEF Word, w
<1>7. Word(m, i).section = "Q0" /\ Word(m, i).index = 1 + w /\ Word(m, i).from = d
  BY <1>6 DEF CellOf
<1>8. Exists(m, Q0(m), "Q0")
  BY DEF Read
<1>9. 1 + w > 0 /\ (1 + w) - 1 = w
  BY <1>2
<1>10. flag = Flag(d.ping, i)
  BY <1>2, <1>7, <1>8, <1>9 DEF FlagAllowed
<1>11. Detects(d.ping, i) \subseteq {"phase", "magnitude"}
  BY <1>1, SonarAssumption
<1> QED
  BY <1>10, <1>11 DEF Flag, PhaseDetect, MagnitudeDetect

LEMMA AngleRead ==
  ASSUME NEW m, NEW d \in Datagrams, Layout(m, d), NEW i \in 0..d.beams - 1
  PROVE  /\ RxAngle(m, i, d.beams) \in
              [first : {None} \cup Cells, steps : SUBSET Cells, part : Nat \X Int]
         /\ "A2" \in d.sections \/ ("A0" \in d.sections /\ d.beams > 1) =>
              RxAngle(m, i, d.beams) = AngleSent(d, i)
<1>1. d.beams \in Nat
  BY SonarAssumption DEF Datagrams
<1>2. CASE "A2" \in d.sections
  <2>1. Exists(m, A2(m), "A2") /\ Read(m, A2(m), d, "A2")
    BY <1>2 DEF Layout, Read
  <2>2. \A j \in 0..i : Item(m, A2(m), j) = CellOf(d, "A2", 2 + j)
    BY <1>1, <1>2, <2>1, ItemsRead
  <2>3. Body(m, A2(m)) = CellOf(d, "A2", 1)
    BY <1>2, <2>1, ItemsRead
  <2>4. \A k \in Nat : CellOf(d, "A2", k) \in Cells
    BY CellOfType DEF Names
  <2>5. \A j \in 0..i : Item(m, A2(m), j) \in Cells
    BY <2>2, <2>4
  <2>6. {Item(m, A2(m), j) : j \in 0..i} = {CellOf(d, "A2", 2 + j) : j \in 0..i}
    BY <2>2
  <2>7. RxAngle(m, i, d.beams) = [first |-> CellOf(d, "A2", 1),
                                  steps |-> {CellOf(d, "A2", 2 + j) : j \in 0..i},
                                  part  |-> <<0, 1>>]
    BY <2>1, <2>3, <2>6 DEF RxAngle, AngleA2
  <2>8. {CellOf(d, "A2", 2 + j) : j \in 0..i} \in SUBSET Cells
    BY <2>4
  <2> QED
    BY <1>2, <2>4, <2>7, <2>8 DEF AngleSent
<1>3. CASE "A2" \notin d.sections /\ "A0" \in d.sections /\ d.beams > 1
  <2>1. ~Exists(m, A2(m), "A2") /\ Exists(m, A0(m), "A0") /\ Read(m, A0(m), d, "A0")
    BY <1>3 DEF Layout, Read
  <2>2. m[A0(m) + 1] = CellOf(d, "A0", 1)
    BY <1>3, <2>1 DEF Read, Length
  <2>3. CellOf(d, "A0", 1) \in Cells
    BY CellOfType DEF Names
  <2>4. RxAngle(m, i, d.beams) =
          [first |-> CellOf(d, "A0", 1), steps |-> {}, part |-> <<i, d.beams - 1>>]
    BY <1>3, <2>1, <2>2 DEF RxAngle, AngleA0, Body
  <2> QED
    BY <1>1, <1>3, <2>3, <2>4 DEF AngleSent
<1>4. CASE "A2" \notin d.sections /\ ~("A0" \in d.sections /\ d.beams > 1)
  <2>1. ~Exists(m, A2(m), "A2") /\ (Exists(m, A0(m), "A0") <=> "A0" \in d.sections)
    BY <1>4 DEF Layout, Read
  <2>2. RxAngle(m, i, d.beams) = [first |-> None, steps |-> {}, part |-> <<0, 1>>]
    BY <1>4, <2>1 DEF RxAngle
  <2> QED
    BY <1>4, <2>2
<1> QED
  BY <1>2, <1>3, <1>4

(* bth02SonarDetections publishes what the datagram in the buffer says.    *)
LEMMA MessageFaithful ==
  ASSUME NEW m, NEW d \in Datagrams, Holds(m, 0, Encode(d)),
         NEW flags \in [Beams(NumBeams(m)) -> Flags],
         \A i \in DOMAIN flags : FlagAllowed(m, i, flags[i])
  PROVE  MessageOf(d, SonarDetections(m, flags))
<1>1. Layout(m, d)
  BY LayoutHolds
<1>2. Body(m, 0) = CellOf(d, "H0", 1) /\ NumBeams(m) = d.beams /\ d.beams \in Nat
  BY <1>1, HeaderRead
<1>3. {"R0", "H0"} \subseteq d.sections
  BY SonarAssumption DEF Datagrams
<1>4. flags \in [0..d.beams - 1 -> Flags]
  BY <1>2 DEF Beams
<1> DEFINE beam(i) == [range     |-> Range(m, i),
                       intensity |-> Intensity(m, i),
                       angle     |-> RxAngle(m, i, d.beams),
                       flag      |-> flags[i]]
<1>5. ASSUME NEW i \in 0..d.beams - 1
      PROVE  BeamFaithful(d, beam(i), i) /\ beam(i) \in BeamData
  <2>1. \A s \in Names, k \in Nat : CellOf(d, s, k) \in Cells
    BY CellOfType
  <2>2. Range(m, i) = <<CellOf(d, "R0", 1), CellOf(d, "R0", 2 + i)>>
    <3>1. Read(m, R0(m), d, "R0") /\ "R0" \in d.sections
      BY <1>1, <1>3 DEF Layout
    <3> QED
      BY <3>1, ItemsRead DEF Range
  <2>3. Intensity(m, i) = IF "I1" \in d.sections
                          THEN <<CellOf(d, "I1", 1), CellOf(d, "I1", 2 + i)>>
                          ELSE None
    <3>1. Read(m, I1(m), d, "I1")
      BY <1>1 DEF Layout
    <3>2. CASE "I1" \in d.sections
      BY <3>1, <3>2, ItemsRead DEF Intensity, Read
    <3>3. CASE "I1" \notin d.sections
      BY <3>1, <3>3 DEF Intensity, Read
    <3> QED
      BY <3>2, <3>3
  <2>4. "R0" \in Names /\ "I1" \in Names /\ 1 \in Nat /\ 2 + i \in Nat
    BY <1>2 DEF Names
  <2>5. Range(m, i) \in Values /\ Intensity(m, i) \in {None} \cup Values
    BY <2>1, <2>2, <2>3, <2>4 DEF Values
  <2>6. flags[i] \in Flags
    BY <1>4
  <2>7. "Q0" \in d.sections =>
          flags[i] = IF Detects(d.ping, i) # {} THEN "DETECT_OK" ELSE "DETECT_BAD_SONAR"
    <3>1. FlagAllowed(m, i, flags[i])
      BY <1>4
    <3> QED
      BY <1>1, <3>1, FlagRead DEF Layout
  <2>8. beam(i) \in BeamData
    BY <1>1, <2>5, <2>6, AngleRead DEF BeamData
  <2>9. BeamFaithful(d, beam(i), i)
    BY <1>1, <2>2, <2>3, <2>7, AngleRead DEF BeamFaithful
  <2> QED
    BY <2>8, <2>9
<1> HIDE DEF beam
<1>6. SonarDetections(m, flags) = [header |-> CellOf(d, "H0", 1),
                                   beams  |-> [i \in 0..d.beams - 1 |-> beam(i)]]
  BY <1>2 DEF SonarDetections, Beams, beam
<1>7. CellOf(d, "H0", 1) \in Cells
  BY CellOfType DEF Names
<1> QED
  BY <1>5, <1>6, <1>7 DEF MessageOf, Message

-----------------------------------------------------------------------------
(* The inductive invariant.                                                *)
Latest == arrived[Len(arrived)]

Pending  == receive = "ready" /\ IsType
Handling == Pending \/ pc # "run"

(* The receive is outstanding only while nothing is being handled.         *)
ControlInv ==
  \/ pc = "run" /\ receive \in {"armed", "ready"}
  \/ pc \in {"detections", "bth0"} /\ receive = "none"

BufferInv ==
  Handling =>
    /\ Len(arrived) > 0
    /\ buffer.size = Len(Encode(Latest))
    /\ Holds(buffer.cells, 0, Encode(Latest))

MessagesInv ==
  /\ detections \in Seq(UNION {Message(n) : n \in BeamCounts})
  /\ Len(detections) = IF "detections" \notin advertised THEN 0
                       ELSE IF Pending \/ pc = "detections" THEN Len(arrived) - 1
                       ELSE Len(arrived)
  /\ \A k \in 1..Len(detections) : MessageOf(arrived[k], detections[k])

RawInv ==
  /\ Len(raw) = IF "bth0" \notin advertised THEN 0
                ELSE IF Handling THEN Len(arrived) - 1 ELSE Len(arrived)
  /\ \A k \in 1..Len(raw) : raw[k] = Encode(arrived[k])

IInv == TypeOK /\ ControlInv /\ BufferInv /\ MessagesInv /\ RawInv

LEMMA EncodeCells ==
  ASSUME NEW d \in Datagrams
  PROVE  /\ Encode(d) \in Seq(Cells)
         /\ Encode(d) = [k \in 1..Len(Encode(d)) |-> Encode(d)[k]]
         /\ Len(Encode(d)) \in 0..BufferSize
<1>1. \A s \in Names : Section(d, s) \in Seq(Cells)
  BY SectionCells
<1>2. /\ Section(d, "H0") \in Seq(Cells) /\ Section(d, "R0") \in Seq(Cells)
      /\ Section(d, "A0") \in Seq(Cells) /\ Section(d, "A2") \in Seq(Cells)
      /\ Section(d, "I1") \in Seq(Cells) /\ Section(d, "G0") \in Seq(Cells)
      /\ Section(d, "G1") \in Seq(Cells) /\ Section(d, "Q0") \in Seq(Cells)
  BY <1>1 DEF Names
<1>3. Encode(d) \in Seq(Cells)
  BY <1>2 DEF Encode
<1>4. Len(Encode(d)) < BufferSize /\ BufferSize \in Nat
  BY BufferAssumption
<1> QED
  BY <1>3, <1>4

LEMMA WrittenHolds ==
  ASSUME NEW d \in Datagrams, NEW cells \in [Offsets -> Cells]
  PROVE  /\ Written(cells, Encode(d)) \in [Offsets -> Cells]
         /\ Holds(Written(cells, Encode(d)), 0, Encode(d))
<1> DEFINE e == Encode(d)
<1>1. e \in Seq(Cells) /\ Len(e) < BufferSize /\ BufferSize \in Nat
  BY EncodeCells, BufferAssumption
<1> HIDE DEF e
<1>2. \A k \in Offsets : k < Len(e) => e[k + 1] \in Cells
  BY <1>1 DEF Offsets
<1>3. Written(cells, e) \in [Offsets -> Cells]
  BY <1>2 DEF Written
<1>4. ASSUME NEW k \in 1..Len(e) PROVE Written(cells, e)[0 + k - 1] = e[k]
  <2>1. k - 1 \in Offsets /\ k - 1 < Len(e) /\ (k - 1) + 1 = k /\ 0 + k - 1 = k - 1
    BY <1>1 DEF Offsets
  <2> QED
    BY <2>1 DEF Written
<1> QED
  BY <1>3, <1>4 DEF Holds, e

LEMMA Inductive == IInv /\ [Next]_vars => IInv'
<1> SUFFICES ASSUME IInv, [Next]_vars PROVE IInv'
  OBVIOUS
<1> USE DEF IInv
<1>0. Len(arrived) \in Nat /\ Len(detections) \in Nat /\ Len(raw) \in Nat
  BY DEF TypeOK, MessagesInv
<1>1. ASSUME NEW d \in Datagrams, Arrive(d) PROVE IInv'
  <2>1. /\ receive = "armed" /\ pc = "run" /\ ~Pending /\ ~Handling
    BY <1>1 DEF Arrive, MayArrive, ControlInv, Pending, Handling
  <2>2. /\ arrived' \in Seq(Datagrams) /\ Len(arrived') = Len(arrived) + 1
        /\ arrived'[Len(arrived')] = d
        /\ \A k \in 1..Len(arrived) : arrived'[k] = arrived[k]
    BY <1>1 DEF Arrive, TypeOK
  <2>3. /\ buffer'.cells \in [Offsets -> Cells] /\ Holds(buffer'.cells, 0, Encode(d))
        /\ buffer'.size = Len(Encode(d)) /\ Len(Encode(d)) \in 0..BufferSize
        /\ buffer'.name = "BTH0"
    BY <1>1, WrittenHolds, EncodeCells DEF Arrive, TypeOK
  <2>4. Pending' /\ Handling'
    BY <1>1, <2>3 DEF Arrive, Pending, Handling, IsType
  <2>5. TypeOK'
    BY <1>1, <2>2, <2>3 DEF Arrive, TypeOK, messages
  <2>6. ControlInv'
    BY <1>1, <2>1 DEF Arrive, ControlInv
  <2>7. BufferInv'
    BY <1>0, <2>2, <2>3 DEF BufferInv, Latest
  <2>8. MessagesInv'
    BY <1>0, <1>1, <2>1, <2>2, <2>4 DEF Arrive, MessagesInv, messages
  <2>9. RawInv'
    BY <1>0, <1>1, <2>1, <2>2, <2>4 DEF Arrive, RawInv, messages
  <2> QED
    BY <2>5, <2>6, <2>7, <2>8, <2>9
<1>2. ASSUME NEW n \in OtherLengths, NEW bytes \in InitialCells, ArriveOther(n, bytes) PROVE IInv'
  <2>1. /\ receive = "armed" /\ pc = "run" /\ ~Pending /\ ~Handling
    BY <1>2 DEF ArriveOther, MayArrive, ControlInv, Pending, Handling
  <2>2. ~Pending' /\ ~Handling'
    BY <1>2, <2>1 DEF ArriveOther, Pending, Handling, IsType
  <2>3. bytes \in [Offsets -> Cells] /\ n \in 0..BufferSize
    BY BufferAssumption
  <2>4. TypeOK'
    BY <1>2, <2>3 DEF ArriveOther, TypeOK, messages
  <2>5. ControlInv' /\ BufferInv'
    BY <1>2, <2>1, <2>2 DEF ArriveOther, ControlInv, BufferInv
  <2>6. MessagesInv' /\ RawInv'
    BY <1>2, <2>1, <2>2 DEF ArriveOther, MessagesInv, RawInv, messages
  <2> QED
    BY <2>4, <2>5, <2>6
<1>3. CASE IgnoreOther
  <2>1. ~Pending /\ ~Handling /\ ~Pending' /\ ~Handling'
    BY <1>3 DEF IgnoreOther, Pending, Handling, IsType
  <2>2. TypeOK' /\ ControlInv' /\ BufferInv'
    BY <1>3, <2>1 DEF IgnoreOther, TypeOK, ControlInv, BufferInv, messages
  <2>3. MessagesInv' /\ RawInv'
    BY <1>3, <2>1 DEF IgnoreOther, MessagesInv, RawInv, messages
  <2> QED
    BY <2>2, <2>3
<1>4. CASE Dispatch
  <2>1. Pending /\ Handling /\ ~Pending' /\ Handling' /\ pc' = "detections"
    BY <1>4 DEF Dispatch, Disarmed, Pending, Handling
  <2>2. TypeOK' /\ ControlInv'
    BY <1>4 DEF Dispatch, Disarmed, TypeOK, ControlInv, messages
  <2>3. BufferInv'
    BY <1>4, <2>1 DEF Dispatch, BufferInv, Latest
  <2>4. MessagesInv' /\ RawInv'
    BY <1>4, <2>1 DEF Dispatch, MessagesInv, RawInv, messages
  <2> QED
    BY <2>2, <2>3, <2>4
<1>5. CASE PublishDetections
  <2>1. /\ pc = "detections" /\ pc' = "bth0" /\ receive = "none" /\ receive' = "none"
        /\ ~Pending /\ Handling /\ ~Pending' /\ Handling'
    BY <1>5 DEF PublishDetections, ControlInv, Pending, Handling
  <2>2. /\ Len(arrived) > 0 /\ Latest \in Datagrams
        /\ Holds(buffer.cells, 0, Encode(Latest))
    BY <2>1, <1>0 DEF BufferInv, TypeOK, Latest
  <2>3. MessagesInv' /\ (\A k \in DOMAIN detections' :
                          detections'[k] \in Message(detections'[k].header.from.beams))
    <3>1. CASE "detections" \in advertised
      <4>1. PICK flags \in [Beams(NumBeams(buffer.cells)) -> Flags] :
              /\ \A i \in DOMAIN flags : FlagAllowed(buffer.cells, i, flags[i])
              /\ detections' = Append(detections, SonarDetections(buffer.cells, flags))
        BY <1>5, <3>1 DEF PublishDetections, ShouldPublish
      <4> DEFINE msg == SonarDetections(buffer.cells, flags)
      <4>2. MessageOf(Latest, msg)
        BY <2>2, <4>1, MessageFaithful
      <4> HIDE DEF msg
      <4>3. msg \in UNION {Message(n) : n \in BeamCounts}
        BY <2>2, <4>2 DEF MessageOf, Datagrams
      <4>5. detections' = Append(detections, msg)
        BY <4>1 DEF msg
      <4>6. Len(detections) = Len(arrived) - 1
        BY <2>1, <3>1 DEF MessagesInv
      <4>7. /\ Len(detections') = Len(detections) + 1
            /\ detections'[Len(detections) + 1] = msg
            /\ \A k \in 1..Len(detections) : detections'[k] = detections[k]
            /\ detections' \in Seq(UNION {Message(n) : n \in BeamCounts})
            /\ DOMAIN detections' = 1..Len(detections')
        BY <4>3, <4>5 DEF MessagesInv
      <4>8. \A k \in 1..Len(detections') : MessageOf(arrived[k], detections'[k])
        BY <1>0, <4>2, <4>6, <4>7 DEF MessagesInv, Latest
      <4>9. \A k \in 1..Len(detections') :
              detections'[k] \in Message(detections'[k].header.from.beams)
        BY <4>8, MessageType
      <4> QED
        BY <1>0, <1>5, <2>1, <3>1, <4>6, <4>7, <4>8, <4>9 DEF PublishDetections, MessagesInv
    <3>2. CASE "detections" \notin advertised
      BY <1>5, <2>1, <3>2 DEF PublishDetections, ShouldPublish, MessagesInv, TypeOK
    <3> QED
      BY <3>1, <3>2
  <2>4. TypeOK' /\ ControlInv'
    BY <1>5, <2>1, <2>3 DEF PublishDetections, TypeOK, ControlInv
  <2>5. BufferInv' /\ RawInv'
    BY <1>5, <2>1 DEF PublishDetections, BufferInv, Latest, RawInv
  <2> QED
    BY <2>3, <2>4, <2>5
<1>6. CASE PublishRaw
  <2>1. /\ pc = "bth0" /\ pc' = "run" /\ receive' = "armed"
        /\ ~Pending /\ Handling /\ ~Pending' /\ ~Handling'
    BY <1>6 DEF PublishRaw, ControlInv, Pending, Handling
  <2>2. /\ Len(arrived) > 0 /\ Latest \in Datagrams /\ buffer.size = Len(Encode(Latest))
        /\ Holds(buffer.cells, 0, Encode(Latest))
    BY <2>1, <1>0 DEF BufferInv, TypeOK, Latest
  <2>3. raw' \in Seq(Seq(Cells)) /\ RawInv'
    <3>1. CASE "bth0" \in advertised
      <4>1. RawPacket(buffer) = Encode(Latest)
        <5> DEFINE e == Encode(Latest)
        <5>1. e = [k \in 1..Len(e) |-> e[k]] /\ Len(e) \in Nat
          BY <2>2, EncodeCells
        <5> HIDE DEF e
        <5>2. \A k \in 1..Len(e) : buffer.cells[k - 1] = e[k]
          BY <2>2, <5>1 DEF Holds, e
        <5>3. RawPacket(buffer) = [k \in 1..Len(e) |-> buffer.cells[k - 1]]
          BY <2>2 DEF RawPacket, e
        <5>4. [k \in 1..Len(e) |-> buffer.cells[k - 1]] = [k \in 1..Len(e) |-> e[k]]
          BY <5>2
        <5> QED
          BY <5>1, <5>3, <5>4 DEF e
      <4>2. raw' = Append(raw, Encode(Latest)) /\ Encode(Latest) \in Seq(Cells)
        BY <1>6, <2>2, <3>1, <4>1, EncodeCells DEF PublishRaw, ShouldPublish
      <4>3. Len(raw) = Len(arrived) - 1 /\ raw \in Seq(Seq(Cells))
        BY <2>1, <3>1 DEF RawInv, TypeOK
      <4>4. /\ raw' \in Seq(Seq(Cells)) /\ Len(raw') = Len(raw) + 1
            /\ raw'[Len(raw) + 1] = Encode(Latest)
            /\ \A k \in 1..Len(raw) : raw'[k] = raw[k]
        BY <4>2, <4>3
      <4>5. \A k \in 1..Len(raw') : raw'[k] = Encode(arrived[k])
        <5>1. SUFFICES ASSUME NEW k \in 1..Len(raw') PROVE raw'[k] = Encode(arrived[k])
          OBVIOUS
        <5>2. CASE k = Len(arrived)
          BY <1>0, <4>3, <4>4, <5>2 DEF Latest
        <5>3. CASE k # Len(arrived)
          <6>1. k \in 1..Len(raw)
            BY <1>0, <4>3, <4>4, <5>3
          <6> QED
            BY <4>4, <6>1 DEF RawInv
        <5> QED
          BY <5>2, <5>3
      <4> QED
        BY <1>0, <1>6, <2>1, <3>1, <4>3, <4>4, <4>5 DEF PublishRaw, RawInv
    <3>2. CASE "bth0" \notin advertised
      BY <1>6, <2>1, <3>2 DEF PublishRaw, ShouldPublish, RawInv, TypeOK
    <3> QED
      BY <3>1, <3>2
  <2>4. TypeOK' /\ ControlInv' /\ BufferInv'
    BY <1>6, <2>1, <2>3 DEF PublishRaw, TypeOK, ControlInv, BufferInv
  <2>5. MessagesInv'
    BY <1>6, <2>1 DEF PublishRaw, MessagesInv
  <2> QED
    BY <2>3, <2>4, <2>5
<1>7. CASE UNCHANGED vars
  BY <1>7 DEF vars, TypeOK, ControlInv, BufferInv, MessagesInv, RawInv, Pending, Handling,
              IsType, Latest
<1> QED
  BY <1>1, <1>2, <1>3, <1>4, <1>5, <1>6, <1>7 DEF Next

LEMMA Initial == Init => IInv
<1> SUFFICES ASSUME Init PROVE IInv
  OBVIOUS
<1>1. PICK cells \in InitialCells : buffer = [name |-> "other", size |-> 0, cells |-> cells]
  BY DEF Init
<1>2. cells \in [Offsets -> Cells] /\ BufferSize \in Nat
  BY BufferAssumption
<1>3. ~Pending /\ ~Handling
  BY DEF Init, Pending, Handling
<1>4. TypeOK
  BY <1>1, <1>2 DEF Init, TypeOK
<1>5. ControlInv /\ BufferInv /\ MessagesInv /\ RawInv
  BY <1>3 DEF Init, ControlInv, BufferInv, MessagesInv, RawInv
<1> QED
  BY <1>4, <1>5 DEF IInv

LEMMA Invariant == Spec => []IInv
<1>1. Init => IInv
  BY Initial
<1>2. IInv /\ [Next]_vars => IInv'
  BY Inductive
<1> QED
  BY <1>1, <1>2, PTL DEF Spec

(* Every published message has one entry for each beam of its H0.          *)
THEOREM TypeCorrect == Spec => []TypeOK
<1>1. IInv => TypeOK
  BY DEF IInv
<1> QED
  BY <1>1, Invariant, PTL

(* Ranges, intensities and angles are those of the datagram, whatever the  *)
(* reused buffer held before.                                              *)
THEOREM DetectionsStayFaithful == Spec => []DetectionsFaithful
<1>1. IInv => DetectionsFaithful
  <2> SUFFICES ASSUME IInv, NEW k \in DOMAIN detections
               PROVE  MessageOf(arrived[k], detections[k])
    BY DEF MessageOf, BeamFaithful, DetectionsFaithful
  <2> QED
    BY DEF IInv, MessagesInv
<1> QED
  BY <1>1, Invariant, PTL

(* So are the quality flags, when the datagram carries them.               *)
THEOREM FlagsStayFaithful == Spec => []FlagsFaithful
<1>1. IInv => FlagsFaithful
  <2> SUFFICES ASSUME IInv, NEW k \in DOMAIN detections
               PROVE  MessageOf(arrived[k], detections[k])
    BY DEF MessageOf, BeamFaithful, FlagsFaithful
  <2> QED
    BY DEF IInv, MessagesInv
<1> QED
  BY <1>1, Invariant, PTL

(* Each datagram once on every advertised topic, in the order of arrival.  *)
THEOREM TopicsStayTogether == Spec => []TopicsAgree
<1>1. IInv => TopicsAgree
  <2> SUFFICES ASSUME IInv PROVE TopicsAgree
    OBVIOUS
  <2>1. \A k \in DOMAIN raw : raw[k] = Encode(arrived[k])
    <3>1. DOMAIN raw = 1..Len(raw)
      BY DEF IInv, TypeOK
    <3> QED
      BY <3>1 DEF IInv, RawInv
  <2>2. ASSUME receive = "armed"
        PROVE  /\ "bth0" \in advertised => Len(raw) = Len(arrived)
               /\ "detections" \in advertised => Len(detections) = Len(arrived)
    BY <2>2 DEF IInv, ControlInv, RawInv, MessagesInv, Handling, Pending
  <2> QED
    BY <2>1, <2>2 DEF TopicsAgree
<1> QED
  BY <1>1, Invariant, PTL

-----------------------------------------------------------------------------
(* The default flag.  "If Q0 isn't present, default to OK" is refuted by   *)
(* the run bathy_stale_flags: an earlier datagram's Q0 is taken for that   *)
(* of a datagram without.  A sonar that never sends one leaves none.       *)

NoQualityStored ==
  /\ \A sections \in SectionSets : "Q0" \notin sections
  /\ \A cells \in InitialCells, k \in Offsets : cells[k].section # "Q0"

(* Behind a datagram there is room for a G1, as in the 262144 bytes of     *)
(* recv_buffer_, where a section has at most 65535.                        *)
RoomBehind ==
  \A d \in Datagrams, n \in BeamCounts : Len(Encode(d)) + Length("G1", n) < BufferSize

PlainCells == { c \in Cells : c.section # "Q0" }

LEMMA EncodePlain ==
  ASSUME NoQualityStored, NEW d \in Datagrams
  PROVE  Encode(d) \in Seq(PlainCells)
<1>1. "Q0" \notin d.sections
  BY DEF NoQualityStored, Datagrams
<1>2. ASSUME NEW s \in Names \ {"Q0"} PROVE Section(d, s) \in Seq(PlainCells)
  <2>1. d.beams \in BeamCounts
    BY DEF Datagrams
  <2>2. Length(s, d.beams) \in Nat
    BY <2>1, LengthPositive
  <2>3. \A k \in 1..Length(s, d.beams) : CellOf(d, s, k - 1) \in PlainCells
    <3>1. SUFFICES ASSUME NEW k \in 1..Length(s, d.beams) PROVE CellOf(d, s, k - 1) \in PlainCells
      OBVIOUS
    <3>2. k - 1 \in Nat
      BY <2>2
    <3>3. CellOf(d, s, k - 1) \in Cells
      BY <3>2, CellOfType
    <3> QED
      BY <3>3 DEF PlainCells, CellOf
  <2> QED
    BY <2>2, <2>3 DEF Section
<1>3. Section(d, "Q0") \in Seq(PlainCells)
  BY <1>1 DEF Section
<1>4. /\ Section(d, "H0") \in Seq(PlainCells) /\ Section(d, "R0") \in Seq(PlainCells)
      /\ Section(d, "A0") \in Seq(PlainCells) /\ Section(d, "A2") \in Seq(PlainCells)
      /\ Section(d, "I1") \in Seq(PlainCells) /\ Section(d, "G0") \in Seq(PlainCells)
      /\ Section(d, "G1") \in Seq(PlainCells)
  BY <1>2 DEF Names
<1> QED
  BY <1>3, <1>4 DEF Encode

PlainMemory == \A k \in Offsets : buffer.cells[k].section # "Q0"

FlagsAllOk ==
  \A k \in DOMAIN detections :
    \A i \in DOMAIN detections[k].beams : detections[k].beams[i].flag = "DETECT_OK"

(* Where the driver looks for Q0 is in the buffer, and no Q0 is there.     *)
LEMMA NoQualityFound ==
  ASSUME NoQualityStored, RoomBehind, TypeOK, PlainMemory,
         NEW d \in Datagrams, Holds(buffer.cells, 0, Encode(d))
  PROVE  ~Exists(buffer.cells, Q0(buffer.cells), "Q0")
<1> DEFINE m == buffer.cells
<1>1. /\ m \in [Offsets -> Cells] /\ BufferSize \in Nat
  BY BufferAssumption DEF TypeOK
<1>2. G1(m) \in Nat /\ G1(m) <= Len(Encode(d)) /\ Len(Encode(d)) \in Nat
  <2>1. Encode(d) \in Seq(Cells)
    BY EncodeCells
  <2> QED
    BY <2>1, LayoutHolds
<1> HIDE DEF m
<1>3. Len(Encode(d)) < BufferSize
  BY BufferAssumption
<1>4. G1(m) \in Offsets
  BY <1>1, <1>2, <1>3 DEF Offsets
<1>5. m[G1(m)].from.beams \in BeamCounts
  BY <1>1, <1>4 DEF Cells, Datagrams
<1>6. Q0(m) \in Offsets
  <2>1. CASE Exists(m, G1(m), "G1")
    <3> DEFINE n == m[G1(m)].from.beams
    <3>1. Length("G1", n) \in Nat /\ Len(Encode(d)) + Length("G1", n) < BufferSize
      BY <1>5, LengthPositive DEF RoomBehind, Names
    <3>2. Q0(m) = G1(m) + Length("G1", n)
      BY <2>1 DEF Q0, End
    <3> HIDE DEF n
    <3> QED
      BY <1>1, <1>2, <3>1, <3>2 DEF Offsets
  <2>2. CASE ~Exists(m, G1(m), "G1")
    BY <1>4, <2>2 DEF Q0, End
  <2> QED
    BY <2>1, <2>2
<1> QED
  BY <1>6 DEF PlainMemory, Exists, m

LEMMA AllOkNext ==
  ASSUME NoQualityStored, RoomBehind
  PROVE  IInv /\ PlainMemory /\ FlagsAllOk /\ [Next]_vars => PlainMemory' /\ FlagsAllOk'
<1> SUFFICES ASSUME IInv, PlainMemory, FlagsAllOk, [Next]_vars
             PROVE  PlainMemory' /\ FlagsAllOk'
  OBVIOUS
<1>1. ASSUME UNCHANGED detections PROVE FlagsAllOk'
  BY <1>1 DEF FlagsAllOk
<1>2. ASSUME NEW d \in Datagrams, Arrive(d) PROVE PlainMemory' /\ FlagsAllOk'
  <2>1. buffer'.cells = Written(buffer.cells, Encode(d)) /\ UNCHANGED detections
    BY <1>2 DEF Arrive, messages
  <2>2. Encode(d) \in Seq(PlainCells)
    BY EncodePlain
  <2>3. ASSUME NEW k \in Offsets PROVE Written(buffer.cells, Encode(d))[k].section # "Q0"
    <3>1. CASE k < Len(Encode(d))
      <4>1. k + 1 \in 1..Len(Encode(d))
        BY <2>2, <3>1, BufferAssumption DEF Offsets
      <4>2. Encode(d)[k + 1] \in PlainCells
        BY <2>2, <4>1
      <4> QED
        BY <3>1, <4>2 DEF Written, PlainCells
    <3>2. CASE ~(k < Len(Encode(d)))
      BY <3>2 DEF Written, PlainMemory
    <3> QED
      BY <3>1, <3>2
  <2> QED
    BY <1>1, <2>1, <2>3 DEF PlainMemory
<1>3. ASSUME NEW n \in OtherLengths, NEW bytes \in InitialCells, ArriveOther(n, bytes)
      PROVE  PlainMemory' /\ FlagsAllOk'
  <2>1. \A k \in Offsets : buffer'.cells[k] = IF k < n THEN bytes[k] ELSE buffer.cells[k]
    BY <1>3 DEF ArriveOther
  <2>2. PlainMemory'
    BY <2>1 DEF PlainMemory, NoQualityStored
  <2> QED
    BY <1>1, <1>3, <2>2 DEF ArriveOther, messages
<1>4. CASE IgnoreOther \/ Dispatch \/ PublishRaw \/ UNCHANGED vars
  BY <1>1, <1>4 DEF IgnoreOther, Dispatch, PublishRaw, vars, messages, PlainMemory
<1>5. CASE PublishDetections
  <2>1. UNCHANGED buffer /\ PlainMemory'
    BY <1>5 DEF PublishDetections, PlainMemory
  <2>2. Latest \in Datagrams /\ Holds(buffer.cells, 0, Encode(Latest)) /\ TypeOK
    BY <1>5 DEF PublishDetections, IInv, BufferInv, Handling, TypeOK, Latest
  <2>3. ~Exists(buffer.cells, Q0(buffer.cells), "Q0")
    BY <2>2, NoQualityFound
  <2>4. CASE "detections" \in advertised
    <3>1. PICK flags \in [Beams(NumBeams(buffer.cells)) -> Flags] :
            /\ \A i \in DOMAIN flags : FlagAllowed(buffer.cells, i, flags[i])
            /\ detections' = Append(detections, SonarDetections(buffer.cells, flags))
      BY <1>5, <2>4 DEF PublishDetections, ShouldPublish
    <3>2. \A i \in Beams(NumBeams(buffer.cells)) : flags[i] = "DETECT_OK"
      BY <2>3, <3>1 DEF FlagAllowed
    <3> DEFINE msg == SonarDetections(buffer.cells, flags)
    <3>3. \A i \in DOMAIN msg.beams : msg.beams[i].flag = "DETECT_OK"
      BY <3>2 DEF SonarDetections
    <3> HIDE DEF msg
    <3>4. /\ detections' = Append(detections, msg)
          /\ detections \in Seq(UNION {Message(n) : n \in BeamCounts})
      BY <3>1 DEF msg, IInv, MessagesInv
    <3>5. \A k \in DOMAIN detections' :
            \/ k \in DOMAIN detections /\ detections'[k] = detections[k]
            \/ detections'[k] = msg
      BY <3>4
    <3> QED
      BY <2>1, <3>3, <3>5 DEF FlagsAllOk
  <2>5. CASE "detections" \notin advertised
    BY <1>1, <1>5, <2>1, <2>5 DEF PublishDetections, ShouldPublish
  <2> QED
    BY <2>4, <2>5
<1> QED
  BY <1>2, <1>3, <1>4, <1>5 DEF Next

(* As long as the sonar is never configured to send Q0, and none is in     *)
(* memory when the process starts, every beam is flagged DETECT_OK, with   *)
(* whatever other sections and lengths the datagrams come.                 *)
THEOREM NoQualityDefaultsToOk ==
  ASSUME NoQualityStored, RoomBehind
  PROVE  Spec => []NoQualityMeansOk
<1>1. Init => PlainMemory /\ FlagsAllOk
  BY DEF Init, PlainMemory, FlagsAllOk, NoQualityStored
<1>2. IInv /\ PlainMemory /\ FlagsAllOk /\ [Next]_vars => PlainMemory' /\ FlagsAllOk'
  BY AllOkNext
<1>3. FlagsAllOk => NoQualityMeansOk
  BY DEF FlagsAllOk, NoQualityMeansOk
<1> QED
  BY <1>1, <1>2, <1>3, Invariant, PTL DEF Spec
=============================================================================
