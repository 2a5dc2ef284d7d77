-------------------------- MODULE AidAssembly_proofs --------------------------
(***************************************************************************)
(* Proofs about AidAssembly, for every cut of a ping into sections that    *)
(* lie in the image, every number of pings, sessions and datagrams, every  *)
(* window, every content of unwritten memory and all faults of the network.*)
(***************************************************************************)
EXTENDS AidAssembly, TLAPS

USE DEF Pings

-----------------------------------------------------------------------------
(* Lemmas about the operators of the assembler.                            *)

(* operator[] returns an assembler, found or fresh.                        *)
LEMMA AssemblerType ==
  ASSUME TypeOK, NEW ping \in Pings, NEW garbage \in Garbage
  PROVE  Assembler(ping, garbage) \in Assemblers
BY MemoryAssumption DEF TypeOK, Assembler, Fresh, Assemblers

(* A header overwrites PingNumber and header, and nothing else.            *)
LEMMA WithHeaderType ==
  ASSUME NEW a \in Assemblers, NEW d \in Datagrams
  PROVE  /\ WithHeader(a, d) \in Assemblers
         /\ WithHeader(a, d).h0 = d.ping
         /\ WithHeader(a, d).header = <<d.session, d.ping>>
         /\ WithHeader(a, d).pixels = a.pixels
BY DEF WithHeader, Tag, Tags, Assemblers, Datagrams

(* Image data has all its cells once it is resized.                        *)
LEMMA RasterType ==
  ASSUME NEW a \in Assemblers
  PROVE  Raster(a) \in Rasters
BY DEF Raster, Rasters, Assemblers, Pixels

(* A number below the size of a type is not cut off by it.                 *)
LEMMA SmallUncut ==
  ASSUME NEW n \in Nat, NEW i \in Nat, i < n
  PROVE  i % n = i
BY SMT

(* Bin x of beam y, of b bins each, is number x + y b; back again.         *)
LEMMA IndexOfBin ==
  ASSUME NEW x \in Nat, NEW y \in Nat, NEW b \in Nat, NEW n \in Nat, x < b, y < n
  PROVE  /\ x + y * b \in Nat
         /\ x + y * b < b * n
         /\ (x + y * b) % b = x
         /\ (x + y * b) \div b = y
<1>1. x + y * b \in Nat
  BY SMT
<1>2. y * b + b <= b * n
  <2>1. PICK k \in Nat : n = y + 1 + k
    BY SMT
  <2>2. b * n = y * b + b + b * k
    BY <2>1, SMT
  <2>3. b * k \in Nat
    BY <2>1, SMT
  <2> QED
    BY <2>2, <2>3, SMT
<1>3. (x + y * b) % b = x /\ (x + y * b) \div b = y
  BY SMT
<1> QED
  BY <1>1, <1>2, <1>3

(* M0::magnitude finds the measurement of every cell its section covers:   *)
(* no index is cut off as long as a bin number fits in u16.                *)
LEMMA MagnitudeInPlace ==
  ASSUME NEW d \in Datagrams, d.part > 0, NEW c \in Cells, Covers(Sections[d.part], c)
  PROVE  Magnitude(d, c) = <<d.session, d.ping, c>>
<1> DEFINE s == Sections[d.part]
           x == c[1] - s.firstBin
           y == c[2] - s.firstBeam
<1>1. s \in SectionType /\ s.bins * s.beams \in 0..U32
  BY SectionAssumption DEF Datagrams
<1>2. /\ c[1] \in Nat /\ c[1] < U16 /\ c[2] \in Nat
      /\ c = <<c[1], c[2]>>
  BY SectionAssumption DEF Cells, Bins, Beams
<1>3. /\ s.bins \in Nat /\ s.beams \in Nat /\ s.firstBin \in Nat /\ s.firstBeam \in Nat
  <2> HIDE DEF s
  <2>1. s.bins \in Nat /\ s.beams \in Nat /\ s.firstBin \in Bins /\ s.firstBeam \in Beams
    BY <1>1 DEF SectionType
  <2>2. Bins \subseteq Nat /\ Beams \subseteq Nat
    BY DEF Bins, Beams
  <2> QED
    BY <2>1, <2>2
<1>4. x \in Nat /\ x < s.bins /\ y \in Nat /\ y < s.beams
  BY <1>2, <1>3 DEF Covers
<1>5. c[1] % U16 = c[1]
  <2>1. U16 \in Nat
    BY SectionAssumption
  <2> QED
    BY <1>2, <2>1, SmallUncut
<1> HIDE DEF s
<1>6. MagnitudeIndex(s, c) = (x + y * s.bins) % U32
  BY <1>5 DEF MagnitudeIndex
<1> HIDE DEF x, y
<1>7. /\ x + y * s.bins \in Nat /\ x + y * s.bins < s.bins * s.beams
      /\ (x + y * s.bins) % s.bins = x /\ (x + y * s.bins) \div s.bins = y
  BY <1>3, <1>4, IndexOfBin
<1>8. (x + y * s.bins) % U32 = x + y * s.bins
  <2>1. s.bins * s.beams <= U32 /\ U32 \in Nat /\ s.bins * s.beams \in Nat
    BY <1>1, PingAssumption DEF s
  <2>2. x + y * s.bins \in Nat /\ x + y * s.bins < U32
    BY <1>7, <2>1
  <2> QED
    BY <2>1, <2>2, SmallUncut
<1>9. MeasuredAt(s, MagnitudeIndex(s, c)) = <<s.firstBin + x, s.firstBeam + y>>
  BY <1>6, <1>7, <1>8 DEF MeasuredAt
<1>10. s.firstBin + x = c[1] /\ s.firstBeam + y = c[2]
  BY <1>2, <1>3 DEF x, y
<1> QED
  BY <1>2, <1>9, <1>10 DEF Magnitude, s

(* Where addPacket writes the magnitude of a cell: data_idx.  A section    *)
(* writes inside the image data, and each cell has a place of its own:     *)
(* that is why WithSection can speak of cells.                             *)
DataIndex(c) == c[1] * TotalBeams + c[2]

LEMMA WritesInPlace ==
  ASSUME NEW part \in DOMAIN Sections, NEW c \in Nat \X Nat, Covers(Sections[part], c)
  PROVE  /\ c \in Cells
         /\ DataIndex(c) \in 0..TotalBeams * TotalBins - 1
         /\ \A e \in Cells : DataIndex(e) = DataIndex(c) => e = c
<1> DEFINE s == Sections[part]
<1>1. s \in SectionType /\ TotalBins \in Nat /\ TotalBeams \in Nat
  BY SectionAssumption
<1>2. s.firstBin + s.bins <= TotalBins /\ s.firstBeam + s.beams <= TotalBeams
  BY RasterAssumption
<1> HIDE DEF s
<1>3. /\ s.bins \in Nat /\ s.beams \in Nat
      /\ s.firstBin \in Int /\ s.firstBeam \in Int
  BY <1>1 DEF SectionType, Bins, Beams
<1>4. c[1] < TotalBins /\ c[2] < TotalBeams
  <2>1. c[1] <= s.firstBin + s.bins - 1 /\ c[2] <= s.firstBeam + s.beams - 1
    BY DEF Covers, s
  <2> QED
    BY <1>1, <1>2, <1>3, <2>1
<1>5. c \in Cells
  BY <1>1, <1>4 DEF Cells, Bins, Beams
<1>6. ASSUME NEW e \in Cells
      PROVE  /\ e = <<e[1], e[2]>>
             /\ e[2] + e[1] * TotalBeams \in Nat
             /\ e[2] + e[1] * TotalBeams < TotalBeams * TotalBins
             /\ (e[2] + e[1] * TotalBeams) % TotalBeams = e[2]
             /\ (e[2] + e[1] * TotalBeams) \div TotalBeams = e[1]
  <2>1. /\ e = <<e[1], e[2]>> /\ e[1] \in Nat /\ e[2] \in Nat
        /\ e[1] < TotalBins /\ e[2] < TotalBeams
    BY <1>1 DEF Cells, Bins, Beams
  <2> QED
    BY <1>1, <2>1, IndexOfBin
<1>7. ASSUME NEW e \in Cells PROVE DataIndex(e) = e[2] + e[1] * TotalBeams
  <2>1. e[1] * TotalBeams \in Int /\ e[2] \in Int
    BY <1>1 DEF Cells, Bins, Beams
  <2> QED
    BY <2>1 DEF DataIndex
<1>8. DataIndex(c) \in 0..TotalBeams * TotalBins - 1
  BY <1>1, <1>5, <1>6, <1>7
<1>9. ASSUME NEW e \in Cells, DataIndex(e) = DataIndex(c) PROVE e = c
  BY <1>5, <1>6, <1>7, <1>9
<1> QED
  BY <1>5, <1>8, <1>9

(* A section writes cells of the image data, and nothing else.             *)
LEMMA WithSectionType ==
  ASSUME NEW a \in Assemblers, NEW d \in Datagrams, d.part > 0
  PROVE  /\ WithSection(a, d) \in Assemblers
         /\ WithSection(a, d).pixels \in Rasters
         /\ WithSection(a, d).h0 = a.h0
         /\ WithSection(a, d).header = a.header
         /\ \A c \in Cells :
              \/ WithSection(a, d).pixels[c] = <<d.session, d.ping, c>>
              \/ WithSection(a, d).pixels[c] = Raster(a)[c]
<1> DEFINE pixels == [c \in Cells |->
             IF Covers(Sections[d.part], c) THEN Magnitude(d, c) ELSE Raster(a)[c]]
<1>1. \A c \in Cells : <<d.session, d.ping, c>> \in Pixels
  BY DEF Pixels, Cells, Bins, Beams, Datagrams
<1>2. \A c \in Cells : pixels[c] = <<d.session, d.ping, c>> \/ pixels[c] = Raster(a)[c]
  BY MagnitudeInPlace
<1>3. pixels \in Rasters
  BY <1>1, <1>2, RasterType DEF Rasters
<1>4. WithSection(a, d) = [a EXCEPT !.pixels = pixels]
  BY DEF WithSection
<1> HIDE DEF pixels
<1>5. /\ WithSection(a, d) \in Assemblers
      /\ WithSection(a, d).pixels = pixels
      /\ WithSection(a, d).h0 = a.h0
      /\ WithSection(a, d).header = a.header
  BY <1>3, <1>4 DEF Assemblers
<1> QED
  BY <1>2, <1>3, <1>5

(* Erasing and cleaning only take assemblers out of the map: the published *)
(* one, and those the unsigned comparison takes for old.                   *)
LEMMA CleaningRemoves ==
  ASSUME NEW ping
  PROVE  LET map == CleanMsgMap(Erased(assemblers, ping), ping) IN
           /\ DOMAIN map = { q \in DOMAIN assemblers :
                               q # ping /\ ~((ping - Window) % U32 > q) }
           /\ \A q \in DOMAIN map : map[q] = assemblers[q]
BY DEF CleanMsgMap, Erased, RestrictDomain, Restrict

-----------------------------------------------------------------------------
(* Type correctness.                                                       *)

LEMMA TypeInit == Init => TypeOK
BY PingAssumption DEF Init, TypeOK, Images

LEMMA TypeNext == TypeOK /\ [Next]_vars => TypeOK'
<1> SUFFICES ASSUME TypeOK, [Next]_vars PROVE TypeOK'
  OBVIOUS
<1> USE PingAssumption DEF TypeOK
<1>1. CASE EmitPing
  <2>1. nextPing' \in Pings
    BY <1>1 DEF EmitPing
  <2>2. air' \in SUBSET Datagrams
    BY <1>1, SectionAssumption DEF EmitPing, Datagrams
  <2> QED
    BY <1>1, <2>1, <2>2 DEF EmitPing
<1>2. CASE Reboot
  BY <1>2 DEF Reboot
<1>3. ASSUME NEW d \in air, Lose(d) PROVE TypeOK'
  BY <1>3 DEF Lose
<1>4. ASSUME NEW d \in air, Duplicate(d) PROVE TypeOK'
  BY <1>4 DEF Duplicate, Datagrams
<1>5. ASSUME NEW d \in air, Take(d)
      PROVE  air' \in SUBSET Datagrams /\ raw' \in SUBSET Contents
  BY <1>5 DEF Take, Content, Contents, Datagrams
<1>6. ASSUME NEW ping \in Pings, NEW a \in Assemblers,
             assemblers' = WithAssembler(ping, a)
      PROVE  /\ DOMAIN assemblers' \subseteq Pings
             /\ \A q \in DOMAIN assemblers' : assemblers'[q] \in Assemblers
  BY <1>6 DEF WithAssembler
<1>7. ASSUME NEW d \in air, ReceiveRawOnly(d) PROVE TypeOK'
  BY <1>5, <1>7 DEF ReceiveRawOnly
<1>8. ASSUME NEW d \in air, ReceiveHeader(d) PROVE TypeOK'
  <2>1. PICK ping \in PingNo(d), garbage \in Garbage :
          assemblers' = WithAssembler(ping, WithHeader(Assembler(ping, garbage), d))
    BY <1>8 DEF ReceiveHeader
  <2>2. ping \in Pings
    BY MemoryAssumption DEF PingNo, Datagrams
  <2>3. WithHeader(Assembler(ping, garbage), d) \in Assemblers
    BY <2>2, AssemblerType, WithHeaderType
  <2> QED
    BY <1>5, <1>6, <1>8, <2>1, <2>2, <2>3 DEF ReceiveHeader
<1>9. ASSUME NEW d \in air, NEW garbage \in Garbage, d.part > 0
      PROVE  /\ d.ping \in Pings
             /\ Assembler(d.ping, garbage) \in Assemblers
             /\ WithSection(Assembler(d.ping, garbage), d) \in Assemblers
             /\ WithSection(Assembler(d.ping, garbage), d).pixels \in Rasters
  BY <1>9, AssemblerType, WithSectionType DEF Datagrams
<1>10. ASSUME NEW d \in air, IgnoreSection(d) PROVE TypeOK'
  BY <1>5, <1>6, <1>9, <1>10 DEF IgnoreSection
<1>11. ASSUME NEW d \in air, StoreSection(d) PROVE TypeOK'
  BY <1>5, <1>6, <1>9, <1>11 DEF StoreSection
<1>12. ASSUME NEW d \in air, CompleteImage(d) PROVE TypeOK'
  <2>1. PICK garbage \in Garbage :
          LET image == WithSection(Assembler(d.ping, garbage), d) IN
          /\ images' = Append(images, [ping   |-> d.ping,
                                       header |-> image.header,
                                       pixels |-> image.pixels])
          /\ assemblers' = CleanMsgMap(Erased(assemblers, d.ping), d.ping)
    BY <1>12 DEF CompleteImage
  <2>2. images' \in Seq(Images)
    BY <1>9, <1>12, <2>1 DEF Images, Assemblers, CompleteImage
  <2>3. /\ DOMAIN assemblers' \subseteq Pings
        /\ \A q \in DOMAIN assemblers' : assemblers'[q] \in Assemblers
    BY <2>1, CleaningRemoves
  <2> QED
    BY <1>5, <1>12, <2>2, <2>3 DEF CompleteImage
<1>13. CASE UNCHANGED vars
  BY <1>13 DEF vars
<1> QED
  BY <1>1, <1>2, <1>3, <1>4, <1>7, <1>8, <1>10, <1>11, <1>12, <1>13
  DEF Next, Receive

(* Every variable keeps its type: in particular an image is published with *)
(* all its cells and assemblers are filed under u32 ping numbers.          *)
THEOREM TypeCorrect == Spec => []TypeOK
BY TypeInit, TypeNext, PTL DEF Spec

-----------------------------------------------------------------------------
(* Isolation.  ImagesIsolated is not inductive: what an image shows is what *)
(* its assembler held, so the invariant is carried by AssemblersIsolated.   *)

IsolatedAt(ping, a) ==
  /\ a.header # None => a.h0 = a.header[2]
  /\ a.pixels # NoPixels => OfPing(a.pixels, ping)

IsolationInv == TypeOK /\ AssemblersIsolated /\ ImagesIsolated

(* The assembler operator[] returns is isolated, a fresh one because it    *)
(* has neither header nor pixels.                                          *)
LEMMA AssemblerIsolated ==
  ASSUME AssemblersIsolated, NEW ping, NEW garbage
  PROVE  IsolatedAt(ping, Assembler(ping, garbage))
BY DEF AssemblersIsolated, IsolatedAt, Assembler, Fresh

(* The first cell of a raster tells it from data of size 0 only if there   *)
(* are cells; with or without, resized data are of the ping.               *)
LEMMA RasterIsolated ==
  ASSUME NEW ping, NEW a \in Assemblers, IsolatedAt(ping, a)
  PROVE  OfPing(Raster(a), ping)
BY DEF Raster, OfPing, IsolatedAt

(* A section filed under its own ping number keeps the assembler isolated. *)
LEMMA SectionIsolated ==
  ASSUME NEW d \in Datagrams, NEW a \in Assemblers, d.part > 0, IsolatedAt(d.ping, a)
  PROVE  /\ IsolatedAt(d.ping, WithSection(a, d))
         /\ OfPing(WithSection(a, d).pixels, d.ping)
<1>1. OfPing(WithSection(a, d).pixels, d.ping)
  BY WithSectionType, RasterIsolated DEF OfPing
<1> QED
  BY <1>1, WithSectionType DEF IsolatedAt

LEMMA IsolationInit == Init => IsolationInv
BY TypeInit DEF Init, IsolationInv, AssemblersIsolated, ImagesIsolated

LEMMA IsolationNext == IsolationInv /\ [Next]_vars => IsolationInv'
<1> SUFFICES ASSUME TypeOK, AssemblersIsolated, ImagesIsolated, [Next]_vars
             PROVE  AssemblersIsolated' /\ ImagesIsolated'
  BY TypeNext DEF IsolationInv
<1>1. ASSUME UNCHANGED <<assemblers, images>>
      PROVE  AssemblersIsolated' /\ ImagesIsolated'
  BY <1>1 DEF AssemblersIsolated, ImagesIsolated
<1>2. ASSUME NEW ping, NEW a, IsolatedAt(ping, a),
             assemblers' = WithAssembler(ping, a)
      PROVE  AssemblersIsolated'
  BY <1>2 DEF AssemblersIsolated, IsolatedAt, WithAssembler, OfPing
<1>3. ASSUME UNCHANGED images PROVE ImagesIsolated'
  BY <1>3 DEF ImagesIsolated
<1>4. ASSUME NEW d \in air, NEW garbage \in Garbage
      PROVE  /\ d \in Datagrams
             /\ d.ping \in Pings
             /\ Assembler(d.ping, garbage) \in Assemblers
             /\ IsolatedAt(d.ping, Assembler(d.ping, garbage))
  BY AssemblerType, AssemblerIsolated DEF TypeOK, Datagrams
<1>5. ASSUME NEW d \in air, ReceiveHeader(d)
      PROVE  AssemblersIsolated' /\ ImagesIsolated'
  <2>1. PICK ping \in PingNo(d), garbage \in Garbage :
          assemblers' = WithAssembler(ping, WithHeader(Assembler(ping, garbage), d))
    BY <1>5 DEF ReceiveHeader
  <2>2. ping \in Pings /\ d \in Datagrams
    BY MemoryAssumption DEF PingNo, Datagrams, TypeOK
  <2> DEFINE a == Assembler(ping, garbage)
  <2>3. a \in Assemblers /\ IsolatedAt(ping, a)
    BY <2>2, AssemblerType, AssemblerIsolated
  <2> HIDE DEF a
  <2>4. IsolatedAt(ping, WithHeader(a, d))
    BY <2>2, <2>3, WithHeaderType DEF IsolatedAt
  <2> QED
    BY <1>2, <1>3, <1>5, <2>1, <2>4 DEF ReceiveHeader, a
<1>6. ASSUME NEW d \in air, IgnoreSection(d)
      PROVE  AssemblersIsolated' /\ ImagesIsolated'
  BY <1>2, <1>3, <1>4, <1>6 DEF IgnoreSection
<1>7. ASSUME NEW d \in air, StoreSection(d)
      PROVE  AssemblersIsolated' /\ ImagesIsolated'
  BY <1>2, <1>3, <1>4, <1>7, SectionIsolated DEF StoreSection
<1>8. ASSUME NEW d \in air, CompleteImage(d)
      PROVE  AssemblersIsolated' /\ ImagesIsolated'
  <2>1. PICK garbage \in Garbage :
          LET a == Assembler(d.ping, garbage)
              image == WithSection(a, d) IN
          /\ Matches(a, d)
          /\ images' = Append(images, [ping   |-> d.ping,
                                       header |-> image.header,
                                       pixels |-> image.pixels])
          /\ assemblers' = CleanMsgMap(Erased(assemblers, d.ping), d.ping)
    BY <1>8 DEF CompleteImage
  <2>2. AssemblersIsolated'
    <3>1. \A q \in DOMAIN assemblers' :
            q \in DOMAIN assemblers /\ assemblers'[q] = assemblers[q]
      BY <2>1, CleaningRemoves
    <3>2. \A q \in DOMAIN assemblers :
            LET b == assemblers[q] IN
              /\ b.header # None => b.h0 = b.header[2]
              /\ b.pixels # NoPixels => OfPing(b.pixels, q)
      BY DEF AssemblersIsolated
    <3>3. \A q \in DOMAIN assemblers' :
            LET b == assemblers'[q] IN
              /\ b.header # None => b.h0 = b.header[2]
              /\ b.pixels # NoPixels => OfPing(b.pixels, q)
      BY <3>1, <3>2
    <3> QED
      BY <3>3 DEF AssemblersIsolated, OfPing
  <2> DEFINE a     == Assembler(d.ping, garbage)
             image == [ping   |-> d.ping,
                       header |-> WithSection(a, d).header,
                       pixels |-> WithSection(a, d).pixels]
  <2>3. image.header # None => image.header[2] = image.ping
    <3>1. /\ WithSection(a, d).header = a.header
          /\ a.header # None => a.h0 = a.header[2]
      BY <1>4, <1>8, WithSectionType DEF IsolatedAt, CompleteImage
    <3>2. a.h0 = d.ping
      BY <2>1 DEF Matches
    <3> QED
      BY <3>1, <3>2
  <2>4. OfPing(image.pixels, image.ping)
    BY <1>4, <1>8, SectionIsolated DEF CompleteImage
  <2>5. images' = Append(images, image)
    BY <2>1
  <2> HIDE DEF image
  <2>6. \A i \in DOMAIN images' :
          \/ i \in DOMAIN images /\ images'[i] = images[i]
          \/ images'[i] = image
    BY <2>5 DEF TypeOK
  <2>7. ImagesIsolated'
    BY <2>3, <2>4, <2>6 DEF ImagesIsolated, OfPing
  <2> QED
    BY <2>2, <2>7
<1>9. CASE EmitPing
  BY <1>1, <1>9 DEF EmitPing
<1>10. CASE Reboot
  BY <1>1, <1>10 DEF Reboot
<1>11. ASSUME NEW d \in air, Lose(d) \/ Duplicate(d) \/ ReceiveRawOnly(d)
       PROVE  AssemblersIsolated' /\ ImagesIsolated'
  BY <1>1, <1>11 DEF Lose, Duplicate, ReceiveRawOnly
<1>12. CASE UNCHANGED vars
  BY <1>1, <1>12 DEF vars
<1> QED
  BY <1>5, <1>6, <1>7, <1>8, <1>9, <1>10, <1>11, <1>12 DEF Next, Receive

(* No image ever shows two ping numbers, whatever UDP does to the          *)
(* datagrams and whatever the memory of a fresh assembler or the bytes     *)
(* behind a header datagram hold.                                          *)
THEOREM ImagesStayIsolated == Spec => []ImagesIsolated
<1>1. IsolationInv => ImagesIsolated
  BY DEF IsolationInv
<1> QED
  BY <1>1, IsolationInit, IsolationNext, PTL DEF Spec

(* Nor does an assembler.                                                  *)
THEOREM AssemblersStayIsolated == Spec => []AssemblersIsolated
<1>1. IsolationInv => AssemblersIsolated
  BY DEF IsolationInv
<1> QED
  BY <1>1, IsolationInit, IsolationNext, PTL DEF Spec

-----------------------------------------------------------------------------
(* Cleaning.                                                               *)

(* For pings numbered at least Window the unsigned comparison is the plain *)
(* one, so cleaning takes out exactly the pings more than Window older.    *)
LEMMA NoWrapFromWindow ==
  ASSUME NEW ping \in Pings, ping >= Window
  PROVE  (ping - Window) % U32 = ping - Window
<1>1. ping - Window \in 0..U32 - 1
  BY PingAssumption
<1> QED
  BY <1>1, PingAssumption

LEMMA StepDropsOnlyStale == TypeOK /\ [Next]_vars => (DropsOnlyStale \/ UNCHANGED vars)
<1> SUFFICES ASSUME TypeOK, [Next]_vars, ~UNCHANGED vars PROVE DropsOnlyStale
  OBVIOUS
<1>1. ASSUME DOMAIN assemblers \subseteq DOMAIN assemblers' PROVE DropsOnlyStale
  BY <1>1 DEF DropsOnlyStale
<1>2. ASSUME NEW d \in air, Lose(d) \/ Duplicate(d) \/ ReceiveRawOnly(d)
      PROVE  DropsOnlyStale
  BY <1>1, <1>2 DEF Lose, Duplicate, ReceiveRawOnly
<1>3. ASSUME NEW d \in air, ReceiveHeader(d) \/ IgnoreSection(d) \/ StoreSection(d)
      PROVE  DropsOnlyStale
  BY <1>1, <1>3 DEF ReceiveHeader, IgnoreSection, StoreSection, WithAssembler
<1>4. ASSUME NEW d \in air, CompleteImage(d) PROVE DropsOnlyStale
  <2>1. PICK image :
          /\ image.ping = d.ping
          /\ images' = Append(images, image)
          /\ assemblers' = CleanMsgMap(Erased(assemblers, d.ping), d.ping)
    BY <1>4 DEF CompleteImage
  <2>2. /\ Len(images') = Len(images) + 1
        /\ images'[Len(images')] = image
    BY <2>1 DEF TypeOK
  <2>3. ASSUME NEW q \in DOMAIN assemblers \ DOMAIN assemblers', q # d.ping
        PROVE  q < d.ping - Window \/ d.ping < Window
    <3>1. q \in Pings /\ d.ping \in Pings
      BY DEF TypeOK, Datagrams
    <3>2. (d.ping - Window) % U32 > q
      BY <2>1, <2>3, CleaningRemoves
    <3> QED
      BY <3>1, <3>2, NoWrapFromWindow, PingAssumption
  <2> QED
    BY <2>1, <2>2, <2>3 DEF DropsOnlyStale
<1>5. CASE EmitPing \/ Reboot
  BY <1>1, <1>5 DEF EmitPing, Reboot
<1> QED
  BY <1>2, <1>3, <1>4, <1>5 DEF Next, Receive

(* An unfinished image is only thrown away when an image more than Window  *)
(* pings newer is published, unless that one is numbered below Window.     *)
THEOREM WindowKept == Spec => CompletionSparesWindow
<1>1. TypeOK /\ [Next]_vars => [DropsOnlyStale]_vars
  BY StepDropsOnlyStale
<1> QED
  BY <1>1, TypeCorrect, PTL DEF Spec, CompletionSparesWindow
-----------------------------------------------------------------------------
(* Publishing once.  Without duplicates a header is in one place at a time: *)
(* in the air, in one assembler, or in one image.  PublishedOnce is the     *)
(* last of the three, and needs the other two to be inductive, and that the *)
(* sonar never numbers two pings of a session alike.                        *)

Headers == { Tag(d) : d \in { e \in air : e.part = 0 } }

Used(t) ==
  \/ t \in Headers
  \/ \E q \in DOMAIN assemblers : assemblers[q].header = t
  \/ \E i \in DOMAIN images : images[i].header = t

AirOnce == \A d \in air : d.copy = 1

HeldOnce ==
  \A q \in DOMAIN assemblers :
    LET t == assemblers[q].header IN
      t # None =>
        /\ t \notin Headers
        /\ \A r \in DOMAIN assemblers : assemblers[r].header = t => r = q
        /\ \A i \in DOMAIN images : images[i].header # t

NoneComes == \A i \in DOMAIN images : images[i].header # None => images[i].header \notin Headers

Emitted(t) ==
  \/ t[1] < session
  \/ t[1] = session /\ t[2] < nextPing

UsedEmitted == \A t \in Tags : Used(t) => Emitted(t)

OnceInv == TypeOK /\ AirOnce /\ HeldOnce /\ NoneComes /\ UsedEmitted /\ PublishedOnce

LEMMA OnceInit == Init => OnceInv
BY TypeInit DEF Init, OnceInv, AirOnce, HeldOnce, NoneComes, UsedEmitted, PublishedOnce,
                Used, Headers

(* A step that moves no header anywhere.                                   *)
LEMMA HeadersStay ==
  ASSUME OnceInv, TypeOK', AirOnce',
         Headers' \subseteq Headers,
         \A t \in Tags : Emitted(t) => Emitted(t)',
         \A q \in DOMAIN assemblers' :
           \/ assemblers'[q].header = None
           \/ q \in DOMAIN assemblers /\ assemblers'[q].header = assemblers[q].header,
         UNCHANGED images
  PROVE  OnceInv'
<1>1. HeldOnce'
  BY DEF OnceInv, HeldOnce
<1>2. NoneComes' /\ PublishedOnce'
  BY DEF OnceInv, NoneComes, PublishedOnce
<1>3. None \notin Tags
  BY DEF None, Tags
<1>4. UsedEmitted'
  BY <1>3 DEF OnceInv, UsedEmitted, Used
<1> QED
  BY <1>1, <1>2, <1>4 DEF OnceInv

(* A header goes from the air into one assembler.                          *)
LEMMA OnceHeader ==
  ASSUME OnceInv, TypeOK', NEW d \in air, ReceiveHeader(d)
  PROVE  OnceInv'
<1>1. PICK ping \in PingNo(d), garbage \in Garbage :
        assemblers' = WithAssembler(ping, WithHeader(Assembler(ping, garbage), d))
  BY DEF ReceiveHeader
<1>2. ping \in Pings /\ d \in Datagrams /\ d.part = 0 /\ UNCHANGED <<session, nextPing, images>>
  BY MemoryAssumption DEF PingNo, Datagrams, OnceInv, TypeOK, ReceiveHeader
<1>3. Tag(d) \in Headers /\ Tag(d) \in Tags /\ Tag(d) # None
  BY <1>2 DEF Headers, Tag, Tags, Datagrams, None
<1>4. Headers' = Headers \ {Tag(d)}
  <2>1. air' = air \ {d} /\ air \subseteq Datagrams
    BY DEF ReceiveHeader, Take, OnceInv, TypeOK
  <2>2. ASSUME NEW e \in air, e.part = 0, Tag(e) = Tag(d) PROVE e = d
    <3>1. e.copy = 1 /\ d.copy = 1 /\ e.session = d.session /\ e.ping = d.ping
      BY <2>2 DEF OnceInv, AirOnce, Tag
    <3> QED
      BY <1>2, <2>1, <2>2, <3>1 DEF Datagrams
  <2> QED
    BY <2>1, <2>2 DEF Headers
<1>5. /\ DOMAIN assemblers' = DOMAIN assemblers \cup {ping}
      /\ assemblers'[ping].header = Tag(d)
      /\ \A q \in DOMAIN assemblers : q # ping => assemblers'[q] = assemblers[q]
  <2>1. Assembler(ping, garbage) \in Assemblers
    BY <1>2, AssemblerType DEF OnceInv
  <2> QED
    BY <1>1, <1>2, <2>1, WithHeaderType DEF WithAssembler, Tag
<1>6. /\ \A q \in DOMAIN assemblers : assemblers[q].header # Tag(d)
      /\ \A i \in DOMAIN images : images[i].header # Tag(d)
  BY <1>3 DEF OnceInv, HeldOnce, NoneComes
<1>7. HeldOnce'
  <2> SUFFICES ASSUME NEW q \in DOMAIN assemblers', assemblers'[q].header # None
               PROVE  /\ assemblers'[q].header \notin Headers'
                      /\ \A r \in DOMAIN assemblers' :
                           assemblers'[r].header = assemblers'[q].header => r = q
                      /\ \A i \in DOMAIN images' :
                           images'[i].header # assemblers'[q].header
    BY DEF HeldOnce
  <2>1. CASE q = ping
    BY <1>2, <1>4, <1>5, <1>6, <2>1
  <2>2. CASE q # ping
    BY <1>2, <1>4, <1>5, <1>6, <2>2 DEF OnceInv, HeldOnce
  <2> QED
    BY <2>1, <2>2
<1>8. NoneComes' /\ PublishedOnce'
  BY <1>2, <1>4 DEF OnceInv, NoneComes, PublishedOnce
<1>9. UsedEmitted'
  <2>1. \A t \in Tags : Emitted(t)' <=> Emitted(t)
    BY <1>2 DEF Emitted
  <2>2. \A t \in Tags : Used(t)' => Used(t)
    BY <1>2, <1>3, <1>4, <1>5 DEF Used
  <2> QED
    BY <2>1, <2>2 DEF OnceInv, UsedEmitted
<1>10. AirOnce'
  BY DEF ReceiveHeader, Take, OnceInv, AirOnce
<1> QED
  BY <1>7, <1>8, <1>9, <1>10 DEF OnceInv

(* A header goes from its assembler, which is erased, into one image.      *)
LEMMA OnceComplete ==
  ASSUME OnceInv, TypeOK', NEW d \in air, CompleteImage(d)
  PROVE  OnceInv'
<1>1. PICK garbage \in Garbage :
        LET image == WithSection(Assembler(d.ping, garbage), d) IN
        /\ images' = Append(images, [ping   |-> d.ping,
                                     header |-> image.header,
                                     pixels |-> image.pixels])
        /\ assemblers' = CleanMsgMap(Erased(assemblers, d.ping), d.ping)
  BY DEF CompleteImage
<1> DEFINE t == Assembler(d.ping, garbage).header
<1>2. d \in Datagrams /\ d.ping \in Pings /\ d.part > 0 /\ UNCHANGED <<session, nextPing>>
  BY DEF OnceInv, TypeOK, Datagrams, CompleteImage
<1>3. WithSection(Assembler(d.ping, garbage), d).header = t
  BY <1>2, AssemblerType, WithSectionType DEF OnceInv
<1>4. t # None => d.ping \in DOMAIN assemblers /\ assemblers[d.ping].header = t
  BY DEF Assembler, Fresh
<1>5. PICK image : images' = Append(images, image) /\ image.header = t
  BY <1>1, <1>3
<1> HIDE DEF t
<1>6. /\ \A i \in DOMAIN images' :
           \/ i \in DOMAIN images /\ images'[i] = images[i]
           \/ i = Len(images) + 1 /\ images'[i] = image
      /\ Len(images) + 1 \notin DOMAIN images
  BY <1>5 DEF OnceInv, TypeOK
<1>7. \A q \in DOMAIN assemblers' :
        q \in DOMAIN assemblers /\ q # d.ping /\ assemblers'[q] = assemblers[q]
  BY <1>1, CleaningRemoves
<1>8. Headers' \subseteq Headers /\ AirOnce'
  BY DEF CompleteImage, Take, OnceInv, AirOnce, Headers
<1>9. t # None =>
        /\ t \notin Headers
        /\ \A q \in DOMAIN assemblers : q # d.ping => assemblers[q].header # t
        /\ \A i \in DOMAIN images : images[i].header # t
  BY <1>4 DEF OnceInv, HeldOnce
<1>10. HeldOnce'
  BY <1>5, <1>6, <1>7, <1>8, <1>9 DEF OnceInv, HeldOnce
<1>11. NoneComes'
  BY <1>5, <1>6, <1>8, <1>9 DEF OnceInv, NoneComes
<1>12. PublishedOnce'
  BY <1>5, <1>6, <1>9 DEF OnceInv, PublishedOnce
<1>13. UsedEmitted'
  <2>1. \A u \in Tags : Emitted(u)' <=> Emitted(u)
    BY <1>2 DEF Emitted
  <2>2. None \notin Tags
    BY DEF None, Tags
  <2>3. \A u \in Tags : Used(u)' => Used(u)
    BY <1>4, <1>5, <1>6, <1>7, <1>8, <2>2 DEF Used
  <2> QED
    BY <2>1, <2>3 DEF OnceInv, UsedEmitted
<1> QED
  BY <1>8, <1>10, <1>11, <1>12, <1>13 DEF OnceInv

(* The sonar pings with a number it has not used in this session.          *)
LEMMA OnceEmit ==
  ASSUME OnceInv, TypeOK', EmitPing
  PROVE  OnceInv'
<1>0. PICK t \in Tags : t = <<session, nextPing>>
  BY DEF OnceInv, TypeOK, Tags
<1>1. ~Emitted(t) /\ t # None
  BY <1>0 DEF OnceInv, TypeOK, Emitted, None
<1>2. ~Used(t)
  BY <1>1 DEF OnceInv, UsedEmitted
<1>3. /\ Headers' \subseteq Headers \cup {t}
      /\ AirOnce'
      /\ UNCHANGED <<session, assemblers, images>>
      /\ nextPing' = nextPing + 1
  BY <1>0 DEF EmitPing, Headers, Tag, OnceInv, AirOnce
<1>4. HeldOnce' /\ NoneComes' /\ PublishedOnce'
  BY <1>2, <1>3 DEF OnceInv, HeldOnce, NoneComes, PublishedOnce, Used
<1>5. UsedEmitted'
  <2>1. \A u \in Tags : Emitted(u) => Emitted(u)'
    BY <1>3 DEF Emitted, OnceInv, TypeOK, Tags
  <2>2. Emitted(t)'
    BY <1>0, <1>3 DEF Emitted, OnceInv, TypeOK
  <2>3. \A u \in Tags : Used(u)' => Used(u) \/ u = t
    BY <1>3 DEF Used
  <2> QED
    BY <2>1, <2>2, <2>3 DEF OnceInv, UsedEmitted
<1> QED
  BY <1>3, <1>4, <1>5 DEF OnceInv

LEMMA OnceNext ==
  ASSUME "duplicate" \notin Faults
  PROVE  OnceInv /\ [Next]_vars => OnceInv'
<1> SUFFICES ASSUME OnceInv, [Next]_vars PROVE OnceInv'
  OBVIOUS
<1>1. TypeOK'
  BY TypeNext DEF OnceInv
<1>2. CASE EmitPing
  BY <1>1, <1>2, OnceEmit
<1>3. CASE Reboot
  <2>1. /\ UNCHANGED <<air, assemblers, images>> /\ session' = session + 1
    BY <1>3 DEF Reboot
  <2>2. Headers' = Headers /\ AirOnce'
    BY <2>1 DEF Headers, OnceInv, AirOnce
  <2>3. \A t \in Tags : Emitted(t) => Emitted(t)'
    <3>1. session \in Int /\ \A t \in Tags : t[1] \in Int
      BY DEF OnceInv, TypeOK, Tags
    <3>2. SUFFICES ASSUME NEW t \in Tags, Emitted(t) PROVE t[1] < session'
      BY DEF Emitted
    <3>3. t[1] \in Int /\ session \in Int /\ t[1] <= session
      BY <3>1, <3>2 DEF Emitted
    <3> QED
      BY <2>1, <3>3
  <2> QED
    BY <1>1, <2>1, <2>2, <2>3, HeadersStay
<1>4. ASSUME UNCHANGED <<session, nextPing, images>>, air' \subseteq air,
             \A q \in DOMAIN assemblers' :
               \/ assemblers'[q].header = None
               \/ q \in DOMAIN assemblers /\ assemblers'[q].header = assemblers[q].header
      PROVE  OnceInv'
  <2>1. Headers' \subseteq Headers /\ AirOnce'
    BY <1>4 DEF Headers, OnceInv, AirOnce
  <2>2. \A t \in Tags : Emitted(t) => Emitted(t)'
    BY <1>4 DEF Emitted
  <2> QED
    BY <1>1, <1>4, <2>1, <2>2, HeadersStay
<1>5. ASSUME NEW d \in air, Lose(d) \/ Duplicate(d) \/ ReceiveRawOnly(d) PROVE OnceInv'
  BY <1>4, <1>5 DEF Lose, Duplicate, ReceiveRawOnly, Take
<1>6. ASSUME NEW d \in air, ReceiveHeader(d) PROVE OnceInv'
  BY <1>1, <1>6, OnceHeader
<1>7. ASSUME NEW d \in air, NEW garbage \in Garbage, NEW a,
             a.header = Assembler(d.ping, garbage).header,
             assemblers' = WithAssembler(d.ping, a)
      PROVE  \A q \in DOMAIN assemblers' :
               \/ assemblers'[q].header = None
               \/ q \in DOMAIN assemblers /\ assemblers'[q].header = assemblers[q].header
  BY <1>7 DEF WithAssembler, Assembler, Fresh
<1>8. ASSUME NEW d \in air, IgnoreSection(d) PROVE OnceInv'
  BY <1>4, <1>7, <1>8 DEF IgnoreSection, Take
<1>9. ASSUME NEW d \in air, StoreSection(d) PROVE OnceInv'
  <2>1. d \in Datagrams /\ d.ping \in Pings /\ d.part > 0
    BY <1>9 DEF OnceInv, TypeOK, Datagrams, StoreSection
  <2>2. PICK garbage \in Garbage :
          assemblers' = WithAssembler(d.ping, WithSection(Assembler(d.ping, garbage), d))
    BY <1>9 DEF StoreSection
  <2>3. WithSection(Assembler(d.ping, garbage), d).header = Assembler(d.ping, garbage).header
    BY <2>1, AssemblerType, WithSectionType DEF OnceInv
  <2> QED
    BY <1>4, <1>7, <1>9, <2>2, <2>3 DEF StoreSection, Take
<1>10. ASSUME NEW d \in air, CompleteImage(d) PROVE OnceInv'
  BY <1>1, <1>10, OnceComplete
<1>11. CASE UNCHANGED vars
  BY <1>4, <1>11 DEF vars
<1> QED
  BY <1>2, <1>3, <1>5, <1>6, <1>8, <1>9, <1>10, <1>11 DEF Next, Receive

(* On a network that may lose and reorder but not duplicate, no ping is    *)
(* published twice under its header, however many of its sections reach    *)
(* the last bin.                                                           *)
THEOREM PingsPublishedOnce ==
  ASSUME "duplicate" \notin Faults
  PROVE  Spec => []PublishedOnce
<1>1. OnceInv /\ [Next]_vars => OnceInv'
  BY OnceNext
<1>2. OnceInv => PublishedOnce
  BY DEF OnceInv
<1> QED
  BY <1>1, <1>2, OnceInit, PTL DEF Spec
-----------------------------------------------------------------------------
(* Refinement.  What acoustic_image shows is what AcousticImages allows, on *)
(* a network that keeps the order of datagrams, as long as the sonar is not *)
(* power-cycled, memory spells no ping number, and a section that reaches   *)
(* the last bin has it for all beams.                                       *)

OrderedNetwork ==
  /\ MaxSessions = 1
  /\ "reorder" \notin Faults
  /\ Residue = {}
  /\ Garbage \cap (0..LastPing) = {}
  /\ \A i \in DOMAIN Sections : IsFinal(Sections[i]) =>
       \A c \in Cells : c[1] = TotalBins - 1 => Covers(Sections[i], c)

Blank(a) == a.header = None /\ a.h0 \in Garbage
Filled(q, a) == a.header = <<1, q>> /\ a.h0 = q

(* A published ping is behind everything in the air, and so is its header: *)
(* nothing can fill an assembler for it again.                             *)
Behind(image, d) == image.ping < d.ping \/ (image.ping = d.ping /\ d.part > 0)

OrderInv ==
  /\ IsolationInv
  /\ \A d \in air : d.ping < nextPing /\ d.ping <= LastPing
  /\ \A i \in DOMAIN images : images[i].ping < nextPing
  /\ \A q \in DOMAIN assemblers : Blank(assemblers[q]) \/ Filled(q, assemblers[q])
  /\ \A i \in DOMAIN images :
       /\ \A d \in air : Behind(images[i], d)
       /\ images[i].ping \in DOMAIN assemblers => Blank(assemblers[images[i].ping])
       /\ images[i].header = <<1, images[i].ping>>

LEMMA OrderInit == Init => OrderInv
BY IsolationInit DEF Init, OrderInv

LEMMA OrderAssembler ==
  ASSUME OrderInv, NEW ping, NEW garbage \in Garbage
  PROVE  Blank(Assembler(ping, garbage)) \/ Filled(ping, Assembler(ping, garbage))
BY DEF OrderInv, Assembler, Fresh, Blank

(* An assembler that takes a section of a ping has its header, and then no *)
(* image of the ping has been published.                                   *)
LEMMA OrderMatch ==
  ASSUME OrderedNetwork, OrderInv, NEW d \in air, NEW garbage \in Garbage,
         Matches(Assembler(d.ping, garbage), d)
  PROVE  /\ Filled(d.ping, Assembler(d.ping, garbage))
         /\ \A i \in DOMAIN images : images[i].ping # d.ping
<1>1. d.ping \in 0..LastPing
  BY DEF OrderInv, IsolationInv, TypeOK, Datagrams
<1>2. ~Blank(Assembler(d.ping, garbage))
  BY <1>1 DEF OrderedNetwork, Matches, Blank
<1>3. Filled(d.ping, Assembler(d.ping, garbage))
  BY <1>2, OrderAssembler
<1>4. ASSUME NEW i \in DOMAIN images, images[i].ping = d.ping PROVE FALSE
  BY <1>2, <1>4 DEF OrderInv, Assembler, Fresh, Blank
<1> QED
  BY <1>3, <1>4

(* A step that adds no image and no datagram, and fills no assembler but   *)
(* one of a ping not yet published.                                        *)
LEMMA OrderStay ==
  ASSUME OrderInv, IsolationInv', UNCHANGED <<nextPing, images>>, air' \subseteq air,
         \A q \in DOMAIN assemblers' :
           \/ q \in DOMAIN assemblers /\ assemblers'[q] = assemblers[q]
           \/ Blank(assemblers'[q])
           \/ /\ Filled(q, assemblers'[q])
              /\ \A i \in DOMAIN images : images[i].ping # q
  PROVE  OrderInv'
BY DEF OrderInv, Blank, Filled, Behind

LEMMA OrderComplete ==
  ASSUME OrderedNetwork, OrderInv, IsolationInv', NEW d \in air, CompleteImage(d)
  PROVE  /\ OrderInv'
         /\ \E image \in Images :
              /\ images' = Append(images, image)
              /\ image.ping = d.ping /\ image.header = <<1, d.ping>>
              /\ OfPing(image.pixels, d.ping)
              /\ \A c \in Cells : c[1] = TotalBins - 1 => image.pixels[c] # None
              /\ \A i \in DOMAIN images : images[i].ping < d.ping
<1>1. PICK garbage \in Garbage :
        LET image == WithSection(Assembler(d.ping, garbage), d) IN
        /\ Matches(Assembler(d.ping, garbage), d)
        /\ images' = Append(images, [ping   |-> d.ping,
                                     header |-> image.header,
                                     pixels |-> image.pixels])
        /\ assemblers' = CleanMsgMap(Erased(assemblers, d.ping), d.ping)
  BY DEF CompleteImage
<1> DEFINE a == Assembler(d.ping, garbage)
           image == [ping   |-> d.ping,
                     header |-> WithSection(a, d).header,
                     pixels |-> WithSection(a, d).pixels]
<1>2. /\ d \in Datagrams /\ d.ping \in Pings /\ d.part > 0
      /\ UNCHANGED <<session, nextPing>> /\ IsFinal(Sections[d.part])
      /\ d.part \in DOMAIN Sections
  BY SectionAssumption DEF OrderInv, IsolationInv, TypeOK, Datagrams, CompleteImage
<1>3. a \in Assemblers /\ IsolatedAt(d.ping, a)
  BY <1>2, AssemblerType, AssemblerIsolated DEF OrderInv, IsolationInv
<1>4. a.header = <<1, d.ping>> /\ \A i \in DOMAIN images : images[i].ping # d.ping
  BY <1>1, OrderMatch DEF Filled
<1>5. /\ WithSection(a, d).header = <<1, d.ping>>
      /\ WithSection(a, d).pixels \in Rasters
      /\ OfPing(WithSection(a, d).pixels, d.ping)
  BY <1>2, <1>3, <1>4, WithSectionType, SectionIsolated
<1>6. \A c \in Cells : c[1] = TotalBins - 1 => WithSection(a, d).pixels[c] # None
  <2>1. SUFFICES ASSUME NEW c \in Cells, c[1] = TotalBins - 1
                 PROVE  WithSection(a, d).pixels[c] # None
    OBVIOUS
  <2>2. Covers(Sections[d.part], c)
    BY <1>2, <2>1 DEF OrderedNetwork
  <2>3. WithSection(a, d).pixels[c] = Magnitude(d, c)
    BY <1>3, <2>2 DEF WithSection, Assemblers
  <2>4. Magnitude(d, c) = <<d.session, d.ping, c>>
    BY <1>2, <2>2, MagnitudeInPlace
  <2>5. d.session # 0
    BY <1>2 DEF Datagrams
  <2> QED
    BY <2>3, <2>4, <2>5 DEF None
<1>7. images' = Append(images, image)
  BY <1>1
<1>8. \A i \in DOMAIN images : images[i].ping < d.ping
  BY <1>2, <1>4 DEF OrderInv, Behind
<1>9. image.ping = d.ping /\ image.header = <<1, d.ping>> /\ image.pixels = WithSection(a, d).pixels
  BY <1>5
<1>10. image \in Images
  <2>1. <<1, d.ping>> \in Tags
    BY <1>2, PingAssumption DEF Tags
  <2> QED
    BY <1>2, <1>5, <2>1 DEF Images
<1> HIDE DEF a, image
<1>11. \A i \in DOMAIN images' :
          \/ i \in DOMAIN images /\ images'[i] = images[i]
          \/ images'[i] = image
  BY <1>7 DEF OrderInv, IsolationInv, TypeOK
<1>12. \A q \in DOMAIN assemblers' :
         q \in DOMAIN assemblers /\ q # d.ping /\ assemblers'[q] = assemblers[q]
  BY <1>1, CleaningRemoves
<1>13. \A e \in air' : e \in air /\ Behind(image, e)
  <2>1. SUFFICES ASSUME NEW e \in air' PROVE e \in air /\ Behind(image, e)
    OBVIOUS
  <2>2. e \in air /\ ~SentBefore(e, d)
    BY <2>1 DEF CompleteImage, Take, Deliverable, OrderedNetwork
  <2>3. /\ e.session = 1 /\ d.session = 1
        /\ e.ping \in Int /\ d.ping \in Int /\ e.part \in Int /\ d.part \in Int
    BY <1>2, <2>2, SectionAssumption
    DEF OrderInv, IsolationInv, TypeOK, Datagrams, OrderedNetwork
  <2>4. d.ping < e.ping \/ (d.ping = e.ping /\ e.part > 0)
    BY <1>2, <2>2, <2>3 DEF SentBefore
  <2> QED
    BY <1>9, <2>2, <2>4 DEF Behind
<1>14. d.ping < nextPing
  BY DEF OrderInv
<1>15. OrderInv'
  <2>1. \A i \in DOMAIN images' :
          /\ images'[i].ping < nextPing'
          /\ \A e \in air' : Behind(images'[i], e)
          /\ images'[i].ping \in DOMAIN assemblers' => Blank(assemblers'[images'[i].ping])
          /\ images'[i].header = <<1, images'[i].ping>>
    BY <1>2, <1>9, <1>11, <1>12, <1>13, <1>14 DEF OrderInv
  <2>2. \A e \in air' : e.ping < nextPing' /\ e.ping <= LastPing
    BY <1>2, <1>13 DEF OrderInv
  <2>3. \A q \in DOMAIN assemblers' : Blank(assemblers'[q]) \/ Filled(q, assemblers'[q])
    BY <1>12 DEF OrderInv
  <2> QED
    BY <2>1, <2>2, <2>3 DEF OrderInv, Behind, Blank, Filled
<1> QED
  BY <1>5, <1>6, <1>7, <1>8, <1>9, <1>10, <1>15

LEMMA ImagePingIsInt ==
  ASSUME OrderInv
  PROVE  \A i \in DOMAIN images : images[i].ping \in Int
<1>1. images \in Seq(Images)
  BY DEF OrderInv, IsolationInv, TypeOK
<1>2. \A i \in DOMAIN images : images[i] \in Images
  BY <1>1
<1>3. \A image \in Images : image.ping \in Pings
  BY DEF Images
<1>4. Pings \subseteq Int
  BY PingAssumption DEF Pings
<1> QED
  BY <1>2, <1>3, <1>4

LEMMA OrderNext ==
  ASSUME OrderedNetwork
  PROVE  OrderInv /\ [Next]_vars => OrderInv'
<1> SUFFICES ASSUME OrderInv, [Next]_vars PROVE OrderInv'
  OBVIOUS
<1>1. IsolationInv'
  BY IsolationNext DEF OrderInv
<1>2. air \subseteq Datagrams /\ \A d \in air : d.ping \in Pings /\ d.session = 1
  BY DEF OrderInv, IsolationInv, TypeOK, Datagrams, OrderedNetwork
<1>3. CASE EmitPing
  <2>1. /\ nextPing \in Int /\ nextPing <= LastPing /\ nextPing' = nextPing + 1
        /\ UNCHANGED <<images, assemblers>>
    BY <1>3 DEF EmitPing, OrderInv, IsolationInv, TypeOK
  <2>2. \A d \in air' : d \in air \/ d.ping = nextPing
    BY <1>3 DEF EmitPing
  <2>3. \A i \in DOMAIN images : images[i].ping \in Int
    BY ImagePingIsInt
  <2>4. \A d \in air' : d.ping < nextPing' /\ d.ping <= LastPing
    BY <1>2, <2>1, <2>2 DEF OrderInv
  <2>5. \A i \in DOMAIN images :
          images[i].ping < nextPing' /\ \A d \in air' : Behind(images[i], d)
    BY <2>1, <2>2, <2>3 DEF OrderInv, Behind
  <2> QED
    BY <1>1, <2>1, <2>4, <2>5 DEF OrderInv, Behind, Blank, Filled
<1>4. CASE Reboot
  BY <1>4 DEF Reboot, OrderInv, IsolationInv, TypeOK, OrderedNetwork
<1>5. ASSUME NEW d \in air, Lose(d) \/ ReceiveRawOnly(d) PROVE OrderInv'
  BY <1>1, <1>5, OrderStay DEF Lose, ReceiveRawOnly, Take
<1>6. ASSUME NEW d \in air, Duplicate(d) PROVE OrderInv'
  <2>1. UNCHANGED <<nextPing, images, assemblers>>
    BY <1>6 DEF Duplicate
  <2>2. \A e \in air' : \E f \in air : e.ping = f.ping /\ e.part = f.part
    BY <1>2, <1>6 DEF Duplicate, Datagrams
  <2>3. \A i \in DOMAIN images, e \in air' : Behind(images[i], e)
    BY <2>2 DEF OrderInv, Behind
  <2>4. \A e \in air' : e.ping < nextPing /\ e.ping <= LastPing
    BY <2>2 DEF OrderInv
  <2> QED
    BY <1>1, <2>1, <2>3, <2>4 DEF OrderInv, Behind, Blank, Filled
<1>7. ASSUME NEW d \in air, ReceiveHeader(d) PROVE OrderInv'
  <2>1. PICK ping \in PingNo(d), garbage \in Garbage :
          assemblers' = WithAssembler(ping, WithHeader(Assembler(ping, garbage), d))
    BY <1>7 DEF ReceiveHeader
  <2>2. ping = d.ping /\ d.part = 0
    BY <1>7 DEF PingNo, OrderedNetwork, ReceiveHeader
  <2>3. Assembler(ping, garbage) \in Assemblers
    BY <1>2, <2>2, AssemblerType DEF OrderInv, IsolationInv
  <2>4. Filled(ping, WithHeader(Assembler(ping, garbage), d))
    BY <1>2, <2>2, <2>3, WithHeaderType DEF Filled
  <2>5. \A i \in DOMAIN images : images[i].ping # ping
    BY <1>2, <2>2, ImagePingIsInt DEF OrderInv, Behind
  <2>6. \A q \in DOMAIN assemblers' :
          \/ q \in DOMAIN assemblers /\ assemblers'[q] = assemblers[q]
          \/ q = ping /\ Filled(q, assemblers'[q])
    BY <2>1, <2>4 DEF WithAssembler
  <2> QED
    BY <1>1, <1>7, <2>5, <2>6, OrderStay DEF ReceiveHeader, Take
<1>8. ASSUME NEW d \in air, IgnoreSection(d) PROVE OrderInv'
  <2>1. PICK garbage \in Garbage :
          assemblers' = WithAssembler(d.ping, Assembler(d.ping, garbage))
    BY <1>8 DEF IgnoreSection
  <2>2. \A q \in DOMAIN assemblers' :
          \/ q \in DOMAIN assemblers /\ assemblers'[q] = assemblers[q]
          \/ Blank(assemblers'[q])
    BY <2>1 DEF WithAssembler, Assembler, Fresh, Blank
  <2> QED
    BY <1>1, <1>8, <2>2, OrderStay DEF IgnoreSection, Take
<1>9. ASSUME NEW d \in air, StoreSection(d) PROVE OrderInv'
  <2>1. PICK garbage \in Garbage :
          /\ Matches(Assembler(d.ping, garbage), d)
          /\ assemblers' = WithAssembler(d.ping, WithSection(Assembler(d.ping, garbage), d))
    BY <1>9 DEF StoreSection
  <2>2. Assembler(d.ping, garbage) \in Assemblers /\ d \in Datagrams /\ d.part > 0
    BY <1>2, <1>9, AssemblerType DEF OrderInv, IsolationInv, StoreSection
  <2>3. /\ Filled(d.ping, WithSection(Assembler(d.ping, garbage), d))
        /\ \A i \in DOMAIN images : images[i].ping # d.ping
    <3>1. /\ Filled(d.ping, Assembler(d.ping, garbage))
          /\ \A i \in DOMAIN images : images[i].ping # d.ping
      BY <2>1, OrderMatch
    <3>2. /\ WithSection(Assembler(d.ping, garbage), d).h0 = Assembler(d.ping, garbage).h0
          /\ WithSection(Assembler(d.ping, garbage), d).header
               = Assembler(d.ping, garbage).header
      BY <2>2, WithSectionType
    <3> QED
      BY <3>1, <3>2 DEF Filled
  <2>4. \A q \in DOMAIN assemblers' :
          \/ q \in DOMAIN assemblers /\ assemblers'[q] = assemblers[q]
          \/ q = d.ping /\ Filled(q, assemblers'[q])
    BY <2>1, <2>3 DEF WithAssembler
  <2> QED
    BY <1>1, <1>9, <2>3, <2>4, OrderStay DEF StoreSection, Take
<1>10. ASSUME NEW d \in air, CompleteImage(d) PROVE OrderInv'
  BY <1>1, <1>10, OrderComplete
<1>11. CASE UNCHANGED vars
  BY <1>1, <1>11, OrderStay DEF vars
<1> QED
  BY <1>3, <1>4, <1>5, <1>6, <1>7, <1>8, <1>9, <1>10, <1>11 DEF Next, Receive

Shown == [i \in DOMAIN images |-> AbstractImage(images[i])]

(* Completing an image is a step of AcousticImages.                        *)
LEMMA CompletePublishes ==
  ASSUME OrderedNetwork, OrderInv, OrderInv', NEW d \in air, CompleteImage(d)
  PROVE  Abstract!Next
<1>1. PICK image \in Images :
        /\ images' = Append(images, image)
        /\ image.ping = d.ping /\ image.header = <<1, d.ping>>
        /\ OfPing(image.pixels, d.ping)
        /\ \A c \in Cells : c[1] = TotalBins - 1 => image.pixels[c] # None
        /\ \A i \in DOMAIN images : images[i].ping < d.ping
  BY OrderComplete DEF OrderInv
<1> DEFINE pixels == [c \in Cells |-> PingAt(image.pixels[c], c)]
<1>2. d.ping \in Pings /\ images \in Seq(Images)
  BY DEF OrderInv, IsolationInv, TypeOK, Datagrams
<1>3. \A c \in Cells : PingAt(image.pixels[c], c) =
                         IF image.pixels[c] = None THEN -1 ELSE d.ping
  BY <1>1 DEF OfPing, PingAt, PingOf
<1>4. /\ pixels \in [Cells -> {d.ping, -1}]
      /\ \A c \in { c \in Cells : c[1] = TotalBins - 1 } : pixels[c] = d.ping
  BY <1>1, <1>3
<1>5. AbstractImage(image) = [header |-> d.ping, pixels |-> pixels]
  BY <1>1 DEF AbstractImage, PingOf, None
<1> HIDE DEF pixels
<1>6. \A i \in DOMAIN Shown : Shown[i].header < d.ping
  BY <1>1 DEF Shown, AbstractImage, PingOf, None, OrderInv
<1>7. Shown' = Append(Shown, AbstractImage(image))
  BY <1>1, <1>2 DEF Shown
<1> QED
  BY <1>2, <1>4, <1>5, <1>6, <1>7 DEF Shown, Abstract!Next, Abstract!Publish

LEMMA StepImplements ==
  ASSUME OrderedNetwork
  PROVE  OrderInv /\ OrderInv' /\ [Next]_vars => (Abstract!Next \/ UNCHANGED Shown)
<1> SUFFICES ASSUME OrderInv, OrderInv', [Next]_vars
             PROVE  Abstract!Next \/ UNCHANGED Shown
  OBVIOUS
<1>1. ASSUME UNCHANGED images PROVE UNCHANGED Shown
  BY <1>1 DEF Shown
<1>2. CASE EmitPing \/ Reboot \/ UNCHANGED vars
  BY <1>1, <1>2 DEF EmitPing, Reboot, vars
<1>3. ASSUME NEW d \in air,
             \/ Lose(d) \/ Duplicate(d) \/ ReceiveRawOnly(d)
             \/ ReceiveHeader(d) \/ IgnoreSection(d) \/ StoreSection(d)
      PROVE  UNCHANGED Shown
  BY <1>1, <1>3 DEF Lose, Duplicate, ReceiveRawOnly, ReceiveHeader, IgnoreSection,
                    StoreSection
<1>4. ASSUME NEW d \in air, CompleteImage(d) PROVE Abstract!Next
  BY <1>4, CompletePublishes
<1> QED
  BY <1>2, <1>3, <1>4 DEF Next, Receive

(* The assembly of images implements AcousticImages: on a network that     *)
(* keeps the order, images come out in the order of the pings, each of one *)
(* ping and with its last bins, whatever is lost or duplicated.            *)
THEOREM TopicImplemented ==
  ASSUME OrderedNetwork
  PROVE  Spec => ImplementsAcousticImages
<1>1. Init => Abstract!Init
  BY DEF Init, Abstract!Init
<1>2. OrderInv /\ [Next]_vars => OrderInv'
  BY OrderNext
<1>3. OrderInv /\ OrderInv' /\ [Next]_vars
        => [Abstract!Next]_([i \in DOMAIN images |-> AbstractImage(images[i])])
  BY StepImplements DEF Shown
<1> QED
  BY <1>1, <1>2, <1>3, OrderInit, PTL DEF Spec, ImplementsAcousticImages, Abstract!Spec
=============================================================================
