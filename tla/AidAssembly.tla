----------------------------- MODULE AidAssembly -----------------------------
(***************************************************************************)
(* Assembly of acoustic images: the path of an AID0 datagram from the      *)
(* sonar, over UDP, through R2SonicNode::publish(packets::AID0&) and       *)
(* Aid02RawAiAssembler::addPacket to the topics raw/aid0 and               *)
(* acoustic_image, with the map of unfinished images that cleanMsgMap      *)
(* trims.                                                                  *)
(*                                                                         *)
(* A ping is sent as part 0, the datagram with sections H0 and A1, and one *)
(* datagram with an M0 section for each element of Sections.  Magnitudes   *)
(* are abstracted to who measured them and where: a pixel is None (zero)   *)
(* or a <<session, ping, cell>>, a header None or a <<session, ping>>.     *)
(* Every datagram in the air passes isType: its PacketName is "AID0".      *)
(***************************************************************************)
EXTENDS Integers, Sequences, FiniteSets, Functions

CONSTANTS
  U32,          \* size of the type of ping numbers, 2^32 in the code
  U16,          \* size of the type M0::magnitude takes a bin as, 2^16
  Window,       \* how far back cleanMsgMap keeps images, 10 in the code
  FirstPing,    \* number of the first ping after the sonar reboots
  StartPings,   \* ping numbers at which the sonar may be when the node starts
  LastPing,     \* bound: no ping is numbered higher
  MaxSessions,  \* bound on the power-ups of the sonar
  MaxInAir,     \* bound on the datagrams in the air when a ping starts
  TotalBins,    \* M0 TotalBins, of every ping
  TotalBeams,   \* M0 TotalBeams, of every ping
  Sections,     \* the M0 sections of a ping in the order they are sent
  Garbage,      \* values an unwritten h0_data_.PingNumber may hold
  Residue,      \* ping numbers that bytes behind an H0/A1 datagram may spell
  Faults,       \* what UDP does to datagrams: subset of the three below
  Advertised    \* the topics that have a publisher

Bins  == 0..TotalBins - 1
Beams == 0..TotalBeams - 1
Cells == Bins \X Beams
Pings == 0..U32 - 1

SectionType == [firstBin : Bins, bins : Nat, firstBeam : Beams, beams : Nat]

ASSUME PingAssumption ==
  /\ U32 \in Nat \ {0}
  /\ Window \in Nat
  /\ LastPing \in Nat /\ LastPing + 1 \in Pings
  /\ FirstPing \in Pings
  /\ StartPings \subseteq Pings
  /\ MaxSessions \in Nat \ {0}
  /\ MaxInAir \in Nat

ASSUME SectionAssumption ==
  /\ U16 \in Nat \ {0}
  /\ TotalBins \in 0..U16
  /\ TotalBeams \in Nat
  /\ Sections \in Seq(SectionType)
  /\ \A i \in DOMAIN Sections : Sections[i].bins * Sections[i].beams \in 0..U32

(* The sonar's sections lie in the image they announce.  addPacket relies  *)
(* on it: it writes wherever a section says, unchecked, and what reached   *)
(* out of the image would land in another row or behind the data.          *)
ASSUME RasterAssumption ==
  \A i \in DOMAIN Sections :
    /\ Sections[i].firstBin + Sections[i].bins <= TotalBins
    /\ Sections[i].firstBeam + Sections[i].beams <= TotalBeams

ASSUME MemoryAssumption ==
  /\ Garbage \subseteq Pings
  /\ Garbage # {}
  /\ Residue \subseteq Pings

ASSUME EnvironmentAssumption ==
  /\ Faults \subseteq {"lose", "duplicate", "reorder"}
  /\ Advertised \subseteq {"aid0", "acoustic_image"}

VARIABLES
  session,     \* how often the sonar has powered up
  nextPing,    \* number of its next ping
  air,         \* datagrams sent and not yet received or lost
  assemblers,  \* acoustic_image_assemblers: ping number -> assembler
  raw,         \* contents published on raw/aid0 so far
  images       \* images published on acoustic_image so far, oldest first

vars == <<session, nextPing, air, assemblers, raw, images>>

None     == <<0, 0>>   \* no measurement: zero pixel, header never filled
NoPixels == <<>>       \* sonar_image.image.data still has size 0

Tags     == (1..MaxSessions) \X Pings
Contents == [session : 1..MaxSessions, ping : Pings, part : 0..Len(Sections)]
Tag(d)   == <<d.session, d.ping>>
Content(d) == [session |-> d.session, ping |-> d.ping, part |-> d.part]

Datagrams == [session : 1..MaxSessions, ping : Pings,
              part : 0..Len(Sections), copy : {1, 2}]

Pixels     == {None} \cup ((1..MaxSessions) \X Pings \X (Int \X Int))
Rasters    == [Cells -> Pixels]
Assemblers == [h0 : Pings, header : Tags \cup {None},
               pixels : Rasters \cup {NoPixels}]
Images     == [ping : Pings, header : Tags \cup {None}, pixels : Rasters]

(***************************************************************************)
(* The sonar and the network (outside the node).                           *)
(***************************************************************************)
EmitPing ==
  /\ nextPing <= LastPing
  /\ Cardinality(air) <= MaxInAir
  /\ air' = air \cup
       { [session |-> session, ping |-> nextPing, part |-> i, copy |-> 1] :
           i \in 0..Len(Sections) }
  /\ nextPing' = nextPing + 1
  /\ UNCHANGED <<session, assemblers, raw, images>>

Reboot ==
  /\ session < MaxSessions
  /\ session' = session + 1
  /\ nextPing' = FirstPing
  /\ UNCHANGED <<air, assemblers, raw, images>>

Lose(d) ==
  /\ "lose" \in Faults
  /\ air' = air \ {d}
  /\ UNCHANGED <<session, nextPing, assemblers, raw, images>>

Duplicate(d) ==
  /\ "duplicate" \in Faults
  /\ d.copy = 1
  /\ air' = air \cup {[d EXCEPT !.copy = 2]}
  /\ UNCHANGED <<session, nextPing, assemblers, raw, images>>

SentBefore(d, e) ==
  \/ d.session < e.session
  \/ d.session = e.session /\ d.ping < e.ping
  \/ d.session = e.session /\ d.ping = e.ping /\ d.part < e.part

(* Without the fault "reorder" the socket hands out the oldest datagram.   *)
Deliverable(d) ==
  "reorder" \in Faults \/ \A e \in air : ~SentBefore(e, d)

(***************************************************************************)
(* Aid02RawAiAssembler and the map of assemblers.  Where a definition is   *)
(* preceded by another with the same parameters, that one is the same code *)
(* with a plausible mistake: the checks use it to show that a property     *)
(* notices (PROJECT.json, "mutants").                                      *)
(***************************************************************************)

(* A new assembler: the constructor leaves h0_data_ as it finds it.        *)
FreshMinusOne(garbage) == [h0 |-> -1, header |-> None, pixels |-> NoPixels]
Fresh(garbage) == [h0 |-> garbage, header |-> None, pixels |-> NoPixels]

(* std::map::operator[]: the assembler of a ping, made if there is none.   *)
Assembler(ping, garbage) ==
  IF ping \in DOMAIN assemblers THEN assemblers[ping] ELSE Fresh(garbage)

WithAssembler(ping, a) ==
  [q \in DOMAIN assemblers \cup {ping} |-> IF q = ping THEN a ELSE assemblers[q]]

WithHeaderNotKept(a, d) == [a EXCEPT !.header = Tag(d)]
WithHeader(a, d) == [a EXCEPT !.h0 = d.ping, !.header = Tag(d)]

Covers(s, cell) ==
  /\ cell[1] \in s.firstBin .. s.firstBin + s.bins - 1
  /\ cell[2] \in s.firstBeam .. s.firstBeam + s.beams - 1

(* The check that an M0 section is of the ping whose header came before.   *)
MatchesAny(a, d) == TRUE
Matches(a, d) == a.h0 = d.ping

(* An M0 section lists its magnitudes beam by beam, in the order of bins;  *)
(* beyond them lies something else.  M0::magnitude takes bin and beam of a *)
(* cell in u16 and computes the index in u32.                              *)
Beyond == <<-1, -1>>
MeasuredAt(s, j) ==
  IF j < s.bins * s.beams
  THEN <<s.firstBin + (j % s.bins), s.firstBeam + (j \div s.bins)>>
  ELSE Beyond

MagnitudeIndexFromZero(s, c) == ((c[1] % U16) + (c[2] - s.firstBeam) * s.bins) % U32
MagnitudeIndex(s, c) ==
  (((c[1] % U16) - s.firstBin) + (c[2] - s.firstBeam) * s.bins) % U32

Magnitude(d, c) ==
  LET s == Sections[d.part] IN <<d.session, d.ping, MeasuredAt(s, MagnitudeIndex(s, c))>>

(* The image data, resized and filled with zeros if it has another size.   *)
RasterAlwaysZeroed(a) == [c \in Cells |-> None]
Raster(a) ==
  IF a.pixels = NoPixels THEN [c \in Cells |-> None] ELSE a.pixels

WithSection(a, d) ==
  [a EXCEPT !.pixels =
     [c \in Cells |->
        IF Covers(Sections[d.part], c) THEN Magnitude(d, c) ELSE Raster(a)[c]]]

(* The only sign that a ping is complete: the section with the last bin.   *)
IsFinalPastLast(s) == s.firstBin + s.bins > TotalBins
IsFinal(s) == s.firstBin + s.bins >= TotalBins

ErasedNone(map, ping) == map
Erased(map, ping) == RestrictDomain(map, LAMBDA q : q # ping)

(* cleanMsgMap drops every image older than ping - 10, computed in u32.    *)
CleanNothing(map, ping) == map
CleanFromWindow(map, ping) ==
  RestrictDomain(map, LAMBDA q : ~((ping - Window) % U32 >= q))
CleanMsgMap(map, ping) ==
  RestrictDomain(map, LAMBDA q : ~((ping - Window) % U32 > q))

(***************************************************************************)
(* The receive handler of the AID0 port.                                   *)
(***************************************************************************)
ShouldPublish(topic) == topic \in Advertised

(* What every datagram goes through: it leaves the socket buffer and its   *)
(* bytes go out on raw/aid0.                                               *)
Take(d) ==
  /\ Deliverable(d)
  /\ air' = air \ {d}
  /\ raw' = IF ShouldPublish("aid0") THEN raw \cup {Content(d)} ELSE raw

(* AID0::getPingNo of a datagram without an M0 section also asks for one   *)
(* at the end of A1, where bytes of an earlier datagram may spell one.     *)
PingNo(d) == IF d.part = 0 THEN {d.ping} \cup Residue ELSE {d.ping}

ReceiveRawOnly(d) ==
  /\ ~ShouldPublish("acoustic_image")
  /\ Take(d)
  /\ UNCHANGED <<session, nextPing, assemblers, images>>

ReceiveHeader(d) ==
  /\ ShouldPublish("acoustic_image")
  /\ d.part = 0
  /\ Take(d)
  /\ \E ping \in PingNo(d), garbage \in Garbage :
       assemblers' = WithAssembler(ping, WithHeader(Assembler(ping, garbage), d))
  /\ UNCHANGED <<session, nextPing, images>>

(* The section of a ping whose header the assembler does not hold.  The    *)
(* assembler that operator[] made for it stays in the map.                 *)
IgnoreSection(d) ==
  /\ ShouldPublish("acoustic_image")
  /\ d.part > 0
  /\ Take(d)
  /\ \E garbage \in Garbage :
       LET a == Assembler(d.ping, garbage) IN
         /\ ~Matches(a, d)
         /\ assemblers' = WithAssembler(d.ping, a)
  /\ UNCHANGED <<session, nextPing, images>>

StoreSection(d) ==
  /\ ShouldPublish("acoustic_image")
  /\ d.part > 0
  /\ ~IsFinal(Sections[d.part])
  /\ Take(d)
  /\ \E garbage \in Garbage :
       LET a == Assembler(d.ping, garbage) IN
         /\ Matches(a, d)
         /\ assemblers' = WithAssembler(d.ping, WithSection(a, d))
  /\ UNCHANGED <<session, nextPing, images>>

CompleteImage(d) ==
  /\ ShouldPublish("acoustic_image")
  /\ d.part > 0
  /\ IsFinal(Sections[d.part])
  /\ Take(d)
  /\ \E garbage \in Garbage :
       LET a == Assembler(d.ping, garbage)
           image == WithSection(a, d)
       IN
         /\ Matches(a, d)
         /\ images' = Append(images, [ping   |-> d.ping,
                                      header |-> image.header,
                                      pixels |-> image.pixels])
         /\ assemblers' = CleanMsgMap(Erased(assemblers, d.ping), d.ping)
  /\ UNCHANGED <<session, nextPing>>

Receive(d) ==
  \/ ReceiveRawOnly(d)
  \/ ReceiveHeader(d)
  \/ IgnoreSection(d)
  \/ StoreSection(d)
  \/ CompleteImage(d)

Init ==
  /\ session = 1
  /\ nextPing \in StartPings
  /\ air = {}
  /\ assemblers = <<>>
  /\ raw = {}
  /\ images = <<>>

Next ==
  \/ EmitPing
  \/ Reboot
  \/ \E d \in air : Lose(d) \/ Duplicate(d) \/ Receive(d)

Spec == Init /\ [][Next]_vars

(* The receiver thread blocks in io_context::run and takes the datagrams   *)
(* of the socket buffer one after the other, so that each has its turn or  *)
(* is lost; the sonar owes nobody a ping.                                  *)
FairSpec == Spec /\ \A d \in Datagrams : WF_vars(d \in air /\ Receive(d))

(***************************************************************************)
(* Properties.                                                             *)
(***************************************************************************)

(* Every variable has its type: keys of the map and the numbers stored in  *)
(* the assemblers are u32 ping numbers, images have all their cells.       *)
TypeOK ==
  /\ session \in 1..MaxSessions
  /\ nextPing \in Pings
  /\ air \in SUBSET Datagrams
  /\ DOMAIN assemblers \subseteq Pings
  /\ \A q \in DOMAIN assemblers : assemblers[q] \in Assemblers
  /\ raw \in SUBSET Contents
  /\ images \in Seq(Images)

OfPing(raster, ping) ==
  \A c \in Cells : raster[c] = None \/ (raster[c][2] = ping /\ raster[c][3] = c)

(* An assembler never mixes ping numbers: its header and the PingNumber it *)
(* compares M0 sections with were written together, and all its pixels     *)
(* come from sections with the ping number it is filed under, from where   *)
(* the section has the measurement of that cell.                           *)
AssemblersIsolated ==
  \A q \in DOMAIN assemblers :
    LET a == assemblers[q] IN
      /\ a.header # None => a.h0 = a.header[2]
      /\ a.pixels # NoPixels => OfPing(a.pixels, q)

(* Whatever UDP loses, duplicates or reorders and whatever unwritten       *)
(* memory holds, a published image never shows two ping numbers or a       *)
(* measurement in a wrong place: its header is blank or its own ping's, a  *)
(* pixel is zero or what its own ping measured in that cell (the check of  *)
(* h0_data_.PingNumber in addPacket, the index of M0::magnitude).          *)
ImagesIsolated ==
  \A i \in DOMAIN images :
    LET image == images[i] IN
      /\ image.header = None \/ image.header[2] = image.ping
      /\ OfPing(image.pixels, image.ping)

(* An unfinished image is thrown away only when an image more than Window  *)
(* pings newer is published (cleanMsgMap), with the exception that the     *)
(* unsigned subtraction makes for pings numbered below Window.             *)
DropsOnlyStale ==
  \A q \in DOMAIN assemblers \ DOMAIN assemblers' :
    /\ Len(images') = Len(images) + 1
    /\ LET ping == images'[Len(images')].ping IN
         q # ping => q < ping - Window \/ ping < Window

CompletionSparesWindow == [][DropsOnlyStale]_vars

(* As long as datagrams keep their order, the map holds nothing older than *)
(* Window pings before the last published image of this session.  While no *)
(* image completes it only grows.                                          *)
NoStaleAssembler ==
  images # <<>> =>
    LET last == images[Len(images)] IN
      last.header[1] = session /\ last.ping >= Window =>
        \A q \in DOMAIN assemblers : q >= last.ping - Window

Measured(t, c) == <<t[1], t[2], c>>
Sent(t, part) == [session |-> t[1], ping |-> t[2], part |-> part]

(* A ping all of whose datagrams were received has its image published,    *)
(* complete and under its own header, whatever was lost of other pings.    *)
ReceivedPingImaged ==
  \A t \in Tags :
    (\A part \in 0..Len(Sections) : Sent(t, part) \in raw)
      => \E i \in DOMAIN images :
           images[i].header = t /\ \A c \in Cells : images[i].pixels[c] = Measured(t, c)

(* The two topics agree: a pixel of an image is what the ping of its       *)
(* header measured in that cell exactly if an M0 section with that cell    *)
(* went out on raw/aid0.                                                   *)
ImagesMatchRaw ==
  \A i \in DOMAIN images :
    LET t == images[i].header IN
      /\ Sent(t, 0) \in raw
      /\ \A c \in Cells :
           images[i].pixels[c] = Measured(t, c) <=>
             \E part \in 1..Len(Sections) :
               Covers(Sections[part], c) /\ Sent(t, part) \in raw

(* A ping is published at most once under its header, even when several of *)
(* its sections reach the last bin and they arrive in any order: erasing   *)
(* the assembler leaves the later ones without its header.  If unwritten   *)
(* memory spells the number, they are published once more without one,     *)
(* which is what ImagesHaveHeader is about.                                *)
PublishedOnce ==
  \A i, j \in DOMAIN images :
    images[i].header = images[j].header /\ images[i].header # None => i = j

(* A ping that was sent is published in the end, complete and under its    *)
(* own header, unless the network loses one of its datagrams; whatever     *)
(* duplicates and remains of other pings come between its own.             *)
Imaged(t) ==
  \E i \in DOMAIN images :
    images[i].header = t /\ \A c \in Cells : images[i].pixels[c] = Measured(t, c)

LostIn(t) ==
  \E part \in 0..Len(Sections) :
    /\ Sent(t, part) \notin raw
    /\ \A d \in air : Content(d) # Sent(t, part)

EveryPingImaged ==
  \A t \in Tags : (\E d \in air : Tag(d) = t) ~> (Imaged(t) \/ LostIn(t))

(* While the sonar is not power-cycled, the topic behaves as AcousticImages*)
(* specifies: a header or a pixel counts as the number of the ping that    *)
(* measured it, a pixel in the wrong place as no ping's.                   *)
PingOf(tag) == IF tag = None THEN -1 ELSE tag[2]

PingAt(pixel, c) == IF pixel = None \/ pixel[3] = c THEN PingOf(pixel) ELSE -2

AbstractImage(image) ==
  [header |-> PingOf(image.header),
   pixels |-> [c \in Cells |-> PingAt(image.pixels[c], c)]]

Abstract == INSTANCE AcousticImages WITH
  LastCells <- { c \in Cells : c[1] = TotalBins - 1 },
  Zero      <- -1,
  images    <- [i \in DOMAIN images |-> AbstractImage(images[i])]

ImplementsAcousticImages == Abstract!Spec

(***************************************************************************)
(* What comments of the repository say and the code does not do.           *)
(***************************************************************************)

(* r2sonic_node.hpp on cleanMsgMap: it "removes incomplete messages from   *)
(* the map if they are too old", hence none of a newer ping.               *)
DropsOnlyOlder ==
  \A q \in DOMAIN assemblers \ DOMAIN assemblers' :
    q <= images'[Len(images')].ping

CleaningSparesNewer == [][DropsOnlyOlder]_vars

(* conversions.cpp, addPacket: "exit if we are on the wrong ping", hence   *)
(* an assembler that never saw a header publishes nothing.                 *)
ImagesHaveHeader == \A i \in DOMAIN images : images[i].header # None
=============================================================================
