--------------------------- MODULE AidTopics_proofs ---------------------------
(***************************************************************************)
(* Proofs about what the network has to do with the images of AidAssembly: *)
(* what holds on every network, what a network that keeps the order adds,  *)
(* and what the topics raw/aid0 and acoustic_image have to do with each    *)
(* other.  Each theorem names the faults and the cuts it leaves out.       *)
(***************************************************************************)
EXTENDS AidAssembly_proofs, FiniteSetTheorems

-----------------------------------------------------------------------------
(* What each handler does to the map, spelled out once.                    *)

LEMMA HeaderStep ==
  ASSUME TypeOK, NEW d \in air, ReceiveHeader(d)
  PROVE  \E ping \in PingNo(d), garbage \in Garbage :
           /\ ping \in Pings /\ Assembler(ping, garbage) \in Assemblers
           /\ DOMAIN assemblers' = DOMAIN assemblers \cup {ping}
           /\ assemblers'[ping].h0 = d.ping
           /\ assemblers'[ping].header = Tag(d)
           /\ assemblers'[ping].pixels = Assembler(ping, garbage).pixels
           /\ \A q \in DOMAIN assemblers : q # ping => assemblers'[q] = assemblers[q]
<1>1. PICK ping \in PingNo(d), garbage \in Garbage :
        assemblers' = WithAssembler(ping, WithHeader(Assembler(ping, garbage), d))
  BY DEF ReceiveHeader
<1>2. ping \in Pings /\ d \in Datagrams
  BY MemoryAssumption DEF PingNo, Datagrams, TypeOK
<1>3. Assembler(ping, garbage) \in Assemblers
  BY <1>2, AssemblerType
<1>4. /\ DOMAIN assemblers' = DOMAIN assemblers \cup {ping}
      /\ assemblers'[ping] = WithHeader(Assembler(ping, garbage), d)
      /\ \A q \in DOMAIN assemblers : q # ping => assemblers'[q] = assemblers[q]
  BY <1>1 DEF WithAssembler
<1> QED
  BY <1>2, <1>3, <1>4, WithHeaderType DEF Tag

LEMMA IgnoreStep ==
  ASSUME TypeOK, NEW d \in air, IgnoreSection(d)
  PROVE  \E garbage \in Garbage :
           /\ ~Matches(Assembler(d.ping, garbage), d)
           /\ DOMAIN assemblers' = DOMAIN assemblers \cup {d.ping}
           /\ assemblers'[d.ping] = Assembler(d.ping, garbage)
           /\ \A q \in DOMAIN assemblers : assemblers'[q] = assemblers[q]
BY DEF IgnoreSection, WithAssembler, Assembler

LEMMA StoreStep ==
  ASSUME TypeOK, NEW d \in air, StoreSection(d)
  PROVE  \E garbage \in Garbage :
           LET a == Assembler(d.ping, garbage) IN
           /\ Matches(a, d)
           /\ a \in Assemblers
           /\ DOMAIN assemblers' = DOMAIN assemblers \cup {d.ping}
           /\ assemblers'[d.ping] = WithSection(a, d)
           /\ assemblers'[d.ping].h0 = a.h0
           /\ assemblers'[d.ping].header = a.header
           /\ \A q \in DOMAIN assemblers : q # d.ping => assemblers'[q] = assemblers[q]
<1>1. PICK garbage \in Garbage :
        /\ Matches(Assembler(d.ping, garbage), d)
        /\ assemblers' = WithAssembler(d.ping, WithSection(Assembler(d.ping, garbage), d))
  BY DEF StoreSection
<1>2. d \in Datagrams /\ d.ping \in Pings /\ d.part > 0
  BY DEF TypeOK, Datagrams, StoreSection
<1>3. Assembler(d.ping, garbage) \in Assemblers
  BY <1>2, AssemblerType
<1>4. /\ DOMAIN assemblers' = DOMAIN assemblers \cup {d.ping}
      /\ assemblers'[d.ping] = WithSection(Assembler(d.ping, garbage), d)
      /\ \A q \in DOMAIN assemblers : q # d.ping => assemblers'[q] = assemblers[q]
  BY <1>1 DEF WithAssembler
<1> QED
  BY <1>1, <1>2, <1>3, <1>4, WithSectionType

(* A completed image has the header of its assembler and the pixels of the *)
(* assembler with the last section; the map only loses assemblers.         *)
LEMMA CompleteStep ==
  ASSUME TypeOK, NEW d \in air, CompleteImage(d)
  PROVE  \E garbage \in Garbage, image \in Images :
           LET a == Assembler(d.ping, garbage) IN
           /\ Matches(a, d)
           /\ a \in Assemblers
           /\ image.ping = d.ping
           /\ image.header = a.header
           /\ image.pixels = WithSection(a, d).pixels
           /\ images' = Append(images, image)
           /\ DOMAIN images' = 1..Len(images) + 1
           /\ images'[Len(images) + 1] = image
           /\ \A i \in DOMAIN images : images'[i] = images[i]
           /\ \A q \in DOMAIN assemblers' :
                q \in DOMAIN assemblers /\ q # d.ping /\ assemblers'[q] = assemblers[q]
<1>1. PICK garbage \in Garbage :
        LET a == Assembler(d.ping, garbage) IN
        /\ Matches(a, d)
        /\ images' = Append(images, [ping   |-> d.ping,
                                     header |-> WithSection(a, d).header,
                                     pixels |-> WithSection(a, d).pixels])
        /\ assemblers' = CleanMsgMap(Erased(assemblers, d.ping), d.ping)
  BY DEF CompleteImage
<1> DEFINE a     == Assembler(d.ping, garbage)
           image == [ping   |-> d.ping,
                     header |-> WithSection(a, d).header,
                     pixels |-> WithSection(a, d).pixels]
<1>2. d \in Datagrams /\ d.ping \in Pings /\ d.part > 0
  BY DEF TypeOK, Datagrams, CompleteImage
<1>3. a \in Assemblers
  BY <1>2, AssemblerType
<1>4. /\ WithSection(a, d).header = a.header
      /\ WithSection(a, d).pixels \in Rasters
      /\ a.header \in Tags \cup {None}
  BY <1>2, <1>3, WithSectionType DEF Assemblers
<1>5. image \in Images /\ image.header = a.header
  BY <1>2, <1>4 DEF Images
<1>6. \A q \in DOMAIN assemblers' :
        q \in DOMAIN assemblers /\ q # d.ping /\ assemblers'[q] = assemblers[q]
  BY <1>1, CleaningRemoves
<1>7. images' = Append(images, image) /\ Matches(a, d)
  BY <1>1
<1>8. image.ping = d.ping /\ image.pixels = WithSection(a, d).pixels
  OBVIOUS
<1> HIDE DEF image, a
<1>9. /\ DOMAIN images' = 1..Len(images) + 1
      /\ images'[Len(images) + 1] = image
      /\ \A i \in DOMAIN images : images'[i] = images[i]
  BY <1>7, <1>5 DEF TypeOK
<1> QED
  BY <1>3, <1>5, <1>6, <1>7, <1>8, <1>9 DEF a

-----------------------------------------------------------------------------
(* Order.  Part `part' of ping t is past when the sonar is beyond it and   *)
(* everything in the air was sent with it or later.  No step of any        *)
(* network, and no reboot, makes what is past come again; and without the  *)
(* fault "reorder" whatever is received is past.                           *)

Past(t, part) ==
  /\ Emitted(t)
  /\ \A d \in air : ~SentBefore(d, Sent(t, part))

AirEmitted == \A d \in air : Emitted(Tag(d)) /\ d.ping <= LastPing

LEMMA AirTypes ==
  ASSUME TypeOK, NEW d \in air
  PROVE  /\ d \in Datagrams /\ d.ping \in Pings /\ d.ping \in Nat
         /\ d.session \in 1..MaxSessions /\ d.session \in Nat
         /\ d.part \in 0..Len(Sections) /\ d.part \in Nat
         /\ Tag(d) \in Tags /\ Tag(d) = <<d.session, d.ping>>
BY SectionAssumption DEF TypeOK, Datagrams, Pings, Tag, Tags

LEMMA AirEmittedNext ==
  ASSUME TypeOK, AirEmitted, [Next]_vars
  PROVE  AirEmitted'
<1> USE AirTypes DEF AirEmitted, Emitted
<1>0. session \in Nat /\ nextPing \in Nat
  BY DEF TypeOK, Pings
<1>1. ASSUME UNCHANGED <<session, nextPing>>, air' \subseteq air PROVE AirEmitted'
  BY <1>1
<1>2. CASE EmitPing
  <2>1. /\ UNCHANGED session /\ nextPing' = nextPing + 1 /\ nextPing <= LastPing
        /\ \A d \in air' : d \in air \/ (d.session = session /\ d.ping = nextPing)
    BY <1>2 DEF EmitPing
  <2>2. SUFFICES ASSUME NEW d \in air'
                 PROVE  Emitted(Tag(d))' /\ d.ping <= LastPing
    OBVIOUS
  <2>3. CASE d \in air
    BY <1>0, <2>1, <2>3
  <2>4. CASE d.session = session /\ d.ping = nextPing
    BY <1>0, <2>1, <2>4 DEF Tag
  <2> QED
    BY <2>1, <2>3, <2>4
<1>3. CASE Reboot
  BY <1>0, <1>3 DEF Reboot
<1>4. ASSUME NEW d \in air, Duplicate(d) PROVE AirEmitted'
  <2>1. /\ UNCHANGED <<session, nextPing>>
        /\ \A e \in air' : \E f \in air : e.session = f.session /\ e.ping = f.ping
    BY <1>4 DEF Duplicate, Datagrams
  <2> QED
    BY <2>1 DEF Tag
<1>5. ASSUME NEW d \in air, Lose(d) PROVE AirEmitted'
  BY <1>1, <1>5 DEF Lose
<1>6. ASSUME NEW d \in air, Receive(d) PROVE AirEmitted'
  BY <1>1, <1>6 DEF Receive, ReceiveRawOnly, ReceiveHeader, IgnoreSection, StoreSection,
                    CompleteImage, Take
<1>7. CASE UNCHANGED vars
  BY <1>1, <1>7 DEF vars
<1> QED
  BY <1>2, <1>3, <1>4, <1>5, <1>6, <1>7 DEF Next

(* What is past stays past.                                                *)
LEMMA PastStays ==
  ASSUME TypeOK, AirEmitted, [Next]_vars, NEW t \in Tags, NEW part, Past(t, part)
  PROVE  Past(t, part)'
<1> USE DEF Past, Emitted
<1>0. /\ session \in Nat /\ nextPing \in Nat /\ t[1] \in Nat /\ t[2] \in Nat
      /\ Sent(t, part).session = t[1] /\ Sent(t, part).ping = t[2]
      /\ Sent(t, part).part = part
  BY DEF TypeOK, Pings, Tags, Sent
<1>1. ASSUME UNCHANGED <<session, nextPing>>, air' \subseteq air PROVE Past(t, part)'
  BY <1>1 DEF Sent, SentBefore
<1>2. CASE EmitPing
  <2>1. /\ UNCHANGED session /\ nextPing' = nextPing + 1
        /\ \A d \in air' : d \in air \/ (d.session = session /\ d.ping = nextPing)
    BY <1>2 DEF EmitPing
  <2>2. Emitted(t)'
    BY <1>0, <2>1
  <2>3. ASSUME NEW d \in air' PROVE ~SentBefore(d, Sent(t, part))
    <3>1. CASE d \in air
      BY <3>1
    <3>2. CASE d.session = session /\ d.ping = nextPing
      BY <1>0, <3>2 DEF SentBefore
    <3> QED
      BY <2>1, <3>1, <3>2
  <2> QED
    BY <2>2, <2>3 DEF Sent, SentBefore
<1>3. CASE Reboot
  BY <1>0, <1>3 DEF Reboot, Sent, SentBefore
<1>4. ASSUME NEW d \in air, Duplicate(d) PROVE Past(t, part)'
  <2>1. /\ UNCHANGED <<session, nextPing>>
        /\ \A e \in air' : \E f \in air :
             e.session = f.session /\ e.ping = f.ping /\ e.part = f.part
    BY <1>4, AirTypes DEF Duplicate, Datagrams
  <2> QED
    BY <2>1 DEF Sent, SentBefore
<1>5. ASSUME NEW d \in air, Lose(d) PROVE Past(t, part)'
  BY <1>1, <1>5 DEF Lose
<1>6. ASSUME NEW d \in air, Receive(d) PROVE Past(t, part)'
  BY <1>1, <1>6 DEF Receive, ReceiveRawOnly, ReceiveHeader, IgnoreSection, StoreSection,
                    CompleteImage, Take
<1>7. CASE UNCHANGED vars
  BY <1>1, <1>7 DEF vars
<1> QED
  BY <1>2, <1>3, <1>4, <1>5, <1>6, <1>7 DEF Next

(* What a socket that keeps the order hands out is past.                   *)
LEMMA TakenIsPast ==
  ASSUME TypeOK, AirEmitted, "reorder" \notin Faults, NEW d \in air, Deliverable(d)
  PROVE  Past(Tag(d), d.part)
BY AirTypes DEF Past, AirEmitted, Deliverable, Sent, SentBefore

(* Positions are ordered totally: what is in the air comes not before what *)
(* is past.                                                                *)
LEMMA AirNotBefore ==
  ASSUME TypeOK, NEW d \in air, NEW t \in Tags, NEW part \in Nat, Past(t, part)
  PROVE  \/ t[1] < d.session
         \/ t[1] = d.session /\ t[2] < d.ping
         \/ t[1] = d.session /\ t[2] = d.ping /\ part <= d.part
<1>1. /\ d.session \in Nat /\ d.ping \in Nat /\ d.part \in Nat
      /\ t[1] \in Nat /\ t[2] \in Nat
  BY AirTypes DEF Tags, Pings
<1>2. /\ ~(d.session < t[1])
      /\ ~(d.session = t[1] /\ d.ping < t[2])
      /\ ~(d.session = t[1] /\ d.ping = t[2] /\ d.part < part)
  BY DEF Past, Sent, SentBefore
<1> QED
  BY <1>1, <1>2

(* On a network that keeps the order: a raw datagram is past; so is the    *)
(* header an assembler holds; and no copy of the header of a published     *)
(* image is left to come.                                                  *)
RawPast == \A r \in raw : Past(Tag(r), r.part)

HeadersPast ==
  \A q \in DOMAIN assemblers :
    assemblers[q].header # None => Past(assemblers[q].header, 0)

ImagesPast ==
  \A i \in DOMAIN images : images[i].header # None => Past(images[i].header, 1)

InOrderInv == IsolationInv /\ AirEmitted /\ RawPast /\ HeadersPast /\ ImagesPast

LEMMA InOrderInit == Init => InOrderInv
BY IsolationInit DEF Init, InOrderInv, AirEmitted, RawPast, HeadersPast, ImagesPast

(* The header of an assembler or an image is a tag, so that PastStays      *)
(* applies to it.                                                          *)
LEMMA HeaderTypes ==
  ASSUME TypeOK
  PROVE  /\ \A q \in DOMAIN assemblers :
              assemblers[q].header # None => assemblers[q].header \in Tags
         /\ \A i \in DOMAIN images :
              images[i].header # None => images[i].header \in Tags
         /\ \A r \in raw : Tag(r) \in Tags
<1>1. \A i \in DOMAIN images : images[i] \in Images
  BY DEF TypeOK
<1>2. \A i \in DOMAIN images : images[i].header # None => images[i].header \in Tags
  BY <1>1 DEF Images
<1>3. \A q \in DOMAIN assemblers :
        assemblers[q].header # None => assemblers[q].header \in Tags
  BY DEF TypeOK, Assemblers
<1> QED
  BY <1>2, <1>3 DEF TypeOK, Contents, Tag, Tags

LEMMA InOrderNext ==
  ASSUME "reorder" \notin Faults
  PROVE  InOrderInv /\ [Next]_vars => InOrderInv'
<1> SUFFICES ASSUME InOrderInv, [Next]_vars PROVE RawPast' /\ HeadersPast' /\ ImagesPast'
  BY IsolationNext, AirEmittedNext DEF InOrderInv, IsolationInv
<1>0. TypeOK /\ AirEmitted /\ RawPast /\ HeadersPast /\ ImagesPast
  BY DEF InOrderInv, IsolationInv
<1>1. ASSUME NEW t \in Tags, NEW part, Past(t, part) PROVE Past(t, part)'
  BY <1>0, <1>1, PastStays
<1>2. ASSUME NEW d \in air, Take(d)
      PROVE  /\ Past(Tag(d), d.part) /\ Past(Tag(d), d.part)'
             /\ Tag(d) \in Tags
  BY <1>0, <1>1, <1>2, TakenIsPast, AirTypes DEF Take
<1>3. ASSUME UNCHANGED raw PROVE RawPast'
  BY <1>0, <1>1, <1>3, HeaderTypes DEF RawPast
<1>4. ASSUME NEW d \in air, Take(d) PROVE RawPast'
  <2>1. SUFFICES ASSUME NEW r \in raw' PROVE Past(Tag(r), r.part)'
    BY DEF RawPast
  <2>2. r \in raw \/ r = Content(d)
    BY <1>4, <2>1 DEF Take
  <2>3. CASE r \in raw
    BY <1>0, <1>1, <2>3, HeaderTypes DEF RawPast
  <2>4. CASE r = Content(d)
    <3>1. Tag(r) = Tag(d) /\ r.part = d.part
      BY <2>4 DEF Tag, Content
    <3> QED
      BY <1>2, <1>4, <3>1
  <2> QED
    BY <2>2, <2>3, <2>4
<1>5. ASSUME UNCHANGED images PROVE ImagesPast'
  BY <1>0, <1>1, <1>5, HeaderTypes DEF ImagesPast
<1>6. ASSUME \A q \in DOMAIN assemblers' :
               \/ assemblers'[q].header = None
               \/ q \in DOMAIN assemblers /\ assemblers'[q].header = assemblers[q].header
               \/ assemblers'[q].header \in Tags /\ Past(assemblers'[q].header, 0)
      PROVE  HeadersPast'
  <2>1. SUFFICES ASSUME NEW q \in DOMAIN assemblers', assemblers'[q].header # None
                 PROVE  Past(assemblers[q].header, 0)'
    BY DEF HeadersPast
  <2>2. PICK t \in Tags : t = assemblers'[q].header /\ Past(t, 0)
    BY <1>0, <1>6, <2>1, HeaderTypes DEF HeadersPast
  <2> QED
    BY <1>1, <2>2
<1>7. CASE EmitPing \/ Reboot \/ UNCHANGED vars
  BY <1>3, <1>5, <1>6, <1>7 DEF EmitPing, Reboot, vars
<1>8. ASSUME NEW d \in air, Lose(d) \/ Duplicate(d)
      PROVE  RawPast' /\ HeadersPast' /\ ImagesPast'
  BY <1>3, <1>5, <1>6, <1>8 DEF Lose, Duplicate
<1>9. ASSUME NEW d \in air, ReceiveRawOnly(d)
      PROVE  RawPast' /\ HeadersPast' /\ ImagesPast'
  BY <1>4, <1>5, <1>6, <1>9 DEF ReceiveRawOnly
<1>10. ASSUME NEW d \in air, ReceiveHeader(d)
       PROVE  RawPast' /\ HeadersPast' /\ ImagesPast'
  <2>1. Past(Tag(d), 0) /\ Tag(d) \in Tags
    BY <1>2, <1>10 DEF ReceiveHeader
  <2>2. \A q \in DOMAIN assemblers' :
          \/ q \in DOMAIN assemblers /\ assemblers'[q] = assemblers[q]
          \/ assemblers'[q].header = Tag(d)
    BY <1>0, <1>10, HeaderStep
  <2> QED
    BY <1>4, <1>5, <1>6, <1>10, <2>1, <2>2 DEF ReceiveHeader
<1>11. ASSUME NEW ping, NEW garbage
       PROVE  \/ Assembler(ping, garbage).header = None
              \/ /\ ping \in DOMAIN assemblers
                 /\ Assembler(ping, garbage) = assemblers[ping]
  BY DEF Assembler, Fresh
<1>12. ASSUME NEW d \in air, IgnoreSection(d)
       PROVE  RawPast' /\ HeadersPast' /\ ImagesPast'
  <2>1. \A q \in DOMAIN assemblers' :
          \/ assemblers'[q].header = None
          \/ q \in DOMAIN assemblers /\ assemblers'[q] = assemblers[q]
    <3>1. PICK garbage \in Garbage :
            /\ DOMAIN assemblers' = DOMAIN assemblers \cup {d.ping}
            /\ assemblers'[d.ping] = Assembler(d.ping, garbage)
            /\ \A q \in DOMAIN assemblers : assemblers'[q] = assemblers[q]
      BY <1>0, <1>12, IgnoreStep
    <3> QED
      BY <1>11, <3>1
  <2> QED
    BY <1>4, <1>5, <1>6, <1>12, <2>1 DEF IgnoreSection
<1>13. ASSUME NEW d \in air, StoreSection(d)
       PROVE  RawPast' /\ HeadersPast' /\ ImagesPast'
  <2>1. \A q \in DOMAIN assemblers' :
          \/ assemblers'[q].header = None
          \/ q \in DOMAIN assemblers /\ assemblers'[q].header = assemblers[q].header
    <3>1. PICK garbage \in Garbage :
            /\ DOMAIN assemblers' = DOMAIN assemblers \cup {d.ping}
            /\ assemblers'[d.ping].header = Assembler(d.ping, garbage).header
            /\ \A q \in DOMAIN assemblers : q # d.ping => assemblers'[q] = assemblers[q]
      BY <1>0, <1>13, StoreStep
    <3> QED
      BY <1>11, <3>1
  <2> QED
    BY <1>4, <1>5, <1>6, <1>13, <2>1 DEF StoreSection
<1>14. ASSUME NEW d \in air, CompleteImage(d)
       PROVE  RawPast' /\ HeadersPast' /\ ImagesPast'
  <2>1. PICK garbage \in Garbage, image \in Images :
          /\ Matches(Assembler(d.ping, garbage), d)
          /\ image.header = Assembler(d.ping, garbage).header
          /\ DOMAIN images' = 1..Len(images) + 1
          /\ images'[Len(images) + 1] = image
          /\ \A i \in DOMAIN images : images'[i] = images[i]
          /\ \A q \in DOMAIN assemblers' :
               q \in DOMAIN assemblers /\ q # d.ping /\ assemblers'[q] = assemblers[q]
    BY <1>0, <1>14, CompleteStep
  <2>2. HeadersPast'
    BY <1>6, <2>1
  <2>3. ASSUME image.header # None PROVE Past(image.header, 1)'
    <3> DEFINE t == image.header
    <3>1. /\ d.ping \in DOMAIN assemblers /\ t = assemblers[d.ping].header
          /\ assemblers[d.ping].h0 = d.ping
      BY <2>1, <2>3, <1>11 DEF Matches
    <3>2. t \in Tags /\ t[2] = d.ping /\ Past(t, 0)
      BY <1>0, <2>3, <3>1, HeaderTypes
      DEF HeadersPast, InOrderInv, IsolationInv, AssemblersIsolated
    <3> HIDE DEF t
    <3>3. t[1] <= d.session /\ t[1] \in Nat /\ t[2] \in Nat
      BY <1>0, <3>2, AirTypes, AirNotBefore DEF Tags, Pings
    <3>4. ASSUME NEW e \in air' PROVE ~SentBefore(e, Sent(t, 1))
      <4>1. e \in air /\ ~SentBefore(e, d) /\ d.part > 0
        BY <1>14, <3>4 DEF CompleteImage, Take, Deliverable
      <4>2. ~SentBefore(e, Sent(t, 0))
        BY <3>2, <4>1 DEF Past
      <4> QED
        BY <1>0, <3>2, <3>3, <4>1, <4>2, AirTypes DEF SentBefore, Sent
    <3>5. Emitted(t)'
      BY <1>14, <3>2 DEF Past, Emitted, CompleteImage
    <3>6. Past(t, 1)'
      <4>1. \A e \in air' : ~SentBefore(e, Sent(t, 1))'
        BY <3>4 DEF SentBefore, Sent, t
      <4> QED
        BY <3>5, <4>1 DEF Past
    <3> QED
      BY <2>1, <3>6 DEF t
  <2>4. ImagesPast'
    <3>1. SUFFICES ASSUME NEW i \in DOMAIN images', images'[i].header # None
                   PROVE  Past(images[i].header, 1)'
      BY DEF ImagesPast
    <3>2. i \in DOMAIN images \/ images'[i] = image
      BY <2>1, <3>1 DEF InOrderInv, IsolationInv, TypeOK
    <3>3. CASE i \in DOMAIN images
      BY <1>0, <1>1, <2>1, <3>1, <3>3, HeaderTypes DEF ImagesPast
    <3>4. CASE images'[i] = image
      BY <2>3, <3>1, <3>4
    <3> QED
      BY <3>2, <3>3, <3>4
  <2> QED
    BY <1>4, <1>14, <2>2, <2>4 DEF CompleteImage
<1> QED
  BY <1>7, <1>8, <1>9, <1>10, <1>12, <1>13, <1>14 DEF Next, Receive

-----------------------------------------------------------------------------
(* Publishing once, in order.  PingsPublishedOnce rests on there being one *)
(* copy of a header; here copies may abound, but they come before the rest *)
(* of their ping, and all to the same assembler.                           *)

HeadersInPlace ==
  \A q \in DOMAIN assemblers :
    assemblers[q].header # None => assemblers[q].header[2] = q

HeldUnpublished ==
  \A q \in DOMAIN assemblers, i \in DOMAIN images :
    assemblers[q].header # None => images[i].header # assemblers[q].header

InOrderOnceInv == InOrderInv /\ HeadersInPlace /\ HeldUnpublished /\ PublishedOnce

LEMMA InOrderOnceInit == Init => InOrderOnceInv
BY InOrderInit DEF Init, InOrderOnceInv, HeadersInPlace, HeldUnpublished, PublishedOnce

LEMMA InOrderOnceNext ==
  ASSUME "reorder" \notin Faults, Residue = {}
  PROVE  InOrderOnceInv /\ [Next]_vars => InOrderOnceInv'
<1> SUFFICES ASSUME InOrderInv, HeadersInPlace, HeldUnpublished, PublishedOnce, [Next]_vars
             PROVE  HeadersInPlace' /\ HeldUnpublished' /\ PublishedOnce'
  BY InOrderNext DEF InOrderOnceInv
<1>0. TypeOK /\ ImagesPast
  BY DEF InOrderInv, IsolationInv
<1>1. ASSUME UNCHANGED images,
             \A q \in DOMAIN assemblers' :
               \/ assemblers'[q].header = None
               \/ q \in DOMAIN assemblers /\ assemblers'[q].header = assemblers[q].header
               \/ /\ assemblers'[q].header[2] = q
                  /\ \A i \in DOMAIN images : images[i].header # assemblers'[q].header
      PROVE  HeadersInPlace' /\ HeldUnpublished' /\ PublishedOnce'
  <2>1. HeadersInPlace'
    BY <1>1 DEF HeadersInPlace
  <2>2. HeldUnpublished'
    BY <1>1 DEF HeldUnpublished
  <2> QED
    BY <1>1, <2>1, <2>2 DEF PublishedOnce
<1>2. CASE EmitPing \/ Reboot \/ UNCHANGED vars
  BY <1>1, <1>2 DEF EmitPing, Reboot, vars
<1>3. ASSUME NEW d \in air, Lose(d) \/ Duplicate(d) \/ ReceiveRawOnly(d)
      PROVE  HeadersInPlace' /\ HeldUnpublished' /\ PublishedOnce'
  BY <1>1, <1>3 DEF Lose, Duplicate, ReceiveRawOnly
<1>4. ASSUME NEW d \in air, ReceiveHeader(d)
      PROVE  HeadersInPlace' /\ HeldUnpublished' /\ PublishedOnce'
  <2>1. PICK ping \in PingNo(d), garbage \in Garbage :
          /\ DOMAIN assemblers' = DOMAIN assemblers \cup {ping}
          /\ assemblers'[ping].header = Tag(d)
          /\ \A q \in DOMAIN assemblers : q # ping => assemblers'[q] = assemblers[q]
    BY <1>0, <1>4, HeaderStep
  <2>2. ping = d.ping /\ d.part = 0 /\ UNCHANGED images
    BY <1>4 DEF PingNo, ReceiveHeader
  <2>3. d.session \in Nat /\ d.ping \in Nat /\ Tag(d) = <<d.session, d.ping>>
        /\ Tag(d) \in Tags /\ Tag(d) # None
    BY <1>0, AirTypes DEF Tags, None
  <2>4. ASSUME NEW i \in DOMAIN images, images[i].header = Tag(d) PROVE FALSE
    <3>1. Past(Tag(d), 1)
      BY <1>0, <2>3, <2>4 DEF ImagesPast
    <3> QED
      BY <1>0, <2>2, <2>3, <3>1, AirNotBefore
  <2> QED
    BY <1>1, <2>1, <2>2, <2>3, <2>4
<1>5. ASSUME NEW ping, NEW garbage
      PROVE  \/ Assembler(ping, garbage).header = None
             \/ /\ ping \in DOMAIN assemblers
                /\ Assembler(ping, garbage) = assemblers[ping]
  BY DEF Assembler, Fresh
<1>6. ASSUME NEW d \in air, IgnoreSection(d)
      PROVE  HeadersInPlace' /\ HeldUnpublished' /\ PublishedOnce'
  <2>1. PICK garbage \in Garbage :
          /\ DOMAIN assemblers' = DOMAIN assemblers \cup {d.ping}
          /\ assemblers'[d.ping] = Assembler(d.ping, garbage)
          /\ \A q \in DOMAIN assemblers : assemblers'[q] = assemblers[q]
    BY <1>0, <1>6, IgnoreStep
  <2> QED
    BY <1>1, <1>5, <1>6, <2>1 DEF IgnoreSection
<1>7. ASSUME NEW d \in air, StoreSection(d)
      PROVE  HeadersInPlace' /\ HeldUnpublished' /\ PublishedOnce'
  <2>1. PICK garbage \in Garbage :
          /\ DOMAIN assemblers' = DOMAIN assemblers \cup {d.ping}
          /\ assemblers'[d.ping].header = Assembler(d.ping, garbage).header
          /\ \A q \in DOMAIN assemblers : q # d.ping => assemblers'[q] = assemblers[q]
    BY <1>0, <1>7, StoreStep
  <2> QED
    BY <1>1, <1>5, <1>7, <2>1 DEF StoreSection
<1>8. ASSUME NEW d \in air, CompleteImage(d)
      PROVE  HeadersInPlace' /\ HeldUnpublished' /\ PublishedOnce'
  <2>1. PICK garbage \in Garbage, image \in Images :
          /\ image.header = Assembler(d.ping, garbage).header
          /\ DOMAIN images' = 1..Len(images) + 1
          /\ images'[Len(images) + 1] = image
          /\ \A i \in DOMAIN images : images'[i] = images[i]
          /\ \A q \in DOMAIN assemblers' :
               q \in DOMAIN assemblers /\ q # d.ping /\ assemblers'[q] = assemblers[q]
    BY <1>0, <1>8, CompleteStep
  <2>2. /\ DOMAIN images = 1..Len(images) /\ Len(images) \in Nat
        /\ \A i \in DOMAIN images' : i \in DOMAIN images \/ i = Len(images) + 1
    BY <1>0, <2>1 DEF TypeOK
  <2>3. image.header # None =>
          /\ image.header[2] = d.ping
          /\ \A i \in DOMAIN images : images[i].header # image.header
    BY <1>5, <2>1 DEF HeadersInPlace, HeldUnpublished
  <2>4. HeadersInPlace'
    BY <2>1 DEF HeadersInPlace
  <2>5. \A q \in DOMAIN assemblers' :
          assemblers'[q].header # None => assemblers'[q].header # image.header
    BY <2>1, <2>3 DEF HeadersInPlace
  <2>6. HeldUnpublished'
    BY <2>1, <2>2, <2>5 DEF HeldUnpublished
  <2>7. PublishedOnce'
    BY <2>1, <2>2, <2>3 DEF PublishedOnce
  <2> QED
    BY <2>4, <2>6, <2>7
<1> QED
  BY <1>2, <1>3, <1>4, <1>6, <1>7, <1>8 DEF Next, Receive

(* On a network that keeps the order no ping is published twice under its  *)
(* header either, whatever is duplicated and however often the sonar       *)
(* reboots: erasing the published assembler in publish(AID0&) leaves       *)
(* nothing that could take its header again.  It says nothing of images    *)
(* without a header, see PublishedOnceForGood.                             *)
THEOREM PublishedOnceInOrder ==
  ASSUME "reorder" \notin Faults, Residue = {}
  PROVE  Spec => []PublishedOnce
<1>1. InOrderOnceInv /\ [Next]_vars => InOrderOnceInv'
  BY InOrderOnceNext
<1>2. InOrderOnceInv => PublishedOnce
  BY DEF InOrderOnceInv
<1> QED
  BY <1>1, <1>2, InOrderOnceInit, PTL DEF Spec

-----------------------------------------------------------------------------
(* Nothing stale.  An assembler is filed under the number of a datagram in *)
(* the air, and none of those is behind the last published image as long   *)
(* as the sonar does not reboot after it.                                  *)

KeepInv == InOrderInv /\ NoStaleAssembler

(* New assemblers are of pings in the air.                                 *)
LEMMA KeepStay ==
  ASSUME KeepInv, [Next]_vars, UNCHANGED <<session, images>>,
         \A q \in DOMAIN assemblers' :
           q \in DOMAIN assemblers \/ \E d \in air : d.ping = q
  PROVE  NoStaleAssembler'
<1> DEFINE last == images[Len(images)]
<1>1. TypeOK /\ AirEmitted /\ ImagesPast /\ NoStaleAssembler
  BY DEF KeepInv, InOrderInv, IsolationInv
<1>2. SUFFICES ASSUME images # <<>>, last.header[1] = session, last.ping >= Window,
                      NEW q \in DOMAIN assemblers'
               PROVE  q >= last.ping - Window
  BY DEF NoStaleAssembler
<1>3. /\ Len(images) \in DOMAIN images /\ last \in Images
  BY <1>1, <1>2 DEF TypeOK
<1>4. CASE q \in DOMAIN assemblers
  BY <1>1, <1>2, <1>4 DEF NoStaleAssembler
<1>5. ASSUME NEW d \in air, d.ping = q PROVE q >= last.ping - Window
  <2>1. last.header # None
    BY <1>1, <1>2 DEF TypeOK, None
  <2>2. last.header[2] = last.ping /\ last.header \in Tags /\ Past(last.header, 1)
    BY <1>1, <1>3, <2>1, HeaderTypes
    DEF ImagesPast, KeepInv, InOrderInv, IsolationInv, ImagesIsolated
  <2>3. \/ session < d.session
        \/ session = d.session /\ last.ping <= d.ping
    BY <1>1, <1>2, <2>2, AirNotBefore, AirTypes DEF Tags, Pings
  <2>4. d.session <= session /\ session \in Nat /\ d.session \in Nat
    BY <1>1, AirTypes DEF AirEmitted, Emitted, TypeOK
  <2>5. last.ping <= d.ping
    BY <2>3, <2>4
  <2>6. last.ping \in Nat /\ d.ping \in Nat /\ Window \in Nat
    BY <1>1, <1>3, AirTypes, PingAssumption DEF Images, Pings
  <2> HIDE DEF last
  <2> QED
    BY <1>5, <2>5, <2>6
<1> QED
  BY <1>2, <1>4, <1>5

LEMMA KeepNext ==
  ASSUME "reorder" \notin Faults, Residue = {}
  PROVE  KeepInv /\ [Next]_vars => KeepInv'
<1> SUFFICES ASSUME KeepInv, [Next]_vars PROVE NoStaleAssembler'
  BY InOrderNext DEF KeepInv
<1>1. TypeOK /\ ImagesPast /\ HeadersPast /\ AirEmitted
  BY DEF KeepInv, InOrderInv, IsolationInv
<1>2. CASE EmitPing \/ UNCHANGED vars
  BY <1>2, KeepStay DEF EmitPing, vars
<1>3. CASE Reboot
  <2>1. /\ session \in Nat /\ session' = session + 1 /\ UNCHANGED images
    BY <1>1, <1>3 DEF Reboot, TypeOK
  <2>2. SUFFICES ASSUME images # <<>>, images[Len(images)].header[1] = session'
                 PROVE  FALSE
    BY <2>1 DEF NoStaleAssembler
  <2> DEFINE t == images[Len(images)].header
  <2>3. Len(images) \in DOMAIN images
    BY <1>1, <2>2 DEF TypeOK
  <2>4. CASE t = None
    BY <2>1, <2>2, <2>4 DEF None
  <2>5. CASE t # None
    <3>1. t \in Tags /\ Past(t, 1)
      BY <1>1, <2>3, <2>5, HeaderTypes DEF ImagesPast
    <3> HIDE DEF t
    <3>2. t[1] <= session /\ t[1] \in Nat
      BY <2>1, <3>1 DEF Past, Emitted, Tags
    <3> QED
      BY <2>1, <2>2, <3>2 DEF t
  <2> QED
    BY <2>4, <2>5
<1>4. ASSUME NEW d \in air, Lose(d) \/ Duplicate(d) \/ ReceiveRawOnly(d)
      PROVE  NoStaleAssembler'
  BY <1>4, KeepStay DEF Lose, Duplicate, ReceiveRawOnly
<1>5. ASSUME NEW d \in air, ReceiveHeader(d) PROVE NoStaleAssembler'
  <2>1. PICK ping \in PingNo(d) : DOMAIN assemblers' = DOMAIN assemblers \cup {ping}
    BY <1>1, <1>5, HeaderStep
  <2>2. ping = d.ping
    BY <1>5 DEF PingNo, ReceiveHeader
  <2> QED
    BY <1>5, <2>1, <2>2, KeepStay DEF ReceiveHeader
<1>6. ASSUME NEW d \in air, IgnoreSection(d) PROVE NoStaleAssembler'
  <2>1. DOMAIN assemblers' = DOMAIN assemblers \cup {d.ping}
    BY <1>1, <1>6, IgnoreStep
  <2> QED
    BY <1>6, <2>1, KeepStay DEF IgnoreSection
<1>7. ASSUME NEW d \in air, StoreSection(d) PROVE NoStaleAssembler'
  <2>1. DOMAIN assemblers' = DOMAIN assemblers \cup {d.ping}
    BY <1>1, <1>7, StoreStep
  <2> QED
    BY <1>7, <2>1, KeepStay DEF StoreSection
<1>8. ASSUME NEW d \in air, CompleteImage(d) PROVE NoStaleAssembler'
  <2>1. PICK image \in Images :
          /\ image.ping = d.ping
          /\ images' = Append(images, image)
    BY <1>1, <1>8, CompleteStep
  <2>2. images'[Len(images')] = image
    BY <1>1, <2>1 DEF TypeOK
  <2>3. assemblers' = CleanMsgMap(Erased(assemblers, d.ping), d.ping)
    BY <1>8 DEF CompleteImage
  <2>4. SUFFICES ASSUME d.ping >= Window, NEW q \in DOMAIN assemblers'
                 PROVE  q >= d.ping - Window
    BY <2>1, <2>2 DEF NoStaleAssembler
  <2>5. q \in DOMAIN assemblers /\ ~((d.ping - Window) % U32 > q)
    BY <2>3, <2>4, CleaningRemoves
  <2>6. d.ping \in Pings /\ d.ping \in Nat /\ q \in Nat /\ Window \in Nat
    BY <1>1, <2>5, AirTypes, PingAssumption DEF TypeOK, Pings
  <2>7. (d.ping - Window) % U32 = d.ping - Window
    BY <2>4, <2>6, NoWrapFromWindow
  <2> QED
    BY <2>5, <2>6, <2>7
<1> QED
  BY <1>2, <1>3, <1>4, <1>5, <1>6, <1>7, <1>8 DEF Next, Receive

(* On a network that keeps the order, the map of unfinished images holds   *)
(* nothing older than Window pings before the last published image of the  *)
(* session; reboots, duplicates, losses and unwritten memory do not matter *)
(* (cleanMsgMap).  How many images that leaves says MapHoldsRecent.        *)
THEOREM NoStaleKept ==
  ASSUME "reorder" \notin Faults, Residue = {}
  PROVE  Spec => []NoStaleAssembler
<1>1. Init => KeepInv
  BY InOrderInit DEF Init, KeepInv, NoStaleAssembler
<1>2. KeepInv /\ [Next]_vars => KeepInv'
  BY KeepNext
<1>3. KeepInv => NoStaleAssembler
  BY DEF KeepInv
<1> QED
  BY <1>1, <1>2, <1>3, PTL DEF Spec

-----------------------------------------------------------------------------
(* Every ping that was received is published.  A ping whose header went    *)
(* out on raw/aid0 is published, or has lost a datagram for good, or waits *)
(* for its last section in an assembler that shows all it has received.    *)

(* How a sonar that works cuts its pings: exactly the section sent last    *)
(* reaches the last bin, and the sections have all cells.                  *)
CutComplete ==
  /\ Sections # <<>>
  /\ \A part \in DOMAIN Sections : IsFinal(Sections[part]) <=> part = Len(Sections)
  /\ \A c \in Cells : \E part \in DOMAIN Sections : Covers(Sections[part], c)

ShowsReceived(a, t) ==
  \A part \in 1..Len(Sections), c \in Cells :
    Covers(Sections[part], c) /\ Sent(t, part) \in raw => Raster(a)[c] = Measured(t, c)

Held(t) ==
  /\ t[2] \in DOMAIN assemblers
  /\ assemblers[t[2]].header = t
  /\ ShowsReceived(assemblers[t[2]], t)

Awaited(t) == Sent(t, Len(Sections)) \notin raw /\ Held(t)

Tracked ==
  \A t \in Tags : Sent(t, 0) \in raw => Imaged(t) \/ LostIn(t) \/ Awaited(t)

TrackInv == InOrderInv /\ Tracked

(* Published images stay.                                                  *)
LEMMA ImagedStays ==
  ASSUME TypeOK, [Next]_vars, NEW t, Imaged(t)
  PROVE  Imaged(t)'
<1>1. ASSUME UNCHANGED images PROVE Imaged(t)'
  BY <1>1 DEF Imaged
<1>2. ASSUME NEW d \in air, CompleteImage(d) PROVE Imaged(t)'
  <2>1. /\ DOMAIN images' = 1..Len(images) + 1
        /\ \A i \in DOMAIN images : images'[i] = images[i]
    BY <1>2, CompleteStep
  <2>2. DOMAIN images \subseteq DOMAIN images'
    BY <2>1 DEF TypeOK
  <2> QED
    BY <2>1, <2>2 DEF Imaged, Measured
<1> QED
  BY <1>1, <1>2 DEF Next, vars, EmitPing, Reboot, Lose, Duplicate, Receive,
                    ReceiveRawOnly, ReceiveHeader, IgnoreSection, StoreSection

(* What a step does to the two ends of the path of a datagram.             *)
LEMMA AirAndRaw ==
  ASSUME TypeOK, [Next]_vars
  PROVE  /\ raw \subseteq raw'
         /\ \A r \in raw' : r \in raw \/ \E d \in air : r = Content(d)
         /\ \A e \in air' :
              \/ \E d \in air : Content(e) = Content(d)
              \/ e.session = session /\ e.ping = nextPing
<1>1. ASSUME NEW d \in air, Take(d)
      PROVE  /\ raw \subseteq raw' /\ air' \subseteq air
             /\ \A r \in raw' : r \in raw \/ r = Content(d)
  BY <1>1 DEF Take
<1>2. ASSUME NEW d \in air, Duplicate(d)
      PROVE  UNCHANGED raw /\ \A e \in air' : \E f \in air : Content(e) = Content(f)
  BY <1>2, AirTypes DEF Duplicate, Content, Datagrams
<1> QED
  BY <1>1, <1>2 DEF Next, vars, EmitPing, Reboot, Lose, Receive, ReceiveRawOnly,
                    ReceiveHeader, IgnoreSection, StoreSection, CompleteImage

(* What is lost stays lost: the sonar numbers no later ping alike.         *)
LEMMA LostStays ==
  ASSUME TypeOK, [Next]_vars, NEW t \in Tags, Emitted(t), LostIn(t)
  PROVE  LostIn(t)'
<1>1. PICK part \in 0..Len(Sections) :
        Sent(t, part) \notin raw /\ \A d \in air : Content(d) # Sent(t, part)
  BY DEF LostIn
<1>2. Sent(t, part) \notin raw'
  BY <1>1, AirAndRaw
<1>3. ASSUME NEW e \in air', Content(e) = Sent(t, part) PROVE FALSE
  <2>1. e.session = session /\ e.ping = nextPing
    BY <1>1, <1>3, AirAndRaw
  <2>2. e.session = t[1] /\ e.ping = t[2]
    BY <1>3 DEF Content, Sent
  <2>3. session \in Nat /\ nextPing \in Nat
    BY DEF TypeOK, Pings
  <2> QED
    BY <2>1, <2>2, <2>3 DEF Emitted
<1> QED
  BY <1>2, <1>3 DEF LostIn, Sent, Content

LEMMA TrackNext ==
  ASSUME "reorder" \notin Faults, Residue = {}, CutComplete,
         Advertised = {"aid0", "acoustic_image"}
  PROVE  TrackInv /\ [Next]_vars => TrackInv'
<1> SUFFICES ASSUME TrackInv, [Next]_vars, NEW t \in Tags, Sent(t, 0) \in raw'
             PROVE  Imaged(t)' \/ LostIn(t)' \/ Awaited(t)'
  BY InOrderNext DEF TrackInv, Tracked, Sent
<1> DEFINE last == Len(Sections)
<1>0. /\ TypeOK /\ AirEmitted /\ RawPast /\ AssemblersIsolated /\ Tracked
      /\ last \in Nat /\ last > 0
  BY SectionAssumption DEF TrackInv, InOrderInv, IsolationInv, CutComplete
<1>1. \A part \in Nat : Sent(t, part) \in raw => Past(t, part)
  <2>1. \A part : Tag(Sent(t, part)) = t /\ Sent(t, part).part = part
    BY DEF Tag, Sent, Tags
  <2> QED
    BY <1>0, <2>1 DEF RawPast
<1>2. ASSUME NEW d \in air, ReceiveHeader(d), Tag(d) = t PROVE Awaited(t)'
  <2>1. d.part = 0 /\ Take(d)
    BY <1>2 DEF ReceiveHeader
  <2>2. \A part \in 1..last : Sent(t, part) \notin raw
    <3>1. SUFFICES ASSUME NEW part \in 1..last, Past(t, part) PROVE FALSE
      BY <1>1
    <3> QED
      BY <1>0, <1>2, <2>1, <3>1, AirTypes, AirNotBefore
  <2>3. \A part \in 1..last : Sent(t, part) \notin raw'
    BY <2>1, <2>2 DEF Take, Sent, Content
  <2>4. PICK ping \in PingNo(d) :
          ping \in DOMAIN assemblers' /\ assemblers'[ping].header = Tag(d)
    BY <1>0, <1>2, HeaderStep
  <2>5. ping = t[2]
    BY <1>2, <2>4 DEF PingNo, Tag
  <2> QED
    BY <1>0, <1>2, <2>3, <2>4, <2>5 DEF Awaited, Held, ShowsReceived, Sent
<1>3. ASSUME NEW d \in air, Receive(d), Tag(d) # t, Sent(t, 0) \in raw, Awaited(t)
      PROVE  LostIn(t)'
  <2>1. Take(d)
    BY <1>3 DEF Receive, ReceiveRawOnly, ReceiveHeader, IgnoreSection, StoreSection,
                CompleteImage
  <2>2. Sent(t, last) \notin raw'
    BY <1>3, <2>1 DEF Awaited, Take, Sent, Content, Tag, Tags
  <2>3. ASSUME NEW e \in air', Content(e) = Sent(t, last) PROVE FALSE
    <3>1. e \in air /\ ~SentBefore(e, d) /\ e.session = t[1] /\ e.ping = t[2]
      BY <2>1, <2>3 DEF Take, Deliverable, Content, Sent
    <3>2. \/ t[1] < d.session
          \/ t[1] = d.session /\ t[2] < d.ping
          \/ t[1] = d.session /\ t[2] = d.ping
      BY <1>0, <1>1, <1>3, AirNotBefore
    <3>3. ~(t[1] = d.session /\ t[2] = d.ping)
      BY <1>3 DEF Tag, Tags
    <3> QED
      BY <3>1, <3>2, <3>3 DEF SentBefore
  <2> QED
    BY <1>0, <2>2, <2>3 DEF LostIn, Sent, Content
<1>4. ASSUME NEW d \in air, Tag(d) = t, Awaited(t)
      PROVE  /\ d.ping = t[2] /\ d.session = t[1]
             /\ \A garbage : /\ Assembler(d.ping, garbage) = assemblers[t[2]]
                             /\ Matches(Assembler(d.ping, garbage), d)
  <2>1. d.ping = t[2] /\ d.session = t[1] /\ t # None
    BY <1>4 DEF Tag, Tags, None
  <2>2. assemblers[t[2]].h0 = t[2]
    BY <1>0, <1>4, <2>1 DEF Awaited, Held, AssemblersIsolated
  <2> QED
    BY <1>4, <2>1, <2>2 DEF Awaited, Held, Assembler, Matches
(* A section shows up in the raster, and what was there stays.             *)
<1>5. ASSUME NEW d \in air, Tag(d) = t, d.part > 0, Take(d), NEW a \in Assemblers,
             ShowsReceived(a, t),
             NEW part \in 1..last, NEW c \in Cells, Covers(Sections[part], c),
             Sent(t, part) \in raw'
      PROVE  WithSection(a, d).pixels[c] = Measured(t, c)
  <2>1. /\ d \in Datagrams /\ <<d.session, d.ping, c>> = Measured(t, c)
    BY <1>0, <1>5, AirTypes DEF Measured, Tag
  <2>2. WithSection(a, d).pixels[c] =
          IF Covers(Sections[d.part], c) THEN Magnitude(d, c) ELSE Raster(a)[c]
    BY <1>5 DEF WithSection, Assemblers
  <2>3. CASE Covers(Sections[d.part], c)
    BY <1>5, <2>1, <2>2, <2>3, MagnitudeInPlace
  <2>4. CASE ~Covers(Sections[d.part], c)
    <3>1. Sent(t, part) \in raw
      BY <1>5, <2>4 DEF Take, Sent, Content
    <3> QED
      BY <1>5, <2>2, <2>4, <3>1 DEF ShowsReceived
  <2> QED
    BY <2>3, <2>4
<1>6. ASSUME NEW d \in air, StoreSection(d), Tag(d) = t, Awaited(t) PROVE Awaited(t)'
  <2>1. PICK garbage \in Garbage :
          LET a == Assembler(d.ping, garbage) IN
          /\ a \in Assemblers
          /\ DOMAIN assemblers' = DOMAIN assemblers \cup {d.ping}
          /\ assemblers'[d.ping] = WithSection(a, d)
          /\ assemblers'[d.ping].header = a.header
    BY <1>0, <1>6, StoreStep
  <2> DEFINE a == assemblers[t[2]]
  <2>2. /\ a \in Assemblers /\ t[2] \in DOMAIN assemblers'
        /\ assemblers'[t[2]] = WithSection(a, d)
        /\ assemblers'[t[2]].header = t
    BY <1>4, <1>6, <2>1 DEF Awaited, Held
  <2>3. d.part \in DOMAIN Sections /\ d.part # last /\ d.part > 0 /\ Take(d)
    BY <1>0, <1>6, AirTypes DEF StoreSection, CutComplete
  <2>4. Sent(t, last) \notin raw'
    BY <1>6, <2>3 DEF Awaited, Take, Sent, Content
  <2>5. ShowsReceived(a, t)
    BY <1>6 DEF Awaited, Held
  <2>6. WithSection(a, d).pixels # NoPixels \/ Cells = {}
    BY <1>0, <2>2, <2>3, AirTypes, WithSectionType DEF Rasters, NoPixels
  <2>7. \A c \in Cells : Raster(assemblers[t[2]])'[c] = WithSection(a, d).pixels[c]
    BY <2>2, <2>6 DEF Raster
  <2>8. \A part \in 1..last, c \in Cells :
          Covers(Sections[part], c) /\ Sent(t, part) \in raw'
            => WithSection(a, d).pixels[c] = Measured(t, c)
    BY <1>5, <1>6, <2>2, <2>3, <2>5
  <2>9. ShowsReceived(assemblers[t[2]], t)'
    BY <2>7, <2>8 DEF ShowsReceived, Sent, Measured
  <2> QED
    BY <2>2, <2>4, <2>9 DEF Awaited, Held, Sent
<1>7. ASSUME NEW d \in air, CompleteImage(d), Tag(d) = t, Awaited(t)
      PROVE  Imaged(t)' \/ LostIn(t)'
  <2>1. PICK garbage \in Garbage, image \in Images :
          LET a == Assembler(d.ping, garbage) IN
          /\ a \in Assemblers
          /\ image.header = a.header
          /\ image.pixels = WithSection(a, d).pixels
          /\ DOMAIN images' = 1..Len(images) + 1
          /\ images'[Len(images) + 1] = image
    BY <1>0, <1>7, CompleteStep
  <2> DEFINE a == assemblers[t[2]]
  <2>2. /\ a \in Assemblers /\ image.header = t
        /\ image.pixels = WithSection(a, d).pixels
        /\ ShowsReceived(a, t)
    BY <1>4, <1>7, <2>1 DEF Awaited, Held
  <2>3. d.part = last /\ d.part > 0 /\ Take(d) /\ d.part \in Nat
    BY <1>0, <1>7, AirTypes DEF CompleteImage, CutComplete
  <2>4. CASE \A part \in 1..last : Sent(t, part) \in raw'
    <3>1. \A c \in Cells : image.pixels[c] = Measured(t, c)
      <4>1. SUFFICES ASSUME NEW c \in Cells PROVE image.pixels[c] = Measured(t, c)
        OBVIOUS
      <4>2. PICK part \in 1..last : Covers(Sections[part], c)
        BY SectionAssumption DEF CutComplete
      <4> QED
        BY <1>5, <1>7, <2>2, <2>3, <2>4, <4>2
    <3>2. Len(images) + 1 \in DOMAIN images'
      BY <1>0, <2>1 DEF TypeOK
    <3> QED
      BY <2>1, <2>2, <3>1, <3>2 DEF Imaged, Measured
  <2>5. ASSUME NEW part \in 1..last, Sent(t, part) \notin raw' PROVE LostIn(t)'
    <3>1. ASSUME NEW e \in air', Content(e) = Sent(t, part) PROVE FALSE
      <4>1. e \in air /\ ~SentBefore(e, d)
        BY <2>3, <3>1 DEF Take, Deliverable
      <4>2. e.session = t[1] /\ e.ping = t[2] /\ e.part = part
        BY <3>1 DEF Content, Sent
      <4>3. part = d.part
        BY <1>4, <1>7, <2>3, <2>5, <4>1, <4>2 DEF SentBefore
      <4>4. Content(d) \in raw'
        BY <2>3 DEF Take, ShouldPublish
      <4>5. Content(d) = Sent(t, part)
        BY <1>4, <1>7, <4>3 DEF Content, Sent
      <4> QED
        BY <2>5, <4>4, <4>5
    <3> QED
      BY <1>0, <2>5, <3>1 DEF LostIn, Sent, Content
  <2> QED
    BY <2>4, <2>5
<1>8. CASE Sent(t, 0) \notin raw
  <2>1. PICK d \in air : Sent(t, 0) = Content(d) /\ Take(d) /\ Receive(d)
    <3>1. raw' # raw
      BY <1>8
    <3>2. PICK d \in air : Receive(d)
      BY <3>1 DEF Next, EmitPing, Reboot, Lose, Duplicate, vars
    <3>3. Take(d)
      BY <3>2 DEF Receive, ReceiveRawOnly, ReceiveHeader, IgnoreSection, StoreSection,
                  CompleteImage
    <3> QED
      BY <1>8, <3>2, <3>3 DEF Take
  <2>2. d.part = 0 /\ Tag(d) = t
    BY <2>1, AirTypes DEF Sent, Content, Tag, Tags
  <2>3. ReceiveHeader(d)
    BY <2>1, <2>2 DEF Receive, ReceiveRawOnly, IgnoreSection, StoreSection, CompleteImage,
                      ShouldPublish
  <2> QED
    BY <1>2, <2>2, <2>3
<1>9. CASE Sent(t, 0) \in raw /\ (Imaged(t) \/ LostIn(t))
  <2>1. Emitted(t)
    BY <1>1, <1>9 DEF Past
  <2> QED
    BY <1>0, <1>9, <2>1, ImagedStays, LostStays
<1>10. CASE Sent(t, 0) \in raw /\ Awaited(t)
  <2>1. ASSUME UNCHANGED <<raw, assemblers>> PROVE Awaited(t)'
    BY <1>10, <2>1 DEF Awaited, Held, ShowsReceived, Sent, Raster, Measured
  <2>2. CASE EmitPing \/ Reboot \/ UNCHANGED vars
    BY <2>1, <2>2 DEF EmitPing, Reboot, vars
  <2>3. ASSUME NEW d \in air, Lose(d) \/ Duplicate(d) PROVE Awaited(t)'
    BY <2>1, <2>3 DEF Lose, Duplicate
  <2>4. ASSUME NEW d \in air, Receive(d), Tag(d) # t PROVE LostIn(t)'
    BY <1>3, <1>10, <2>4
  <2>5. ASSUME NEW d \in air, Tag(d) = t, ReceiveRawOnly(d) \/ IgnoreSection(d)
        PROVE  FALSE
    BY <1>4, <1>10, <2>5 DEF ReceiveRawOnly, IgnoreSection, ShouldPublish
  <2> QED
    BY <1>2, <1>6, <1>7, <1>10, <2>2, <2>3, <2>4, <2>5 DEF Next, Receive
<1> QED
  BY <1>0, <1>8, <1>9, <1>10 DEF Tracked

(* On a network that keeps the order, a ping all of whose datagrams were   *)
(* received has its image published, complete and under its own header,    *)
(* whatever is lost or duplicated of it and of others, however often the   *)
(* sonar reboots into numbers it has used, and whatever memory holds.      *)
THEOREM ReceivedIsImaged ==
  ASSUME "reorder" \notin Faults, Residue = {}, CutComplete,
         Advertised = {"aid0", "acoustic_image"}
  PROVE  Spec => []ReceivedPingImaged
<1>1. Init => TrackInv
  BY InOrderInit DEF Init, TrackInv, Tracked
<1>2. TrackInv /\ [Next]_vars => TrackInv'
  BY TrackNext
<1>3. TrackInv => ReceivedPingImaged
  <2>1. SUFFICES ASSUME TrackInv, NEW t \in Tags,
                        \A part \in 0..Len(Sections) : Sent(t, part) \in raw
                 PROVE  Imaged(t)
    BY DEF ReceivedPingImaged, Imaged
  <2>2. 0 \in 0..Len(Sections) /\ Len(Sections) \in 0..Len(Sections)
    BY SectionAssumption
  <2> QED
    BY <2>1, <2>2 DEF TrackInv, Tracked, LostIn, Awaited
<1> QED
  BY <1>1, <1>2, <1>3, PTL DEF Spec

-----------------------------------------------------------------------------
(* Two topics, one story.  While the sonar does not reboot and memory      *)
(* spells no ping number, every assembler and every image shows exactly    *)
(* what went out on raw/aid0 of the ping of its header.                    *)

OneStory ==
  /\ MaxSessions = 1
  /\ "reorder" \notin Faults
  /\ Residue = {}
  /\ Garbage \cap (0..LastPing) = {}
  /\ Advertised = {"aid0", "acoustic_image"}
  /\ \A part \in DOMAIN Sections : IsFinal(Sections[part]) => part = Len(Sections)

HasReceived(t, c) ==
  \E part \in 1..Len(Sections) : Covers(Sections[part], c) /\ Sent(t, part) \in raw

Shows(raster, t) == \A c \in Cells : raster[c] = Measured(t, c) <=> HasReceived(t, c)

UnfilledShows(a) == a.h0 \in Garbage /\ a.pixels = NoPixels
FilledShows(a, q) ==
  /\ a.header = <<1, q>>
  /\ Sent(<<1, q>>, 0) \in raw
  /\ Shows(Raster(a), <<1, q>>)

AssemblersShow ==
  \A q \in DOMAIN assemblers :
    IF assemblers[q].header = None
    THEN UnfilledShows(assemblers[q]) ELSE FilledShows(assemblers[q], q)

(* Of a published ping at most copies of the last section are to come.     *)
ShowsForGood(image) ==
  /\ image.header = <<1, image.ping>>
  /\ Past(image.header, Len(Sections))
  /\ Sent(image.header, 0) \in raw /\ Sent(image.header, Len(Sections)) \in raw
  /\ Shows(image.pixels, image.header)

ImagesShow == \A i \in DOMAIN images : ShowsForGood(images[i])

ShowInv == InOrderInv /\ AssemblersShow /\ ImagesShow

LEMMA ShowInit == Init => ShowInv
BY InOrderInit DEF Init, ShowInv, AssemblersShow, ImagesShow

(* What a ping shows changes only when one of its own sections comes.      *)
LEMMA ShowsStays ==
  ASSUME raw \subseteq raw', NEW raster, NEW t,
         \A part \in 1..Len(Sections) : Sent(t, part) \in raw' => Sent(t, part) \in raw,
         Shows(raster, t)
  PROVE  Shows(raster, t)'
BY DEF Shows, HasReceived, Sent, Measured

(* What is shown for good is.                                              *)
LEMMA ShowsForGoodStays ==
  ASSUME TypeOK, AirEmitted, [Next]_vars, NEW image \in Images, ShowsForGood(image)
  PROVE  ShowsForGood(image)'
<1>1. PICK t \in Tags : t = image.header
  BY DEF ShowsForGood, Images, None
<1>2. /\ t = <<1, image.ping>> /\ Past(t, Len(Sections)) /\ Len(Sections) \in Nat
      /\ Sent(t, 0) \in raw /\ Sent(t, Len(Sections)) \in raw
      /\ Shows(image.pixels, t)
  BY <1>1, SectionAssumption DEF ShowsForGood
<1>3. Past(t, Len(Sections))'
  BY <1>2, PastStays
<1>4. ASSUME NEW part \in 1..Len(Sections), Sent(t, part) \in raw', Sent(t, part) \notin raw
      PROVE  FALSE
  <2>1. PICK d \in air : Sent(t, part) = Content(d)
    BY <1>4, AirAndRaw
  <2>2. d.session = t[1] /\ d.ping = t[2] /\ d.part = part
    BY <2>1 DEF Sent, Content
  <2>3. part = Len(Sections)
    BY <1>2, <2>2, AirNotBefore, AirTypes DEF Tags, Pings
  <2> QED
    BY <1>2, <1>4, <2>3
<1>5. raw \subseteq raw'
  BY AirAndRaw
<1>6. Shows(image.pixels, t)'
  BY <1>2, <1>4, <1>5, ShowsStays
<1> QED
  BY <1>1, <1>2, <1>3, <1>5, <1>6 DEF ShowsForGood, Sent

(* An assembler that takes a section holds its header.                     *)
LEMMA MatchShows ==
  ASSUME OneStory, ShowInv, NEW d \in air, NEW garbage \in Garbage
  PROVE  LET a == Assembler(d.ping, garbage) IN
         IF Matches(a, d) THEN FilledShows(a, d.ping)
                          ELSE a.header = None /\ UnfilledShows(a)
<1> DEFINE a == Assembler(d.ping, garbage)
<1>1. /\ TypeOK /\ AssemblersIsolated
      /\ d.ping \in 0..LastPing
  <2>1. TypeOK /\ AssemblersIsolated /\ AirEmitted
    BY DEF ShowInv, InOrderInv, IsolationInv
  <2> QED
    BY <2>1, AirTypes, PingAssumption DEF AirEmitted
<1>2. \/ a.header = None /\ UnfilledShows(a)
      \/ a.header # None /\ FilledShows(a, d.ping) /\ a.h0 = d.ping
  <2>1. CASE d.ping \in DOMAIN assemblers
    <3>1. a = assemblers[d.ping]
      BY <2>1 DEF Assembler
    <3>2. IF a.header = None THEN UnfilledShows(a) ELSE FilledShows(a, d.ping)
      BY <2>1, <3>1 DEF ShowInv, AssemblersShow
    <3>3. a.header # None => a.h0 = a.header[2]
      BY <1>1, <2>1, <3>1 DEF AssemblersIsolated
    <3> HIDE DEF a
    <3> QED
      BY <3>2, <3>3 DEF FilledShows
  <2>2. CASE d.ping \notin DOMAIN assemblers
    BY <2>2 DEF Assembler, Fresh, UnfilledShows
  <2> QED
    BY <2>1, <2>2
<1> HIDE DEF a
<1>3. UnfilledShows(a) => a.h0 # d.ping
  BY <1>1 DEF OneStory, UnfilledShows
<1> QED
  BY <1>2, <1>3 DEF Matches, a

(* A section stored of a ping is a section received of it.                 *)
LEMMA SectionShows ==
  ASSUME OneStory, TypeOK, NEW d \in air, Take(d), d.part > 0,
         NEW a \in Assemblers, FilledShows(a, d.ping)
  PROVE  Shows(WithSection(a, d).pixels, <<1, d.ping>>)'
<1> DEFINE t == <<1, d.ping>>
<1>1. d \in Datagrams /\ d.session = 1 /\ d.part \in 1..Len(Sections) /\ Content(d) = Sent(t, d.part)
  BY AirTypes, SectionAssumption DEF OneStory, Content, Sent
<1>2. raw' = raw \cup {Sent(t, d.part)}
  BY <1>1 DEF Take, OneStory, ShouldPublish
<1>3. ASSUME NEW c \in Cells
      PROVE  WithSection(a, d).pixels[c] = Measured(t, c) <=>
               \E part \in 1..Len(Sections) : Covers(Sections[part], c) /\ Sent(t, part) \in raw'
  <2>1. WithSection(a, d).pixels[c] =
          IF Covers(Sections[d.part], c) THEN Magnitude(d, c) ELSE Raster(a)[c]
    BY DEF WithSection, Assemblers
  <2>2. CASE Covers(Sections[d.part], c)
    <3>1. WithSection(a, d).pixels[c] = Measured(t, c)
      BY <1>1, <2>1, <2>2, MagnitudeInPlace DEF Measured
    <3> QED
      BY <1>1, <1>2, <2>2, <3>1
  <2>3. CASE ~Covers(Sections[d.part], c)
    <3>1. WithSection(a, d).pixels[c] = Measured(t, c) <=> HasReceived(t, c)
      BY <2>1, <2>3 DEF FilledShows, Shows
    <3>2. \A part : Sent(t, part) = Sent(t, d.part) => part = d.part
      BY DEF Sent
    <3>3. ASSUME NEW part \in 1..Len(Sections), Covers(Sections[part], c)
          PROVE  Sent(t, part) \in raw' <=> Sent(t, part) \in raw
      BY <1>2, <2>3, <3>2, <3>3
    <3> QED
      BY <3>1, <3>3 DEF HasReceived
  <2> QED
    BY <2>2, <2>3
<1>4. \A c \in Cells : WithSection(a, d).pixels[c] = Measured(t, c) <=> HasReceived(t, c)'
  BY <1>3 DEF HasReceived, Sent
<1> QED
  BY <1>4 DEF Shows, Measured

LEMMA ShowNext ==
  ASSUME OneStory
  PROVE  ShowInv /\ [Next]_vars => ShowInv'
<1> SUFFICES ASSUME ShowInv, [Next]_vars PROVE AssemblersShow' /\ ImagesShow'
  BY InOrderNext DEF ShowInv, OneStory
<1>0. TypeOK /\ AirEmitted /\ RawPast /\ AssemblersShow /\ ImagesShow /\ TypeOK'
  BY TypeNext DEF ShowInv, InOrderInv, IsolationInv
<1>1. ASSUME UNCHANGED images PROVE ImagesShow'
  <2>1. \A i \in DOMAIN images : images[i] \in Images /\ ShowsForGood(images[i])
    BY <1>0 DEF TypeOK, ImagesShow
  <2>2. \A image \in Images : ShowsForGood(image) => ShowsForGood(image)'
    BY <1>0, ShowsForGoodStays
  <2> QED
    BY <1>1, <2>1, <2>2 DEF ImagesShow
<1>2. ASSUME UNCHANGED <<raw, assemblers>> PROVE AssemblersShow'
  BY <1>0, <1>2 DEF AssemblersShow, UnfilledShows, FilledShows, Shows, HasReceived, Sent,
                    Measured, Raster
<1>3. CASE EmitPing \/ Reboot \/ UNCHANGED vars
  BY <1>1, <1>2, <1>3 DEF EmitPing, Reboot, vars
<1>4. ASSUME NEW d \in air, Lose(d) \/ Duplicate(d) PROVE AssemblersShow' /\ ImagesShow'
  BY <1>1, <1>2, <1>4 DEF Lose, Duplicate
<1>5. ASSUME NEW d \in air
      PROVE  /\ d.session = 1 /\ d.ping \in Pings /\ Tag(d) = <<1, d.ping>>
             /\ Content(d) = Sent(<<1, d.ping>>, d.part)
  BY <1>0, AirTypes DEF OneStory, Content, Sent
<1>6. ASSUME NEW d \in air, Take(d)
      PROVE  raw' = raw \cup {Sent(<<1, d.ping>>, d.part)}
  BY <1>5, <1>6 DEF Take, OneStory, ShouldPublish
(* What another ping has in an assembler, or this one when its header      *)
(* comes, stays true.                                                      *)
<1>7. ASSUME NEW d \in air, Take(d), NEW q, NEW a, FilledShows(a, q), q # d.ping \/ d.part = 0
      PROVE  FilledShows(a, q)'
  <2>1. \A part \in 1..Len(Sections) :
          Sent(<<1, q>>, part) \in raw' => Sent(<<1, q>>, part) \in raw
    BY <1>6, <1>7 DEF Sent
  <2>2. Shows(Raster(a), <<1, q>>)'
    BY <1>6, <1>7, <2>1, ShowsStays DEF FilledShows
  <2> QED
    BY <1>6, <1>7, <2>2 DEF FilledShows, Sent
<1>8. ASSUME NEW d \in air, Take(d),
             \A q \in DOMAIN assemblers' :
               \/ /\ q \in DOMAIN assemblers /\ q # d.ping
                  /\ assemblers'[q] = assemblers[q]
               \/ assemblers'[q].header = None /\ UnfilledShows(assemblers'[q])
               \/ FilledShows(assemblers[q], q)'
      PROVE  AssemblersShow'
  <2>1. SUFFICES ASSUME NEW q \in DOMAIN assemblers'
                 PROVE  IF assemblers'[q].header = None
                        THEN UnfilledShows(assemblers'[q]) ELSE FilledShows(assemblers[q], q)'
    BY DEF AssemblersShow, UnfilledShows
  <2>2. CASE assemblers'[q].header = None /\ UnfilledShows(assemblers'[q])
    BY <2>2
  <2>3. CASE FilledShows(assemblers[q], q)'
    BY <2>3 DEF FilledShows, None
  <2>4. CASE q \in DOMAIN assemblers /\ q # d.ping /\ assemblers'[q] = assemblers[q]
    <3>1. PICK a : a = assemblers'[q]
      OBVIOUS
    <3>2. IF a.header = None THEN UnfilledShows(a) ELSE FilledShows(a, q)
      BY <1>0, <2>4, <3>1 DEF AssemblersShow
    <3>3. IF a.header = None THEN UnfilledShows(a) ELSE FilledShows(a, q)'
      BY <1>7, <1>8, <2>4, <3>2
    <3> QED
      BY <3>1, <3>3
  <2> QED
    BY <1>8, <2>1, <2>2, <2>3, <2>4
<1>9. ASSUME NEW d \in air, ReceiveHeader(d) PROVE AssemblersShow' /\ ImagesShow'
  <2> DEFINE t == <<1, d.ping>>
  <2>1. PICK ping \in PingNo(d), garbage \in Garbage :
          LET a == Assembler(ping, garbage) IN
          /\ a \in Assemblers
          /\ DOMAIN assemblers' = DOMAIN assemblers \cup {ping}
          /\ assemblers'[ping].header = Tag(d)
          /\ assemblers'[ping].pixels = a.pixels
          /\ \A q \in DOMAIN assemblers : q # ping => assemblers'[q] = assemblers[q]
    BY <1>0, <1>9, HeaderStep
  <2>2. ping = d.ping /\ d.part = 0 /\ Take(d) /\ UNCHANGED images
    BY <1>9 DEF PingNo, ReceiveHeader, OneStory
  <2>3. PICK a \in Assemblers :
          /\ a = Assembler(d.ping, garbage)
          /\ Raster(assemblers'[d.ping]) = Raster(a)
    BY <2>1, <2>2 DEF Raster
  <2>4. Shows(Raster(a), t)
    <3>1. CASE FilledShows(a, d.ping)
      BY <3>1 DEF FilledShows
    <3>2. CASE UnfilledShows(a)
      <4>1. \A part \in 1..Len(Sections) : Sent(t, part) \notin raw
        <5>1. SUFFICES ASSUME NEW part \in 1..Len(Sections), Sent(t, part) \in raw
                       PROVE  FALSE
          OBVIOUS
        <5>2. Past(t, part)
          BY <1>0, <5>1 DEF RawPast, Tag, Sent
        <5> QED
          BY <1>0, <1>5, <2>2, <5>2, AirTypes, AirNotBefore
      <4>2. \A c \in Cells : Raster(a)[c] = None
        BY <3>2 DEF UnfilledShows, Raster
      <4>3. \A c \in Cells : Measured(t, c) # None
        BY DEF Measured, None
      <4> QED
        BY <4>1, <4>2, <4>3 DEF Shows, HasReceived
    <3> QED
      BY <2>3, <3>1, <3>2, MatchShows
  <2>5. raw \subseteq raw' /\ Sent(t, 0) \in raw'
    BY <1>6, <2>2
  <2>6. \A part \in 1..Len(Sections) : Sent(t, part) \in raw' => Sent(t, part) \in raw
    BY <1>6, <2>2 DEF Sent
  <2>7. Shows(Raster(a), t)'
    BY <2>4, <2>5, <2>6, ShowsStays
  <2>8. FilledShows(assemblers[d.ping], d.ping)'
    <3>1. assemblers'[d.ping].header = t
      BY <1>5, <2>1, <2>2
    <3>2. Raster(assemblers[d.ping])' = Raster(a)
      BY <2>3 DEF Raster
    <3>3. \A c \in Cells : Raster(a)[c] = Measured(t, c) <=> HasReceived(t, c)'
      BY <2>7 DEF Shows, Measured, Raster
    <3>4. Shows(Raster(assemblers[d.ping]), t)'
      BY <3>2, <3>3 DEF Shows, Measured
    <3> QED
      BY <2>5, <3>1, <3>4 DEF FilledShows, Sent
  <2> QED
    BY <1>1, <1>8, <2>1, <2>2, <2>8
<1>10. ASSUME NEW d \in air, IgnoreSection(d) PROVE AssemblersShow' /\ ImagesShow'
  <2>1. PICK garbage \in Garbage :
          /\ ~Matches(Assembler(d.ping, garbage), d)
          /\ DOMAIN assemblers' = DOMAIN assemblers \cup {d.ping}
          /\ assemblers'[d.ping] = Assembler(d.ping, garbage)
          /\ \A q \in DOMAIN assemblers : assemblers'[q] = assemblers[q]
    BY <1>0, <1>10, IgnoreStep
  <2>2. assemblers'[d.ping].header = None /\ UnfilledShows(assemblers'[d.ping])
    BY <2>1, MatchShows
  <2> QED
    BY <1>1, <1>8, <1>10, <2>1, <2>2 DEF IgnoreSection
<1>11. ASSUME NEW d \in air, StoreSection(d) PROVE AssemblersShow' /\ ImagesShow'
  <2>1. PICK garbage \in Garbage :
          LET a == Assembler(d.ping, garbage) IN
          /\ Matches(a, d)
          /\ a \in Assemblers
          /\ DOMAIN assemblers' = DOMAIN assemblers \cup {d.ping}
          /\ assemblers'[d.ping] = WithSection(a, d)
          /\ assemblers'[d.ping].header = a.header
          /\ \A q \in DOMAIN assemblers : q # d.ping => assemblers'[q] = assemblers[q]
    BY <1>0, <1>11, StoreStep
  <2>2. PICK a \in Assemblers :
          /\ FilledShows(a, d.ping)
          /\ assemblers'[d.ping] = WithSection(a, d)
          /\ assemblers'[d.ping].header = a.header
    BY <2>1, MatchShows
  <2>3. Take(d) /\ d.part > 0 /\ UNCHANGED images
    BY <1>11 DEF StoreSection
  <2>4. Shows(WithSection(a, d).pixels, <<1, d.ping>>)'
    BY <1>0, <2>2, <2>3, SectionShows
  <2>5. Shows(Raster(assemblers[d.ping]), <<1, d.ping>>)'
    <3>1. WithSection(a, d).pixels # NoPixels \/ Cells = {}
      BY <1>0, <2>3, AirTypes, WithSectionType DEF Rasters, NoPixels
    <3>2. \A c \in Cells : Raster(assemblers'[d.ping])[c] = WithSection(a, d).pixels[c]
      BY <2>2, <3>1 DEF Raster
    <3>3. \A c \in Cells : WithSection(a, d).pixels[c] = Measured(<<1, d.ping>>, c)
                             <=> HasReceived(<<1, d.ping>>, c)'
      BY <2>4 DEF Shows, Measured
    <3> QED
      BY <3>2, <3>3 DEF Shows, Measured, Raster
  <2>6. FilledShows(assemblers[d.ping], d.ping)'
    <3>1. FilledShows(a, d.ping)
      BY <2>2
    <3> QED
      BY <1>6, <2>2, <2>3, <2>5, <3>1 DEF FilledShows, Sent
  <2> QED
    BY <1>1, <1>8, <2>1, <2>3, <2>6
<1>12. ASSUME NEW d \in air, CompleteImage(d) PROVE AssemblersShow' /\ ImagesShow'
  <2> DEFINE t == <<1, d.ping>>
  <2>1. PICK garbage \in Garbage, image \in Images :
          LET a == Assembler(d.ping, garbage) IN
          /\ Matches(a, d)
          /\ a \in Assemblers
          /\ image.ping = d.ping
          /\ image.header = a.header
          /\ image.pixels = WithSection(a, d).pixels
          /\ DOMAIN images' = 1..Len(images) + 1
          /\ images'[Len(images) + 1] = image
          /\ \A i \in DOMAIN images : images'[i] = images[i]
          /\ \A q \in DOMAIN assemblers' :
               q \in DOMAIN assemblers /\ q # d.ping /\ assemblers'[q] = assemblers[q]
    BY <1>0, <1>12, CompleteStep
  <2>2. PICK a \in Assemblers :
          /\ FilledShows(a, d.ping)
          /\ image.header = a.header /\ image.pixels = WithSection(a, d).pixels
    BY <2>1, MatchShows
  <2>3. Take(d) /\ d.part > 0 /\ d.part = Len(Sections)
    <3>1. d.part \in DOMAIN Sections
      BY <1>0, <1>12, AirTypes, SectionAssumption DEF CompleteImage
    <3> QED
      BY <1>12, <3>1 DEF CompleteImage, OneStory
  <2>4. AssemblersShow'
    BY <1>8, <2>1, <2>3
  <2>5. ShowsForGood(image)'
    <3>1. Shows(WithSection(a, d).pixels, t)'
      BY <1>0, <2>2, <2>3, SectionShows
    <3>2. image.header = t /\ Sent(t, 0) \in raw' /\ Sent(t, Len(Sections)) \in raw'
      BY <1>6, <2>2, <2>3 DEF FilledShows
    <3>3. Past(t, Len(Sections)) /\ t \in Tags
      BY <1>0, <1>5, <2>3, TakenIsPast, AirTypes DEF Take, OneStory
    <3>4. Past(t, Len(Sections))'
      BY <1>0, <3>3, PastStays
    <3> QED
      BY <2>1, <2>2, <3>1, <3>2, <3>4 DEF ShowsForGood, Sent
  <2>6. \A i \in DOMAIN images : images[i] \in Images /\ ShowsForGood(images[i])
    BY <1>0 DEF TypeOK, ImagesShow
  <2>7. \A other \in Images : ShowsForGood(other) => ShowsForGood(other)'
    BY <1>0, ShowsForGoodStays
  <2>8. \A i \in DOMAIN images' : i \in DOMAIN images \/ images'[i] = image
    BY <1>0, <2>1 DEF TypeOK
  <2>9. ImagesShow'
    BY <2>1, <2>5, <2>6, <2>7, <2>8 DEF ImagesShow
  <2> QED
    BY <2>4, <2>9
<1>13. ASSUME NEW d \in air, ReceiveRawOnly(d) PROVE FALSE
  BY <1>13 DEF ReceiveRawOnly, OneStory, ShouldPublish
<1> QED
  BY <1>3, <1>4, <1>9, <1>10, <1>11, <1>12, <1>13 DEF Next, Receive

(* A pixel of an image is what the ping of its header measured in that     *)
(* cell exactly if an M0 section with that cell went out on raw/aid0,      *)
(* whatever the network lost or duplicated.                                *)
THEOREM TopicsTellOneStory ==
  ASSUME OneStory
  PROVE  Spec => []ImagesMatchRaw
<1>1. ShowInv /\ [Next]_vars => ShowInv'
  BY ShowNext
<1>2. ShowInv => ImagesMatchRaw
  BY DEF ShowInv, ImagesShow, ShowsForGood, Shows, HasReceived, ImagesMatchRaw
<1> QED
  BY <1>1, <1>2, ShowInit, PTL DEF Spec

-----------------------------------------------------------------------------
(* Nothing invented.  On every network, with every memory and whatever the *)
(* sonar does, what an image shows went out on raw/aid0 before it.         *)

(* The header and the measurement of a cell were received.                 *)
HeaderReceived(t) == t # None => Sent(t, 0) \in raw

PixelReceived(pixel, c) ==
  pixel # None =>
    /\ pixel = Measured(pixel, c)
    /\ \E part \in 1..Len(Sections) :
         Covers(Sections[part], c) /\ Sent(pixel, part) \in raw

(* Where an image shows the header or a measurement of a ping, the         *)
(* datagram that carried it was received: no datagram lost on the way, no  *)
(* other cell and no leftover of the zero-filled image passes for it.      *)
ShownWasReceived ==
  \A i \in DOMAIN images :
    /\ HeaderReceived(images[i].header)
    /\ \A c \in Cells : PixelReceived(images[i].pixels[c], c)

HeldWasReceived ==
  \A q \in DOMAIN assemblers :
    /\ HeaderReceived(assemblers[q].header)
    /\ \A c \in Cells : PixelReceived(Raster(assemblers[q])[c], c)

ReceivedInv == TypeOK /\ ShownWasReceived /\ HeldWasReceived

LEMMA ReceivedStays ==
  ASSUME raw \subseteq raw'
  PROVE  /\ \A t : HeaderReceived(t) =>
              (t # None => Sent(t, 0) \in raw')
         /\ \A pixel, c : PixelReceived(pixel, c) =>
              (pixel # None =>
                 /\ pixel = Measured(pixel, c)
                 /\ \E part \in 1..Len(Sections) :
                      Covers(Sections[part], c) /\ Sent(pixel, part) \in raw')
BY DEF HeaderReceived, PixelReceived

LEMMA SectionReceived ==
  ASSUME TypeOK, NEW d \in air, Take(d), ShouldPublish("aid0"), d.part > 0,
         NEW a \in Assemblers, \A c \in Cells : PixelReceived(Raster(a)[c], c)
  PROVE  \A c \in Cells : PixelReceived(WithSection(a, d).pixels[c], c)'
<1>1. raw' = raw \cup {Content(d)}
  BY DEF Take
<1>2. /\ d \in Datagrams /\ d.part \in 1..Len(Sections)
      /\ \A t : t[1] = d.session /\ t[2] = d.ping => Content(d) = Sent(t, d.part)
  BY AirTypes, SectionAssumption DEF Content, Sent
<1>3. SUFFICES ASSUME NEW c \in Cells, NEW pixel, pixel = WithSection(a, d).pixels[c],
                      pixel # None
               PROVE  /\ pixel = Measured(pixel, c)
                      /\ \E part \in 1..Len(Sections) :
                           Covers(Sections[part], c) /\ Sent(pixel, part) \in raw'
  BY DEF PixelReceived, Measured, Sent
<1>4. pixel = IF Covers(Sections[d.part], c) THEN Magnitude(d, c) ELSE Raster(a)[c]
  BY <1>3 DEF WithSection, Assemblers
<1>5. CASE Covers(Sections[d.part], c)
  <2>1. pixel = <<d.session, d.ping, c>>
    BY <1>2, <1>4, <1>5, MagnitudeInPlace
  <2>2. Sent(pixel, d.part) \in raw'
    BY <1>1, <1>2, <2>1
  <2> QED
    BY <1>2, <1>5, <2>1, <2>2 DEF Measured
<1>6. CASE ~Covers(Sections[d.part], c)
  BY <1>1, <1>3, <1>4, <1>6, ReceivedStays
<1> QED
  BY <1>5, <1>6

LEMMA ReceivedNext ==
  ASSUME "aid0" \in Advertised
  PROVE  ReceivedInv /\ [Next]_vars => ReceivedInv'
<1> SUFFICES ASSUME ReceivedInv, [Next]_vars PROVE ShownWasReceived' /\ HeldWasReceived'
  BY TypeNext DEF ReceivedInv
<1>0. TypeOK /\ ShownWasReceived /\ HeldWasReceived /\ raw \subseteq raw'
  BY AirAndRaw DEF ReceivedInv
<1>1. /\ \A t : HeaderReceived(t) => HeaderReceived(t)'
      /\ \A pixel, c : PixelReceived(pixel, c) => PixelReceived(pixel, c)'
  BY <1>0, ReceivedStays DEF HeaderReceived, PixelReceived, Sent, Measured
<1>2. ASSUME UNCHANGED images PROVE ShownWasReceived'
  BY <1>0, <1>1, <1>2 DEF ShownWasReceived
<1>3. ASSUME \A q \in DOMAIN assemblers' :
               \/ q \in DOMAIN assemblers /\ assemblers'[q] = assemblers[q]
               \/ /\ HeaderReceived(assemblers[q].header)'
                  /\ \A c \in Cells : PixelReceived(Raster(assemblers[q])[c], c)'
      PROVE  HeldWasReceived'
  <2>1. SUFFICES ASSUME NEW q \in DOMAIN assemblers',
                        q \in DOMAIN assemblers, assemblers'[q] = assemblers[q]
                 PROVE  /\ HeaderReceived(assemblers[q].header)'
                        /\ \A c \in Cells : PixelReceived(Raster(assemblers[q])[c], c)'
    BY <1>3 DEF HeldWasReceived
  <2>2. PICK a : a = assemblers[q]
    OBVIOUS
  <2>3. HeaderReceived(a.header) /\ \A c \in Cells : PixelReceived(Raster(a)[c], c)
    BY <1>0, <2>1, <2>2 DEF HeldWasReceived
  <2>4. HeaderReceived(a.header)' /\ \A c \in Cells : PixelReceived(Raster(a)[c], c)'
    BY <1>1, <2>3 DEF Raster
  <2> QED
    BY <2>1, <2>2, <2>4
<1>4. CASE EmitPing \/ Reboot \/ UNCHANGED vars
  BY <1>2, <1>3, <1>4 DEF EmitPing, Reboot, vars
<1>5. ASSUME NEW d \in air, Lose(d) \/ Duplicate(d) \/ ReceiveRawOnly(d)
      PROVE  ShownWasReceived' /\ HeldWasReceived'
  BY <1>2, <1>3, <1>5 DEF Lose, Duplicate, ReceiveRawOnly
(* What operator[] returns was received: a fresh assembler has nothing.    *)
<1>6. ASSUME NEW ping, NEW garbage
      PROVE  LET a == Assembler(ping, garbage) IN
             HeaderReceived(a.header) /\ \A c \in Cells : PixelReceived(Raster(a)[c], c)
  <2>1. CASE ping \in DOMAIN assemblers
    BY <1>0, <2>1 DEF Assembler, HeldWasReceived
  <2>2. CASE ping \notin DOMAIN assemblers
    BY <2>2 DEF Assembler, Fresh, Raster, HeaderReceived, PixelReceived
  <2> QED
    BY <2>1, <2>2
<1>7. ASSUME NEW d \in air, ReceiveHeader(d) PROVE ShownWasReceived' /\ HeldWasReceived'
  <2>1. PICK ping \in PingNo(d), garbage \in Garbage :
          LET a == Assembler(ping, garbage) IN
          /\ DOMAIN assemblers' = DOMAIN assemblers \cup {ping}
          /\ assemblers'[ping].header = Tag(d)
          /\ assemblers'[ping].pixels = a.pixels
          /\ \A q \in DOMAIN assemblers : q # ping => assemblers'[q] = assemblers[q]
    BY <1>0, <1>7, HeaderStep
  <2>2. HeaderReceived(assemblers[ping].header)'
    <3>1. Sent(Tag(d), 0) \in raw'
      BY <1>7 DEF ReceiveHeader, Take, ShouldPublish, Sent, Tag, Content
    <3> QED
      BY <2>1, <3>1 DEF HeaderReceived, Sent
  <2>3. PICK a :
          /\ Raster(assemblers'[ping]) = Raster(a)
          /\ \A c \in Cells : PixelReceived(Raster(a)[c], c)
    BY <1>6, <2>1 DEF Raster
  <2>4. \A c \in Cells : PixelReceived(Raster(assemblers[ping])[c], c)'
    BY <1>1, <2>3 DEF Raster
  <2> QED
    BY <1>2, <1>3, <1>7, <2>1, <2>2, <2>4 DEF ReceiveHeader
<1>8. ASSUME NEW d \in air, IgnoreSection(d) PROVE ShownWasReceived' /\ HeldWasReceived'
  <2>1. PICK garbage \in Garbage :
          /\ DOMAIN assemblers' = DOMAIN assemblers \cup {d.ping}
          /\ assemblers'[d.ping] = Assembler(d.ping, garbage)
          /\ \A q \in DOMAIN assemblers : assemblers'[q] = assemblers[q]
    BY <1>0, <1>8, IgnoreStep
  <2>2. PICK a :
          /\ assemblers'[d.ping] = a
          /\ HeaderReceived(a.header) /\ \A c \in Cells : PixelReceived(Raster(a)[c], c)
    BY <1>6, <2>1
  <2>3. /\ HeaderReceived(assemblers[d.ping].header)'
        /\ \A c \in Cells : PixelReceived(Raster(assemblers[d.ping])[c], c)'
    BY <1>1, <2>2 DEF Raster
  <2> QED
    BY <1>2, <1>3, <1>8, <2>1, <2>3 DEF IgnoreSection
<1>9. ASSUME NEW d \in air, StoreSection(d) PROVE ShownWasReceived' /\ HeldWasReceived'
  <2>1. PICK garbage \in Garbage :
          LET a == Assembler(d.ping, garbage) IN
          /\ a \in Assemblers
          /\ DOMAIN assemblers' = DOMAIN assemblers \cup {d.ping}
          /\ assemblers'[d.ping] = WithSection(a, d)
          /\ assemblers'[d.ping].header = a.header
          /\ \A q \in DOMAIN assemblers : q # d.ping => assemblers'[q] = assemblers[q]
    BY <1>0, <1>9, StoreStep
  <2>2. PICK a \in Assemblers :
          /\ assemblers'[d.ping] = WithSection(a, d)
          /\ assemblers'[d.ping].header = a.header
          /\ HeaderReceived(a.header) /\ \A c \in Cells : PixelReceived(Raster(a)[c], c)
    BY <1>6, <2>1
  <2>3. Take(d) /\ d.part > 0 /\ UNCHANGED images
    BY <1>9 DEF StoreSection
  <2>4. \A c \in Cells : PixelReceived(WithSection(a, d).pixels[c], c)'
    BY <1>0, <2>2, <2>3, SectionReceived DEF ShouldPublish
  <2>5. \A c \in Cells : PixelReceived(Raster(assemblers[d.ping])[c], c)'
    <3>1. WithSection(a, d).pixels # NoPixels \/ Cells = {}
      BY <1>0, <2>3, AirTypes, WithSectionType DEF Rasters, NoPixels
    <3>2. \A c \in Cells : Raster(assemblers'[d.ping])[c] = WithSection(a, d).pixels[c]
      BY <2>2, <3>1 DEF Raster
    <3> QED
      BY <2>4, <3>2 DEF PixelReceived, Measured, Sent, Raster
  <2>6. HeaderReceived(assemblers[d.ping].header)'
    BY <1>1, <2>2
  <2> QED
    BY <1>2, <1>3, <2>1, <2>3, <2>5, <2>6
<1>10. ASSUME NEW d \in air, CompleteImage(d) PROVE ShownWasReceived' /\ HeldWasReceived'
  <2>1. PICK garbage \in Garbage, image \in Images :
          LET a == Assembler(d.ping, garbage) IN
          /\ a \in Assemblers
          /\ image.header = a.header
          /\ image.pixels = WithSection(a, d).pixels
          /\ DOMAIN images' = 1..Len(images) + 1
          /\ images'[Len(images) + 1] = image
          /\ \A i \in DOMAIN images : images'[i] = images[i]
          /\ \A q \in DOMAIN assemblers' :
               q \in DOMAIN assemblers /\ q # d.ping /\ assemblers'[q] = assemblers[q]
    BY <1>0, <1>10, CompleteStep
  <2>2. PICK a \in Assemblers :
          /\ image.header = a.header /\ image.pixels = WithSection(a, d).pixels
          /\ HeaderReceived(a.header) /\ \A c \in Cells : PixelReceived(Raster(a)[c], c)
    BY <1>6, <2>1
  <2>3. Take(d) /\ d.part > 0
    BY <1>10 DEF CompleteImage
  <2>4. HeaderReceived(image.header)' /\ \A c \in Cells : PixelReceived(image.pixels[c], c)'
    BY <1>0, <1>1, <2>2, <2>3, SectionReceived DEF ShouldPublish
  <2>5. \A i \in DOMAIN images' : i \in DOMAIN images \/ images'[i] = image
    BY <1>0, <2>1 DEF TypeOK
  <2>6. ShownWasReceived'
    BY <1>0, <1>1, <2>1, <2>4, <2>5 DEF ShownWasReceived
  <2> QED
    BY <1>3, <2>1, <2>6
<1> QED
  BY <1>4, <1>5, <1>7, <1>8, <1>9, <1>10 DEF Next, Receive

(* An image shows nothing that was not received, on every network: the     *)
(* safe half of TopicsTellOneStory, without its hypotheses.                *)
THEOREM NothingInvented ==
  ASSUME "aid0" \in Advertised
  PROVE  Spec => []ShownWasReceived
<1>1. Init => ReceivedInv
  BY TypeInit DEF Init, ReceivedInv, ShownWasReceived, HeldWasReceived
<1>2. ReceivedInv /\ [Next]_vars => ReceivedInv'
  BY ReceivedNext
<1>3. ReceivedInv => ShownWasReceived
  BY DEF ReceivedInv
<1> QED
  BY <1>1, <1>2, <1>3, PTL DEF Spec

-----------------------------------------------------------------------------
(* What the two refuted comments need.  The runs aid_blank_header and      *)
(* aid_clean_wrap show that the code does not do what they say; here is    *)
(* from where on it does.                                                  *)

(* Who has no header compares sections with what was in memory.            *)
BlankUnwritten ==
  \A q \in DOMAIN assemblers :
    assemblers[q].header = None => assemblers[q].h0 \in Garbage

HeaderInv == TypeOK /\ AirEmitted /\ BlankUnwritten /\ ImagesHaveHeader

LEMMA HeaderNext ==
  ASSUME Garbage \cap (0..LastPing) = {}
  PROVE  HeaderInv /\ [Next]_vars => HeaderInv'
<1> SUFFICES ASSUME HeaderInv, [Next]_vars PROVE BlankUnwritten' /\ ImagesHaveHeader'
  BY TypeNext, AirEmittedNext DEF HeaderInv
<1>0. TypeOK /\ AirEmitted /\ BlankUnwritten /\ ImagesHaveHeader
  BY DEF HeaderInv
<1>1. ASSUME UNCHANGED images PROVE ImagesHaveHeader'
  BY <1>0, <1>1 DEF ImagesHaveHeader
<1>2. ASSUME \A q \in DOMAIN assemblers' :
               \/ q \in DOMAIN assemblers /\ assemblers'[q] = assemblers[q]
               \/ assemblers'[q].header # None
               \/ assemblers'[q].h0 \in Garbage
      PROVE  BlankUnwritten'
  BY <1>0, <1>2 DEF BlankUnwritten
<1>3. ASSUME NEW ping, NEW garbage \in Garbage, Assembler(ping, garbage).header = None
      PROVE  Assembler(ping, garbage).h0 \in Garbage
  BY <1>0, <1>3 DEF BlankUnwritten, Assembler, Fresh
<1>4. CASE EmitPing \/ Reboot \/ UNCHANGED vars
  BY <1>1, <1>2, <1>4 DEF EmitPing, Reboot, vars
<1>5. ASSUME NEW d \in air, Lose(d) \/ Duplicate(d) \/ ReceiveRawOnly(d)
      PROVE  BlankUnwritten' /\ ImagesHaveHeader'
  BY <1>1, <1>2, <1>5 DEF Lose, Duplicate, ReceiveRawOnly
<1>6. ASSUME NEW d \in air, ReceiveHeader(d) PROVE BlankUnwritten' /\ ImagesHaveHeader'
  <2>1. PICK ping \in PingNo(d) :
          /\ DOMAIN assemblers' = DOMAIN assemblers \cup {ping}
          /\ assemblers'[ping].header = Tag(d)
          /\ \A q \in DOMAIN assemblers : q # ping => assemblers'[q] = assemblers[q]
    BY <1>0, <1>6, HeaderStep
  <2>2. Tag(d) # None
    BY <1>0, AirTypes DEF None
  <2> QED
    BY <1>1, <1>2, <1>6, <2>1, <2>2 DEF ReceiveHeader
<1>7. ASSUME NEW d \in air, IgnoreSection(d) PROVE BlankUnwritten' /\ ImagesHaveHeader'
  <2>1. PICK garbage \in Garbage :
          /\ DOMAIN assemblers' = DOMAIN assemblers \cup {d.ping}
          /\ assemblers'[d.ping] = Assembler(d.ping, garbage)
          /\ \A q \in DOMAIN assemblers : assemblers'[q] = assemblers[q]
    BY <1>0, <1>7, IgnoreStep
  <2> QED
    BY <1>1, <1>2, <1>3, <1>7, <2>1 DEF IgnoreSection
<1>8. ASSUME NEW d \in air, StoreSection(d) PROVE BlankUnwritten' /\ ImagesHaveHeader'
  <2>1. PICK garbage \in Garbage :
          LET a == Assembler(d.ping, garbage) IN
          /\ DOMAIN assemblers' = DOMAIN assemblers \cup {d.ping}
          /\ assemblers'[d.ping].h0 = a.h0
          /\ assemblers'[d.ping].header = a.header
          /\ \A q \in DOMAIN assemblers : q # d.ping => assemblers'[q] = assemblers[q]
    BY <1>0, <1>8, StoreStep
  <2> QED
    BY <1>1, <1>2, <1>3, <1>8, <2>1 DEF StoreSection
<1>9. ASSUME NEW d \in air, CompleteImage(d) PROVE BlankUnwritten' /\ ImagesHaveHeader'
  <2>1. PICK garbage \in Garbage, image \in Images :
          LET a == Assembler(d.ping, garbage) IN
          /\ Matches(a, d)
          /\ image.header = a.header
          /\ DOMAIN images' = 1..Len(images) + 1
          /\ images'[Len(images) + 1] = image
          /\ \A i \in DOMAIN images : images'[i] = images[i]
          /\ \A q \in DOMAIN assemblers' :
               q \in DOMAIN assemblers /\ q # d.ping /\ assemblers'[q] = assemblers[q]
    BY <1>0, <1>9, CompleteStep
  <2>2. d.ping \in 0..LastPing
    BY <1>0, AirTypes, PingAssumption DEF AirEmitted
  <2>3. image.header # None
    BY <1>3, <2>1, <2>2 DEF Matches
  <2>4. \A i \in DOMAIN images' : i \in DOMAIN images \/ images'[i] = image
    BY <1>0, <2>1 DEF TypeOK
  <2> QED
    BY <1>0, <1>2, <2>1, <2>3, <2>4 DEF ImagesHaveHeader
<1> QED
  BY <1>4, <1>5, <1>6, <1>7, <1>8, <1>9 DEF Next, Receive

(* Every image is published with a header, on every network, as long as    *)
(* what is in the memory of a fresh assembler is no number of a ping that  *)
(* is sent: that is all a missing initialisation of h0_data_ leaves open.  *)
THEOREM ImagesGetHeader ==
  ASSUME Garbage \cap (0..LastPing) = {}
  PROVE  Spec => []ImagesHaveHeader
<1>1. Init => HeaderInv
  BY TypeInit DEF Init, HeaderInv, AirEmitted, BlankUnwritten, ImagesHaveHeader
<1>2. HeaderInv /\ [Next]_vars => HeaderInv'
  BY HeaderNext
<1>3. HeaderInv => ImagesHaveHeader
  BY DEF HeaderInv
<1> QED
  BY <1>1, <1>2, <1>3, PTL DEF Spec

(* Cleaning spares newer pings, from Window on, on every network.          *)
DropsOnlyOlderFromWindow ==
  \A q \in DOMAIN assemblers \ DOMAIN assemblers' :
    LET ping == images'[Len(images')].ping IN ping >= Window => q <= ping

LEMMA StaleIsOlder ==
  ASSUME TypeOK, TypeOK', DropsOnlyStale
  PROVE  DropsOnlyOlderFromWindow
<1> SUFFICES ASSUME NEW q \in DOMAIN assemblers \ DOMAIN assemblers',
                    NEW ping, ping = images'[Len(images')].ping, ping >= Window
             PROVE  q <= ping
  BY DEF DropsOnlyOlderFromWindow
<1>1. images' \in Seq(Images) /\ Len(images') = Len(images) + 1 /\ images \in Seq(Images)
  BY DEF TypeOK, DropsOnlyStale
<1>2. Len(images') \in DOMAIN images'
  BY <1>1
<1>3. images'[Len(images')] \in Images
  BY <1>1, <1>2
<1>4. ping \in Nat /\ q \in Nat /\ Window \in Nat
  BY <1>3, PingAssumption DEF Images, Pings, TypeOK
<1>5. q # ping => q < ping - Window \/ ping < Window
  BY DEF DropsOnlyStale
<1> QED
  BY <1>4, <1>5

(* Completing an image whose ping is numbered Window or higher drops no    *)
(* unfinished image of a newer ping, whatever the network does: what       *)
(* cleanMsgMap gets wrong is confined to the first Window numbers.         *)
THEOREM CleaningSparesNewerFromWindow == Spec => [][DropsOnlyOlderFromWindow]_vars
<1>1. TypeOK /\ TypeOK' /\ [Next]_vars => [DropsOnlyOlderFromWindow]_vars
  BY StepDropsOnlyStale, StaleIsOlder
<1> QED
  BY <1>1, TypeCorrect, PTL DEF Spec

(* In order, what is unfinished when a ping is completed is older.         *)
AssemblersPast == \A q \in DOMAIN assemblers : Past(<<1, q>>, 0)

LEMMA AssemblersPastNext ==
  ASSUME MaxSessions = 1, "reorder" \notin Faults, Residue = {}
  PROVE  TypeOK /\ AirEmitted /\ AssemblersPast /\ [Next]_vars
           => AssemblersPast' /\ [DropsOnlyOlder]_vars
<1> SUFFICES ASSUME TypeOK, AirEmitted, AssemblersPast, [Next]_vars
             PROVE  AssemblersPast' /\ (DropsOnlyOlder \/ UNCHANGED vars)
  OBVIOUS
<1>1. ASSUME \A q \in DOMAIN assemblers' : q \in DOMAIN assemblers \/ Past(<<1, q>>, 0)
      PROVE  AssemblersPast'
  <2>1. DOMAIN assemblers' \subseteq Pings
    BY TypeNext DEF TypeOK
  <2>2. \A q \in Pings : <<1, q>> \in Tags
    BY PingAssumption DEF Tags
  <2>3. \A q \in DOMAIN assemblers' : Past(<<1, q>>, 0) /\ <<1, q>> \in Tags
    BY <1>1, <2>1, <2>2 DEF AssemblersPast
  <2>4. \A t \in Tags : Past(t, 0) => Past(t, 0)'
    BY PastStays
  <2>5. \A q \in DOMAIN assemblers' : Past(<<1, q>>, 0)'
    BY <2>3, <2>4
  <2> QED
    BY <2>5 DEF AssemblersPast, Past, Emitted, SentBefore, Sent
<1>2. ASSUME DOMAIN assemblers \subseteq DOMAIN assemblers' PROVE DropsOnlyOlder
  BY <1>2 DEF DropsOnlyOlder
<1>3. CASE EmitPing \/ Reboot \/ UNCHANGED vars
  BY <1>1, <1>2, <1>3 DEF EmitPing, Reboot, vars
<1>4. ASSUME NEW d \in air, Lose(d) \/ Duplicate(d) \/ ReceiveRawOnly(d)
      PROVE  AssemblersPast' /\ DropsOnlyOlder
  BY <1>1, <1>2, <1>4 DEF Lose, Duplicate, ReceiveRawOnly
<1>5. ASSUME NEW d \in air, Take(d) PROVE Past(<<1, d.ping>>, 0)
  <2>1. \A e \in air : ~SentBefore(e, d)
    BY <1>5 DEF Take, Deliverable
  <2>2. d.session = 1 /\ Emitted(<<1, d.ping>>)
    BY AirTypes DEF AirEmitted
  <2>3. ASSUME NEW e \in air, SentBefore(e, Sent(<<1, d.ping>>, 0)) PROVE FALSE
    <3>1. e.session = 1 /\ e.ping \in Nat /\ e.part \in Nat /\ d.ping \in Nat
      BY AirTypes
    <3>2. e.ping < d.ping
      BY <2>3, <3>1 DEF SentBefore, Sent
    <3> QED
      BY <2>1, <2>2, <3>1, <3>2 DEF SentBefore
  <2> QED
    BY <2>2, <2>3 DEF Past
<1>6. ASSUME NEW d \in air, ReceiveHeader(d) PROVE AssemblersPast' /\ DropsOnlyOlder
  <2>1. PICK ping \in PingNo(d) : DOMAIN assemblers' = DOMAIN assemblers \cup {ping}
    BY <1>6, HeaderStep
  <2>2. ping = d.ping /\ Past(<<1, d.ping>>, 0)
    BY <1>5, <1>6 DEF PingNo, ReceiveHeader
  <2> QED
    BY <1>1, <1>2, <2>1, <2>2
<1>7. ASSUME NEW d \in air, IgnoreSection(d) \/ StoreSection(d)
      PROVE  AssemblersPast' /\ DropsOnlyOlder
  <2>1. DOMAIN assemblers' = DOMAIN assemblers \cup {d.ping}
    BY <1>7, IgnoreStep, StoreStep
  <2>2. Past(<<1, d.ping>>, 0)
    BY <1>5, <1>7 DEF IgnoreSection, StoreSection
  <2> QED
    BY <1>1, <1>2, <2>1, <2>2
<1>8. ASSUME NEW d \in air, CompleteImage(d) PROVE AssemblersPast' /\ DropsOnlyOlder
  <2>1. PICK image \in Images :
          /\ image.ping = d.ping
          /\ images' = Append(images, image)
          /\ \A q \in DOMAIN assemblers' : q \in DOMAIN assemblers
    BY <1>8, CompleteStep
  <2>2. images'[Len(images')] = image
    BY <2>1 DEF TypeOK
  <2>3. ASSUME NEW q \in DOMAIN assemblers PROVE q <= d.ping
    <3>1. <<1, q>> \in Tags /\ q \in Nat /\ Past(<<1, q>>, 0)
      BY PingAssumption DEF TypeOK, Tags, Pings, AssemblersPast
    <3> QED
      BY <3>1, AirTypes, AirNotBefore
  <2> QED
    BY <1>1, <2>1, <2>2, <2>3 DEF DropsOnlyOlder
<1> QED
  BY <1>3, <1>4, <1>6, <1>7, <1>8 DEF Next, Receive

(* Completing an image never drops one of a newer ping while the network   *)
(* keeps the order and the sonar does not reboot: then there is none, and  *)
(* the wrap below Window takes what is older.                              *)
THEOREM CleaningSparesNewerInOrder ==
  ASSUME MaxSessions = 1, "reorder" \notin Faults, Residue = {}
  PROVE  Spec => CleaningSparesNewer
<1>1. Init => TypeOK /\ AirEmitted /\ AssemblersPast
  BY TypeInit DEF Init, AirEmitted, AssemblersPast
<1>2. TypeOK /\ AirEmitted /\ AssemblersPast /\ [Next]_vars
        => TypeOK' /\ AirEmitted' /\ AssemblersPast'
  BY TypeNext, AirEmittedNext, AssemblersPastNext
<1>3. TypeOK /\ AirEmitted /\ AssemblersPast /\ [Next]_vars => [DropsOnlyOlder]_vars
  BY AssemblersPastNext
<1> QED
  BY <1>1, <1>2, <1>3, PTL DEF Spec, CleaningSparesNewer

-----------------------------------------------------------------------------
(* What the theorems above come to when they are put together.             *)

(* No two images are of the same ping, with or without a header.           *)
NoPingTwice ==
  \A i, j \in DOMAIN images : images[i].ping = images[j].ping => i = j

(* In one session, on a network that keeps the order, and with no ping     *)
(* number in the memory of fresh assemblers, no ping is published twice:   *)
(* a late or repeated final section finds a fresh assembler, which refuses *)
(* it (publish(AID0&) erases, addPacket compares).                         *)
THEOREM PublishedOnceForGood ==
  ASSUME MaxSessions = 1, "reorder" \notin Faults, Residue = {},
         Garbage \cap (0..LastPing) = {}
  PROVE  Spec => []NoPingTwice
<1>1. TypeOK /\ PublishedOnce /\ ImagesHaveHeader /\ ImagesIsolated => NoPingTwice
  <2> SUFFICES ASSUME TypeOK, PublishedOnce, ImagesHaveHeader, ImagesIsolated,
                      NEW i \in DOMAIN images, NEW j \in DOMAIN images,
                      images[i].ping = images[j].ping
               PROVE  i = j
    BY DEF NoPingTwice
  <2>1. images[i].header # None /\ images[j].header # None
    BY DEF ImagesHaveHeader
  <2>2. images[i].header \in Tags /\ images[j].header \in Tags
    BY <2>1, HeaderTypes
  <2>3. images[i].header[2] = images[j].header[2]
    BY <2>1 DEF ImagesIsolated
  <2>4. images[i].header[1] = images[j].header[1]
    BY <2>2 DEF Tags
  <2>5. images[i].header = images[j].header
    BY <2>2, <2>3, <2>4 DEF Tags
  <2> QED
    BY <2>1, <2>5 DEF PublishedOnce
<1> QED
  BY <1>1, TypeCorrect, PublishedOnceInOrder, ImagesGetHeader, ImagesStayIsolated, PTL

(* How many numbers there are from w below p up to n, without n.           *)
LEMMA NumbersBetween ==
  ASSUME NEW p \in Nat, NEW n \in Nat, NEW w \in Nat, p < n
  PROVE  /\ IsFiniteSet(p - w .. n - 1)
         /\ Cardinality(p - w .. n - 1) = w + (n - p)
<1>1. p - w \in Int /\ n - 1 \in Int /\ ~(p - w > n - 1)
  BY SMT
<1>2. (n - 1) - (p - w) + 1 = w + (n - p)
  BY SMT
<1> QED
  BY <1>1, <1>2, FS_Interval

(* Once an image is published, the map holds at most Window images and one *)
(* more for each ping that was begun since.                                *)
MapHoldsFew ==
  images # <<>> =>
    LET last == images[Len(images)] IN
      last.header # None =>
        /\ DOMAIN assemblers \subseteq last.ping - Window .. nextPing - 1
        /\ Cardinality(DOMAIN assemblers) <= Window + (nextPing - last.ping)

(* In one session and in order, the map of unfinished images is bounded by *)
(* the window and the pings since the last published image, whatever is    *)
(* lost of them.  Before the first image, or when no final section comes   *)
(* any more, that is no bound: cleanMsgMap runs only when an image         *)
(* completes.                                                              *)
THEOREM MapHoldsRecent ==
  ASSUME MaxSessions = 1, "reorder" \notin Faults, Residue = {}
  PROVE  Spec => []MapHoldsFew
<1>1. TypeOK /\ ImagesIsolated /\ ImagesPast /\ AssemblersPast /\ NoStaleAssembler
        => MapHoldsFew
  <2> SUFFICES ASSUME TypeOK, ImagesIsolated, ImagesPast, AssemblersPast,
                      NoStaleAssembler, images # <<>>,
                      images[Len(images)].header # None
               PROVE  LET last == images[Len(images)] IN
                      /\ DOMAIN assemblers \subseteq last.ping - Window .. nextPing - 1
                      /\ Cardinality(DOMAIN assemblers) <= Window + (nextPing - last.ping)
    BY DEF MapHoldsFew
  <2> DEFINE last == images[Len(images)]
  <2>1. Len(images) \in DOMAIN images /\ last \in Images
    BY DEF TypeOK
  <2>2. last.header \in Tags /\ Past(last.header, 1) /\ last.header[2] = last.ping
    BY <2>1, HeaderTypes DEF ImagesPast, ImagesIsolated
  <2>3. last.header[1] = session /\ session = 1
    BY <2>2 DEF Tags, TypeOK
  <2>4. last.ping \in Nat /\ nextPing \in Nat /\ Window \in Nat
    BY <2>1, PingAssumption DEF Images, Pings, TypeOK
  <2>5. last.ping < nextPing
    BY <2>2, <2>3, <2>4 DEF Past, Emitted
  <2>6. ASSUME NEW q \in DOMAIN assemblers
        PROVE  q \in Nat /\ q < nextPing /\ q >= last.ping - Window
    <3>1. q \in Nat
      BY PingAssumption DEF TypeOK, Pings
    <3>2. Emitted(<<1, q>>)
      BY DEF AssemblersPast, Past
    <3>3. last.ping >= Window => q >= last.ping - Window
      BY <2>3 DEF NoStaleAssembler
    <3> QED
      BY <2>3, <2>4, <3>1, <3>2, <3>3 DEF Emitted
  <2> HIDE DEF last
  <2>7. DOMAIN assemblers \subseteq last.ping - Window .. nextPing - 1
    BY <2>4, <2>6
  <2>8. /\ IsFiniteSet(last.ping - Window .. nextPing - 1)
        /\ Cardinality(last.ping - Window .. nextPing - 1) = Window + (nextPing - last.ping)
    BY <2>4, <2>5, NumbersBetween
  <2>9. Cardinality(DOMAIN assemblers) <= Window + (nextPing - last.ping)
    BY <2>7, <2>8, FS_Subset
  <2> QED
    BY <2>7, <2>9 DEF last
<1>2. Init => KeepInv /\ AssemblersPast
  BY InOrderInit DEF Init, KeepInv, NoStaleAssembler, AssemblersPast
<1>3. KeepInv => /\ TypeOK /\ AirEmitted /\ ImagesPast
                 /\ ImagesIsolated /\ NoStaleAssembler
  BY DEF KeepInv, InOrderInv, IsolationInv
<1>4. KeepInv /\ AssemblersPast /\ [Next]_vars => KeepInv' /\ AssemblersPast'
  BY <1>3, KeepNext, AssemblersPastNext
<1> QED
  BY <1>1, <1>2, <1>3, <1>4, PTL DEF Spec
=============================================================================
