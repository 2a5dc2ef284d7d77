---------------------------- MODULE AcousticImages ----------------------------
(***************************************************************************)
(* What the acoustic_image topic promises to its subscribers between two   *)
(* power-ups of the sonar, on a network that may lose datagrams but keeps  *)
(* their order: images come out in the order the sonar pinged, at most one *)
(* per ping, each under the header of its own ping, each pixel measured by *)
(* that ping or left zero, and the last bins always measured.  Nothing is  *)
(* said of how the datagrams of a ping are put together.                   *)
(***************************************************************************)
EXTENDS Integers, Sequences

CONSTANTS
  Pings,      \* ping numbers, "pings since power-up or reboot"
  Cells,      \* cells of an image: <<bin, beam>>
  LastCells,  \* those of the last bins
  Zero        \* a pixel that was not measured, not a ping number

VARIABLE
  images      \* the images published so far, oldest first

Init == images = <<>>

Publish(ping, pixels) ==
  /\ \A i \in DOMAIN images : images[i].header < ping
  /\ \A c \in LastCells : pixels[c] = ping
  /\ images' = Append(images, [header |-> ping, pixels |-> pixels])

Next == \E ping \in Pings : \E pixels \in [Cells -> {ping, Zero}] :
          Publish(ping, pixels)

Spec == Init /\ [][Next]_images
=============================================================================
