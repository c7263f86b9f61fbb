------------------------------ MODULE SonyGeometry ------------------------------
(***************************************************************************)
(* The sectors of a Sony diskette and their numbers in its image: blocks   *)
(* are numbered track by track, and a track has fewer sectors the nearer   *)
(* it is to the hub (FloppyController.blockNumber, zoneInfo). On a double- *)
(* sided disk the two sides of a track follow each other.                  *)
(***************************************************************************)
EXTENDS Integers

TracksPerZone == 16
Tracks        == 80
BlocksPerSide == 800
NoBlock       == -1    \* nil: no such sector

(* The zones of a side: sectors per track, and the block of its first.     *)
Zone(track)        == track \div TracksPerZone
SecPerTrack(track) == CASE Zone(track) = 0 -> 12 [] Zone(track) = 1 -> 11
                        [] Zone(track) = 2 -> 10 [] Zone(track) = 3 -> 9
                        [] OTHER -> 8
Base(track)        == CASE Zone(track) = 0 -> 0 [] Zone(track) = 1 -> 192
                        [] Zone(track) = 2 -> 368 [] Zone(track) = 3 -> 528
                        [] OTHER -> 672

(* Sectors of one side that precede the track.                             *)
Cumulative(track) == Base(track) + (track % TracksPerZone) * SecPerTrack(track)

(* What DISKTRAK, DISKSEC and DISKHEAD can hold.                           *)
Address == [track : 0 .. 255, sector : 0 .. 255, side : 0 .. 255]

IsSector(a) ==
    /\ a.side \in {0, 1}
    /\ a.track < Tracks
    /\ a.sector < SecPerTrack(a.track)

(* A mutated form: the second side follows the whole of the first.         *)
blockNumberBySides(a, doubleSided) ==
    IF ~IsSector(a) THEN NoBlock
    ELSE Cumulative(a.track) + a.sector + a.side * BlocksPerSide

(* A mutated form: the sector is not compared with the zone's.             *)
blockNumberUnchecked(a, doubleSided) ==
    IF ~(a.side \in {0, 1} /\ a.track < Tracks) THEN NoBlock
    ELSE IF doubleSided
      THEN 2 * Cumulative(a.track) + a.side * SecPerTrack(a.track) + a.sector
      ELSE Cumulative(a.track) + a.sector + a.side * BlocksPerSide

blockNumber(a, doubleSided) ==
    IF ~IsSector(a) THEN NoBlock
    ELSE IF doubleSided
      THEN 2 * Cumulative(a.track) + a.side * SecPerTrack(a.track) + a.sector
      ELSE Cumulative(a.track) + a.sector + a.side * BlocksPerSide

-----------------------------------------------------------------------------
(* The sector that follows a in an image: the next of its track, or the    *)
(* first of the next track (of the other side, if the disk has two).       *)
FirstSector == [track |-> 0, sector |-> 0, side |-> 0]

NextSector(a, doubleSided) ==
    IF a.sector + 1 < SecPerTrack(a.track)
      THEN [a EXCEPT !.sector = @ + 1]
    ELSE IF doubleSided /\ a.side = 0
      THEN [a EXCEPT !.sector = 0, !.side = 1]
      ELSE [a EXCEPT !.sector = 0, !.side = 0, !.track = @ + 1]

LastSector(doubleSided) ==
    [track |-> Tracks - 1, sector |-> 7, side |-> IF doubleSided THEN 1 ELSE 0]

OnSides(a, doubleSided) == IsSector(a) /\ (doubleSided \/ a.side = 0)

(* Sector a is numbered one before the sector that follows it, the first   *)
(* sector 0 and the last as the last block.                                *)
NumberedInOrder(a, doubleSided) ==
    /\ a = FirstSector => blockNumber(a, doubleSided) = 0
    /\ IF a = LastSector(doubleSided)
         THEN blockNumber(a, doubleSided) =
                (IF doubleSided THEN 2 ELSE 1) * BlocksPerSide - 1
         ELSE blockNumber(NextSector(a, doubleSided), doubleSided) =
                blockNumber(a, doubleSided) + 1
=============================================================================
