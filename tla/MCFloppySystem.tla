----------------------------- MODULE MCFloppySystem -----------------------------
(* An instance of FloppySystem for TLC: a single-sided image of zeros and  *)
(* a double-sided one of ones; twos are written. The addresses are the     *)
(* last sector of the first track, one that its zone does not have, and    *)
(* the first of the second side.                                           *)
EXTENDS FloppySystem

CONSTANTS d1, d2

MCDisks      == {d1, d2}
MCBlockCount == [d \in MCDisks |-> IF d = d1 THEN 800 ELSE 1600]
MCOriginal   == [d \in MCDisks |-> [b \in 0 .. MCBlockCount[d] - 1 |->
                                      IF d = d1 THEN 0 ELSE 1]]
MCGoBytes    == {ExCmd, ClrIStat, EnabStat}
MCWords      == 0 .. 2
Sector(t, s, h) == [track |-> t, sector |-> s, side |-> h]
MCRequests   == [op : {"read"}, address : {Sector(0, 11, 0), Sector(0, 0, 1)},
                 word : {0}]
                  \cup [op : {"write"}, address : {Sector(0, 11, 0), Sector(0, 12, 0)},
                        word : {2}]
                  \cup [op : {"eject", "format"}, address : {Sector(0, 0, 1)}, word : {0}]
=============================================================================
