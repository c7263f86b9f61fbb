----------------------------- MODULE MCWidgetDrive -----------------------------
(* An instance of WidgetDrive for TLC: an image of one block and an image  *)
(* too small to have any; block 1 is always out of range and block 2 is    *)
(* the geometry block. The words 0, 1, 2 are at once commands (read,       *)
(* write, unsupported), block numbers and contents. The replies are        *)
(* proceed, the ignored $01 and a refusal.                                 *)
EXTENDS WidgetDrive

CONSTANTS i1, i2

MCImages     == {i1, i2}
MCBlockCount == [i \in MCImages |-> IF i = i1 THEN 1 ELSE 0]
MCReplies    == {ReplyProceed, RespIdleReady, Zeros}
MCWords      == 0 .. 2
=============================================================================
