----------------------------- MODULE MCWidgetSystem -----------------------------
(* An instance of WidgetSystem for TLC: one image of one block. Requests   *)
(* read, write or format block 0, the out-of-range block 1 and the         *)
(* geometry block 2; contents are the response codes 1 and 2.              *)
EXTENDS WidgetSystem

CONSTANT i1

MCImages     == {i1}
MCBlockCount == [i \in MCImages |-> 1]
MCReplies    == {ReplyProceed, Zeros}
MCWords      == 0 .. 2
MCRequests   ==
    [op : {"read"}, block : 0 .. 2, tag : {0}, data : {0}]
      \cup [op : {"write"}, block : 0 .. 1, tag : {1}, data : {1, 2}]
      \cup [op : {"format"}, block : {0}, tag : {0}, data : {0}]
=============================================================================
