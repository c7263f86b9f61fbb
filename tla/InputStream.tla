------------------------------ MODULE InputStream ------------------------------
(***************************************************************************)
(* What COPS promises the Lisa about its input: one stream of bytes, to    *)
(* which whole packets are appended and from which the Lisa takes the      *)
(* oldest byte. A reset empties it and announces itself.                   *)
(***************************************************************************)
EXTENDS Naturals, Sequences

CONSTANTS
    IsPacket(_),  \* what may be appended: key, mouse, button, clock replies
    Announcement  \* the packet a reset leaves

VARIABLES
    queue,  \* the bytes posted and not yet taken, oldest first
    taken   \* the last byte the Lisa took: <<>> or <<byte>>

vars == <<queue, taken>>

Init == queue = <<>> /\ taken = <<>>

Post ==
    /\ Len(queue') > Len(queue)
    /\ SubSeq(queue', 1, Len(queue)) = queue
    /\ IsPacket(SubSeq(queue', Len(queue) + 1, Len(queue')))
    /\ UNCHANGED taken

Take ==
    /\ queue # <<>>
    /\ taken' = <<Head(queue)>>
    /\ queue' = Tail(queue)

Reset == queue' = Announcement /\ taken' = <<>>

Next == Post \/ Take \/ Reset

Spec == Init /\ [][Next]_vars
=============================================================================
