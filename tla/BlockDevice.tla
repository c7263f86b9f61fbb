------------------------------ MODULE BlockDevice ------------------------------
(***************************************************************************)
(* What the parallel hard disk promises the software above its driver: a   *)
(* disk of blocks, one request at a time. A write changes its own block    *)
(* only, before its answer; an OK answer to a write means the block holds  *)
(* what was sent, and a data answer to a read is the block. A request may  *)
(* fail, then its block is old, half written or written. A restart of the  *)
(* machine forgets the request, not the disk; a disk may be pulled.        *)
(***************************************************************************)
EXTENDS Naturals, Sequences

CONSTANTS
    Units,         \* the disks that can be plugged in
    NoUnit,        \* the value of unit while none is
    Size,          \* Size[u]: the number of blocks of disk u
    Geometry,      \* the block number that reads the disk's geometry
    Jobs,          \* requests: [op, block, tag, data]
    NoJob          \* the value of job between requests

VARIABLES
    disk,     \* disk[u][b]: the contents of a block
    unit,     \* the disk plugged in, or NoUnit
    job,      \* the request under way, or NoJob
    pulled,   \* the disk was plugged or pulled during this request
    answer    \* the last answer: [ok, words]

vars == <<disk, unit, job, pulled, answer>>

Contents(j) == [tag |-> j.tag, data |-> j.data]
Blocks(u)   == {b \in 0 .. Size[u] : b < Size[u]}
Failure     == [ok |-> FALSE, words |-> <<>>]

Init ==
    /\ unit = NoUnit
    /\ disk = [u \in Units |-> [b \in Blocks(u) |-> [tag |-> 0, data |-> 0]]]
    /\ job = NoJob
    /\ pulled = FALSE
    /\ answer = Failure

Submit(j) ==
    /\ job = NoJob
    /\ job' = j
    /\ pulled' = FALSE
    /\ UNCHANGED <<disk, unit, answer>>

(* The write reaches the medium, perhaps half, while it is under way.      *)
Write ==
    /\ job # NoJob /\ job.op = "write"
    /\ unit # NoUnit /\ job.block \in Blocks(unit)
    /\ \E c \in {Contents(job),
                 [disk[unit][job.block] EXCEPT !.data = job.data]} :
          disk' = [disk EXCEPT ![unit][job.block] = c]
    /\ UNCHANGED <<unit, job, pulled, answer>>

Answer(a) ==
    /\ job # NoJob
    /\ answer' = a
    /\ job' = NoJob
    /\ UNCHANGED <<disk, unit, pulled>>

Fail == Answer(Failure)

Written ==
    /\ job # NoJob /\ job.op = "write"
    /\ unit # NoUnit /\ job.block \in Blocks(unit)
    /\ disk[unit][job.block] = Contents(job)
    /\ Answer([ok |-> TRUE, words |-> <<>>])

Read ==
    /\ job # NoJob /\ job.op = "read"
    /\ unit # NoUnit
    /\ \/ /\ job.block = Geometry
          /\ Answer([ok |-> TRUE, words |-> <<0, Size[unit]>>])
       \/ /\ job.block \in Blocks(unit)
          /\ Answer([ok |-> TRUE, words |-> <<disk[unit][job.block].tag,
                                              disk[unit][job.block].data>>])

(* A disk pulled in mid-read leaves the reader with what the idle bus gave.*)
ReadPulled ==
    /\ job # NoJob /\ job.op = "read"
    /\ pulled
    /\ answer' \in [ok : {TRUE}, words : Seq(Nat)]
    /\ job' = NoJob
    /\ UNCHANGED <<disk, unit, pulled>>

Plug ==
    /\ unit' \in Units \cup {NoUnit}
    /\ pulled' = TRUE
    /\ UNCHANGED <<disk, job, answer>>

Restart ==
    /\ job' = NoJob
    /\ UNCHANGED <<disk, unit, pulled, answer>>

Next ==
    \/ \E j \in Jobs : Submit(j)
    \/ Write
    \/ Fail \/ Written \/ Read \/ ReadPulled
    \/ Plug
    \/ Restart

Spec == Init /\ [][Next]_vars
=============================================================================
