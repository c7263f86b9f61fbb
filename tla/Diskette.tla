-------------------------------- MODULE Diskette --------------------------------
(***************************************************************************)
(* What the floppy drive promises the software above its driver: one       *)
(* request at a time on the sectors of the diskette in the drive. Each     *)
(* request takes effect once, on the diskette that is in the drive then,   *)
(* and is answered with what it did. Diskettes are swapped at any time; a  *)
(* restart forgets the request, and what was written stays written.        *)
(***************************************************************************)
EXTENDS Naturals

CONSTANTS
    Jobs,     \* requests: [op, address, word], where op is "read", "write",
              \*   "eject" or "format"
    NoJob,    \* the value of job between requests
    NoWord,   \* the word of an answer without one
    Media     \* the contents of the diskettes that may be inserted

VARIABLES
    medium,   \* medium[a]: what sector a of the diskette holds
    hands,    \* how often a diskette was put in or taken out by hand
    job,      \* the request under way, or NoJob
    effect,   \* what it did: <<>>, or <<[ok, word]>>
    answer    \* the last answer

vars == <<medium, hands, job, effect, answer>>

Empty    == [a \in {} |-> NoWord]
Failure  == [ok |-> FALSE, word |-> NoWord]
Done(w)  == [ok |-> TRUE, word |-> w]

Init ==
    /\ medium \in Media \cup {Empty}
    /\ hands = 0
    /\ job = NoJob
    /\ effect = <<>>
    /\ answer = Failure

Submit ==
    /\ job = NoJob
    /\ job' \in Jobs
    /\ effect' = <<>>
    /\ UNCHANGED <<medium, hands, answer>>

Perform ==
    /\ job # NoJob
    /\ effect = <<>>
    /\ \/ /\ job.op = "read" /\ job.address \in DOMAIN medium
          /\ effect' = <<Done(medium[job.address])>>
          /\ UNCHANGED medium
       \/ /\ job.op = "write" /\ job.address \in DOMAIN medium
          /\ effect' = <<Done(NoWord)>>
          /\ medium' = [medium EXCEPT ![job.address] = job.word]
       \/ /\ \/ job.op \in {"read", "write"} /\ job.address \notin DOMAIN medium
             \/ job.op = "format"    \* not supported
          /\ effect' = <<Failure>>
          /\ UNCHANGED medium
       \/ /\ job.op = "eject"
          /\ effect' = <<Done(NoWord)>>
          /\ medium' = Empty
    /\ UNCHANGED <<hands, job, answer>>

Answer ==
    /\ job # NoJob
    /\ effect # <<>>
    /\ answer' = effect[1]
    /\ job' = NoJob
    /\ effect' = <<>>
    /\ UNCHANGED <<medium, hands>>

Swap ==
    /\ medium' \in Media \cup {Empty}
    /\ hands' = hands + 1
    /\ UNCHANGED <<job, effect, answer>>

Restart ==
    /\ job' = NoJob
    /\ effect' = <<>>
    /\ UNCHANGED <<medium, hands, answer>>

Next == Submit \/ Perform \/ Answer \/ Swap \/ Restart

Spec == Init /\ [][Next]_vars
=============================================================================
