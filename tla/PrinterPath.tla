------------------------------ MODULE PrinterPath ------------------------------
(***************************************************************************)
(* The printer on Serial B, from the byte the SCC transmits to the closed  *)
(* print job: the interpreter of the ImageWriter's wire format             *)
(* (LisaShell/ImageWriterInterpreter.swift), the pages it ejects, and the  *)
(* pipeline that closes a job when the wire has been silent for some time  *)
(* (PrinterPipeline.swift, PrintJobSpooler.swift). No byte of the stream   *)
(* says that a job is over.                                                *)
(*                                                                         *)
(* A page is the set of the marks it holds; marks are numbered as they are *)
(* inked. Where on the page they are, the density and the styles are left  *)
(* out, and so is ink that falls off the page.                             *)
(***************************************************************************)
EXTENDS Integers, Sequences

CONSTANTS
    PageLength144,  \* the page in 144ths of an inch (Config.pageLength144)
    IdleWindow,     \* the silence that closes a job
    Wire            \* the bytes the guest may send

ASSUME PrinterAssumption ==
    /\ PageLength144 \in Nat \ {0}
    /\ IdleWindow \in Nat \ {0}
    /\ Wire \subseteq 0 .. 255

LF  == 10
FF  == 12
ESC == 27
LineHeightCmd  == 84     \* T
TabCmd         == 70     \* F
GraphicsCmd    == 71     \* G
FastGraphicsCmd == 103   \* g
ForwardCmd     == 102    \* f
ReverseCmd     == 114    \* r
ResetCmd       == 99     \* c
DipCmds        == {90, 68}

DefaultLineHeight == 16

VARIABLES
    state,                 \* the parser: [kind, cmd, remaining, accum]
    lineHeight144, lfForward, y144,
    canvas,                \* the marks on the page in the printer
    pending,               \* the pages of the open job
    jobs,                  \* the jobs closed and not yet taken by the sink
    sawByte,               \* a byte was transmitted since the last tick
    hasOutstandingOutput,  \* bytes were transmitted and no job closed since
    quiet,                 \* the clock less lastActivity, at most IdleWindow
    inked,                 \* history: the number of marks made
    handled,               \* history: the marks on the jobs taken by the sink
    silence                \* history: the time since the last byte, likewise

head        == <<state, lineHeight144, lfForward, y144>>
paper       == <<canvas, pending, inked>>
idleClock   == <<sawByte, hasOutstandingOutput, quiet, silence>>
sink        == <<jobs, handled>>
printerVars == <<head, paper, idleClock, sink>>

Ground == [kind |-> "ground", cmd |-> 0, remaining |-> 0, accum |-> 0]
Parsing(kind, cmd, remaining, accum) ==
    [kind |-> kind, cmd |-> cmd, remaining |-> remaining, accum |-> accum]

Least(a, b) == IF a < b THEN a ELSE b

-----------------------------------------------------------------------------
(* Ink and pages.                                                          *)
Ink ==
    /\ inked' = inked + 1
    /\ canvas' = canvas \cup {inked + 1}
    /\ UNCHANGED pending

NoInk == UNCHANGED <<canvas, pending, inked>>

(* An explicit eject, also of a blank page; spooler.feed opens a job.      *)
emitPage ==
    /\ pending' = Append(pending, canvas)
    /\ canvas' = {}
    /\ UNCHANGED inked

emitPageIfDirty == IF canvas # {} THEN emitPage ELSE NoInk

Printable(b) == b \in 32 .. 126 \cup 160 .. 255
Space == 32

drawGlyph(b) ==
    /\ IF b = Space THEN NoInk ELSE Ink
    /\ UNCHANGED head

(* Crossing the page length is the form feed of this printer.              *)
lineFeed ==
    LET newY == IF lfForward THEN y144 + lineHeight144 ELSE y144 - lineHeight144
    IN  /\ IF lfForward /\ newY >= PageLength144
             THEN emitPage /\ y144' = newY % PageLength144
             ELSE NoInk /\ y144' = IF newY < 0 THEN 0 ELSE newY
        /\ UNCHANGED <<state, lineHeight144, lfForward>>

formFeed ==
    /\ emitPage
    /\ y144' = 0
    /\ UNCHANGED <<state, lineHeight144, lfForward>>

(* A mutated form: the page in the printer is dropped.                     *)
resetPrinterDropping ==
    /\ canvas' = {}
    /\ UNCHANGED <<pending, inked>>
    /\ state' = Ground
    /\ y144' = 0 /\ lineHeight144' = DefaultLineHeight /\ lfForward' = TRUE

resetPrinter ==
    /\ emitPageIfDirty
    /\ state' = Ground
    /\ y144' = 0 /\ lineHeight144' = DefaultLineHeight /\ lfForward' = TRUE

-----------------------------------------------------------------------------
(* The parser.                                                             *)
Becomes(s) ==
    /\ state' = s
    /\ NoInk
    /\ UNCHANGED <<lineHeight144, lfForward, y144>>

feedGround(b) ==
    \/ b = ESC /\ Becomes(Parsing("escape", 0, 0, 0))
    \/ b = LF /\ lineFeed
    \/ b = FF /\ formFeed
    \/ Printable(b) /\ drawGlyph(b)
    \/ b \notin {ESC, LF, FF} /\ ~Printable(b) /\ Becomes(Ground)

Digits(cmd) == CASE cmd = LineHeightCmd -> 2
                 [] cmd \in {GraphicsCmd, TabCmd} -> 4
                 [] cmd = FastGraphicsCmd -> 3

OperandCmds == {LineHeightCmd, GraphicsCmd, TabCmd, FastGraphicsCmd}

SetDirection(forward) ==
    /\ lfForward' = forward
    /\ state' = Ground
    /\ NoInk
    /\ UNCHANGED <<lineHeight144, y144>>

feedEscape(b) ==
    \/ b \in OperandCmds /\ Becomes(Parsing("digits", b, Digits(b), 0))
    \/ b \in DipCmds /\ Becomes(Parsing("raw", 0, 2, 0))
    \/ b = ForwardCmd /\ SetDirection(TRUE)
    \/ b = ReverseCmd /\ SetDirection(FALSE)
    \/ b = ResetCmd /\ resetPrinter
    \/ /\ b \notin OperandCmds \cup DipCmds \cup {ForwardCmd, ReverseCmd, ResetCmd}
       /\ Becomes(Ground)    \* styles, densities, and what it does not know

beginGraphics(columns) ==
    Becomes(IF columns = 0 THEN Ground ELSE Parsing("graphics", 0, columns, 0))

applyOperand(cmd, value) ==
    \/ /\ cmd = LineHeightCmd
       /\ lineHeight144' = Least(value, 99)
       /\ state' = Ground
       /\ NoInk
       /\ UNCHANGED <<lfForward, y144>>
    \/ cmd = TabCmd /\ Becomes(Ground)
    \/ cmd = GraphicsCmd /\ beginGraphics(value)
    \/ cmd = FastGraphicsCmd /\ beginGraphics(value * 8)

feedDigits(b) ==
    LET value == state.accum * 10 + (b - 48)
    IN  \/ b \notin 48 .. 57 /\ Becomes(Ground)    \* malformed: dropped
        \/ /\ b \in 48 .. 57
           /\ IF state.remaining > 1
                THEN Becomes(Parsing("digits", state.cmd, state.remaining - 1, value))
                ELSE applyOperand(state.cmd, value)

CountDown ==
    state' = IF state.remaining <= 1 THEN Ground
             ELSE [state EXCEPT !.remaining = @ - 1]

feedGraphics(b) ==
    /\ IF b = 0 THEN NoInk ELSE Ink
    /\ CountDown
    /\ UNCHANGED <<lineHeight144, lfForward, y144>>

feedRaw ==
    /\ CountDown
    /\ NoInk
    /\ UNCHANGED <<lineHeight144, lfForward, y144>>

feed(b) ==
    \/ state.kind = "ground" /\ feedGround(b)
    \/ state.kind = "escape" /\ feedEscape(b)
    \/ state.kind = "digits" /\ feedDigits(b)
    \/ state.kind = "graphics" /\ feedGraphics(b)
    \/ state.kind = "raw" /\ feedRaw

(* The write to the SCC's data register is all of the transmission.        *)
transmit(b) ==
    /\ feed(b)
    /\ sawByte' = TRUE
    /\ silence' = 0
    /\ UNCHANGED <<hasOutstandingOutput, quiet, sink>>

-----------------------------------------------------------------------------
(* The pipeline.                                                           *)

(* A mutated form: the job is closed before the partial page is ejected.   *)
flushSwapped ==
    /\ pending' = IF canvas # {} THEN <<canvas>> ELSE <<>>
    /\ jobs' = IF pending # <<>> THEN Append(jobs, pending) ELSE jobs
    /\ state' = Ground /\ y144' = 0 /\ canvas' = {}
    /\ hasOutstandingOutput' = FALSE /\ sawByte' = FALSE
    /\ UNCHANGED <<lineHeight144, lfForward, inked, quiet, silence, handled>>

(* The partial page is ejected, then the job is closed: the sink is called *)
(* if there is one.                                                        *)
flush ==
    LET pages == IF canvas # {} THEN Append(pending, canvas) ELSE pending
    IN  /\ jobs' = IF pages # <<>> THEN Append(jobs, pages) ELSE jobs
        /\ pending' = <<>>
        /\ state' = Ground /\ y144' = 0 /\ canvas' = {}
        /\ hasOutstandingOutput' = FALSE /\ sawByte' = FALSE
        /\ UNCHANGED <<lineHeight144, lfForward, inked, quiet, silence, handled>>

(* A mutated form: the silence is counted from the first bytes of a job.   *)
observeBytesOnce ==
    /\ sawByte' = FALSE
    /\ hasOutstandingOutput' = TRUE
    /\ quiet' = IF hasOutstandingOutput THEN quiet ELSE 0
    /\ UNCHANGED <<head, paper, sink, silence>>

observeBytes ==
    /\ sawByte' = FALSE
    /\ hasOutstandingOutput' = TRUE
    /\ quiet' = 0
    /\ UNCHANGED <<head, paper, sink, silence>>

tick ==
    \/ sawByte /\ observeBytes
    \/ ~sawByte /\ hasOutstandingOutput /\ quiet >= IdleWindow /\ flush
    \/ /\ ~sawByte
       /\ ~(hasOutstandingOutput /\ quiet >= IdleWindow)
       /\ UNCHANGED printerVars

(* The host's clock.                                                       *)
PrinterElapse ==
    /\ quiet' = Least(quiet + 1, IdleWindow)
    /\ silence' = Least(silence + 1, IdleWindow)
    /\ UNCHANGED <<head, paper, sink, sawByte, hasOutstandingOutput>>

MarksOf(pages) == UNION {pages[i] : i \in DOMAIN pages}

(* The sink takes the oldest job.                                          *)
TakeJob ==
    /\ jobs # <<>>
    /\ jobs' = Tail(jobs)
    /\ handled' = handled \cup MarksOf(Head(jobs))
    /\ UNCHANGED <<head, paper, idleClock>>

PrinterInit ==
    /\ state = Ground
    /\ lineHeight144 = DefaultLineHeight /\ lfForward = TRUE /\ y144 = 0
    /\ canvas = {} /\ pending = <<>> /\ jobs = <<>>
    /\ sawByte = FALSE /\ hasOutstandingOutput = FALSE
    /\ quiet = IdleWindow /\ silence = IdleWindow
    /\ inked = 0 /\ handled = {}

(* Any stream, any ticks.                                                  *)
PrinterNext ==
    \/ \E b \in Wire : transmit(b)
    \/ tick
    \/ flush
    \/ PrinterElapse
    \/ TakeJob

PrinterSpec == PrinterInit /\ [][PrinterNext]_printerVars

-----------------------------------------------------------------------------
(* The type invariant: a parser state is one of the interpreter's, the     *)
(* paper is never above the top of the page or below its end.              *)
ParserOK ==
    \/ state = Ground
    \/ state = Parsing("escape", 0, 0, 0)
    \/ /\ state.kind = "digits"
       /\ state \in [kind : {"digits"}, cmd : OperandCmds, remaining : 1 .. 4, accum : Nat]
    \/ /\ state.kind \in {"graphics", "raw"}
       /\ state \in [kind : {"graphics", "raw"}, cmd : {0}, remaining : Nat \ {0}, accum : {0}]

Page == SUBSET (1 .. inked)

PrinterTypeOK ==
    /\ ParserOK
    /\ lineHeight144 \in 0 .. 99 /\ lfForward \in BOOLEAN
    /\ y144 \in 0 .. PageLength144 - 1
    /\ inked \in Nat
    /\ canvas \in Page /\ pending \in Seq(Page) /\ jobs \in Seq(Seq(Page))
    /\ handled \in Page
    /\ sawByte \in BOOLEAN /\ hasOutstandingOutput \in BOOLEAN
    /\ quiet \in 0 .. IdleWindow /\ silence \in 0 .. IdleWindow

(* Whatever the printer holds, a partial page or pages of an open job, the *)
(* idle clock knows of: it is armed, or will be at the next tick, so that  *)
(* silence closes the job (tick, flush, Adapter.consumeSawByte). A page    *)
(* the clock does not know of would stay in the printer until another      *)
(* print, and become part of it.                                           *)
OutputIsArmed ==
    canvas # {} \/ pending # <<>> => sawByte \/ hasOutstandingOutput

(* Every mark is on the job, the page or the paper it was made on, or was  *)
(* handed over, and the order of marks is the order of jobs and pages:     *)
(* nothing is lost, printed twice or moved to another job by line feeds,   *)
(* resets, idle and forced flushes, however they fall into the stream.     *)
Before(A, B) == \A a \in A, b \in B : a < b
Sorted(pages) == \A i, j \in DOMAIN pages : i < j => Before(pages[i], pages[j])

JobMarks == [i \in DOMAIN jobs |-> MarksOf(jobs[i])]
Stages   == <<handled, MarksOf(JobMarks), MarksOf(pending), canvas>>

NothingPrintedIsLost ==
    /\ MarksOf(Stages) = 1 .. inked
    /\ Sorted(Stages)
    /\ Sorted(JobMarks) /\ \A i \in DOMAIN jobs : Sorted(jobs[i])
    /\ Sorted(pending)
=============================================================================
