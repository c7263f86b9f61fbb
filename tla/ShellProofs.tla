------------------------------ MODULE ShellProofs ------------------------------
(***************************************************************************)
(* Proofs about the printer path, the emulation thread and the menu.       *)
(*                                                                         *)
(* First the printer alone, for every page length, idle window and set of  *)
(* bytes. The guest may send any bytes, also the rest of a command the     *)
(* idle close has cut in two, and ticks, forced flushes and the sink may   *)
(* fall anywhere into the stream. Whatever a byte does to the head, it     *)
(* does one of three things to the paper (FeedEffects): it makes a mark,   *)
(* ejects the page, or neither. The invariants about the paper need no     *)
(* more of the parser than that.                                           *)
(*                                                                         *)
(* Then the application, which implements the printer, whatever the user,  *)
(* the guest and the two threads do: what holds of any stream with any     *)
(* ticks and flushes holds in it. And the throttled thread is paced by the *)
(* clock, closes jobs in silence only, and ends up as the menu shows it.   *)
(***************************************************************************)
EXTENDS Shell, TLAPS

HeadOK ==
    /\ ParserOK
    /\ lineHeight144 \in 0 .. 99 /\ lfForward \in BOOLEAN
    /\ y144 \in 0 .. PageLength144 - 1

-----------------------------------------------------------------------------
(* The wrap of a line feed stays on the page.                              *)
LEMMA ModuloInRange ==
    ASSUME NEW a \in Int, NEW b \in Nat \ {0}
    PROVE  a % b \in 0 .. b - 1
  BY SMT


(* A blank or an inked character, a line feed, a form feed, a command that *)
(* takes operands, an operand, a column, and all the rest.                 *)
LEMMA LineFeedEffects ==
    ASSUME HeadOK, lineFeed
    PROVE  HeadOK' /\ (NoInk \/ emitPage)
  <1>1. lineHeight144 \in 0 .. 99 /\ y144 \in 0 .. PageLength144 - 1 /\ PageLength144 \in Nat \ {0}
    BY PrinterAssumption DEF HeadOK
  <1> DEFINE newY == IF lfForward THEN y144 + lineHeight144 ELSE y144 - lineHeight144
  <1>2. newY \in Int /\ (~lfForward => newY < PageLength144)
    BY <1>1
  <1>3. newY % PageLength144 \in 0 .. PageLength144 - 1
    BY <1>1, <1>2, ModuloInRange
  <1>4. /\ UNCHANGED <<state, lineHeight144, lfForward>>
        /\ IF lfForward /\ newY >= PageLength144
             THEN emitPage /\ y144' = newY % PageLength144
             ELSE NoInk /\ y144' = IF newY < 0 THEN 0 ELSE newY
    BY DEF lineFeed
  <1>5. NoInk \/ emitPage
    BY <1>4
  <1>6. y144' \in 0 .. PageLength144 - 1
    <2>1. CASE lfForward /\ newY >= PageLength144
      BY <2>1, <1>3, <1>4
    <2>2. CASE ~(lfForward /\ newY >= PageLength144)
      <3> HIDE DEF newY
      <3>1. newY < PageLength144
        BY <2>2, <1>1, <1>2
      <3> QED
        BY <2>2, <3>1, <1>1, <1>2, <1>4
    <2> QED
      BY <2>1, <2>2
  <1> QED
    BY <1>4, <1>5, <1>6 DEF HeadOK, ParserOK

\* A byte outside of any command is a mark, a motion or an eject (feedGround)
LEMMA GroundEffects ==
    ASSUME HeadOK, NEW b \in 0 .. 255, state = Ground, feedGround(b)
    PROVE  HeadOK' /\ (Ink \/ NoInk \/ emitPage)
  <1>1. PageLength144 \in Nat \ {0}
    BY PrinterAssumption
  <1>2. CASE b = ESC /\ Becomes(Parsing("escape", 0, 0, 0))
    BY <1>2 DEF HeadOK, ParserOK, Becomes
  <1>3. CASE b = LF /\ lineFeed
    BY <1>3, LineFeedEffects
  <1>4. CASE b = FF /\ formFeed
    BY <1>1, <1>4 DEF HeadOK, ParserOK, formFeed
  <1>5. CASE Printable(b) /\ drawGlyph(b)
    BY <1>5 DEF HeadOK, ParserOK, drawGlyph, head
  <1>6. CASE Becomes(Ground)
    BY <1>6 DEF HeadOK, ParserOK, Becomes
  <1> QED
    BY <1>2, <1>3, <1>4, <1>5, <1>6 DEF feedGround

\* A reset of the printer ejects what is on the page
LEMMA ResetEffects ==
    ASSUME HeadOK, resetPrinter
    PROVE  HeadOK' /\ (NoInk \/ emitPage)
  <1>1. PageLength144 \in Nat \ {0}
    BY PrinterAssumption
  <1>2. HeadOK'
    BY <1>1 DEF HeadOK, ParserOK, resetPrinter, DefaultLineHeight
  <1> QED
    BY <1>2 DEF resetPrinter, emitPageIfDirty

\* A byte after ESC moves the head or ejects (feedEscape)
LEMMA EscapeEffects ==
    ASSUME HeadOK, NEW b \in 0 .. 255, feedEscape(b)
    PROVE  HeadOK' /\ (NoInk \/ emitPage)
  <1>1. CASE b \in OperandCmds /\ Becomes(Parsing("digits", b, Digits(b), 0))
    <2>1. Digits(b) \in 1 .. 4
      BY <1>1 DEF OperandCmds, Digits, LineHeightCmd, TabCmd, GraphicsCmd, FastGraphicsCmd
    <2> QED
      BY <1>1, <2>1 DEF HeadOK, ParserOK, Becomes, Parsing
  <1>2. CASE b \in DipCmds /\ Becomes(Parsing("raw", 0, 2, 0))
    BY <1>2 DEF HeadOK, ParserOK, Becomes, Parsing
  <1>3. CASE \E forward \in BOOLEAN : SetDirection(forward)
    BY <1>3 DEF HeadOK, ParserOK, SetDirection
  <1>4. CASE b = ResetCmd /\ resetPrinter
    BY <1>4, ResetEffects
  <1>5. CASE Becomes(Ground)
    BY <1>5 DEF HeadOK, ParserOK, Becomes
  <1> QED
    BY <1>1, <1>2, <1>3, <1>4, <1>5 DEF feedEscape

\* The announcement of graphics leaves the paper alone
LEMMA BeginGraphicsEffects ==
    ASSUME HeadOK, NEW columns \in Nat, beginGraphics(columns)
    PROVE  HeadOK' /\ NoInk
  BY DEF HeadOK, ParserOK, beginGraphics, Becomes, Parsing

\* So do the digits of a command
LEMMA DigitEffects ==
    ASSUME HeadOK, NEW b \in 0 .. 255, state.kind = "digits", feedDigits(b)
    PROVE  HeadOK' /\ NoInk
  <1>1. state \in [kind : {"digits"}, cmd : OperandCmds, remaining : 1 .. 4, accum : Nat]
    BY DEF HeadOK, ParserOK, Ground, Parsing
  <1>2. CASE Becomes(Ground)
    BY <1>2 DEF HeadOK, ParserOK, Becomes
  <1>3. CASE b \in 48 .. 57
    <2> DEFINE value == state.accum * 10 + (b - 48)
    <2>1. value \in Nat
      BY <1>1, <1>3
    <2>2. CASE /\ state.remaining > 1
               /\ Becomes(Parsing("digits", state.cmd, state.remaining - 1, value))
      <3> HIDE DEF value
      <3> QED
        BY <1>1, <2>1, <2>2 DEF HeadOK, ParserOK, Becomes, Parsing
    <2>3. CASE applyOperand(state.cmd, value)
      <3> HIDE DEF value
      <3>1. CASE /\ lineHeight144' = Least(value, 99)
                 /\ state' = Ground /\ NoInk /\ UNCHANGED <<lfForward, y144>>
        BY <2>1, <3>1 DEF HeadOK, ParserOK, Least
      <3>2. CASE Becomes(Ground)
        BY <3>2 DEF HeadOK, ParserOK, Becomes
      <3>3. CASE beginGraphics(value)
        BY <2>1, <3>3, BeginGraphicsEffects
      <3>4. CASE beginGraphics(value * 8)
        <4>1. value * 8 \in Nat
          BY <2>1
        <4> QED
          BY <3>4, <4>1, BeginGraphicsEffects
      <3> QED
        BY <2>3, <3>1, <3>2, <3>3, <3>4 DEF applyOperand
    <2> QED
      BY <1>3, <2>2, <2>3 DEF feedDigits
  <1> QED
    BY <1>2, <1>3 DEF feedDigits

\* Counting the bytes of an image down keeps the head's types
LEMMA CountDownEffects ==
    ASSUME HeadOK, state.kind \in {"graphics", "raw"}, CountDown,
           UNCHANGED <<lineHeight144, lfForward, y144>>
    PROVE  HeadOK'
  <1>1. state \in [kind : {"graphics", "raw"}, cmd : {0}, remaining : Nat \ {0}, accum : {0}]
    BY DEF HeadOK, ParserOK, Ground, Parsing
  <1>2. ParserOK'
    BY <1>1 DEF ParserOK, CountDown
  <1> QED
    BY <1>2 DEF HeadOK

(* What a byte does to the head and to the paper (feed).                   *)
LEMMA FeedEffects ==
    ASSUME HeadOK, NEW b \in Wire, feed(b)
    PROVE  HeadOK' /\ (Ink \/ NoInk \/ emitPage)
  <1>0. b \in 0 .. 255
    BY PrinterAssumption
  <1>1. CASE state.kind = "ground" /\ feedGround(b)
    <2>1. state = Ground
      BY <1>1 DEF HeadOK, ParserOK, Ground, Parsing
    <2> QED
      BY <1>0, <1>1, <2>1, GroundEffects
  <1>2. CASE state.kind = "escape" /\ feedEscape(b)
    BY <1>0, <1>2, EscapeEffects
  <1>3. CASE state.kind = "digits" /\ feedDigits(b)
    BY <1>0, <1>3, DigitEffects
  <1>4. CASE state.kind = "graphics" /\ feedGraphics(b)
    BY <1>4, CountDownEffects DEF feedGraphics
  <1>5. CASE state.kind = "raw" /\ feedRaw
    BY <1>5, CountDownEffects DEF feedRaw
  <1> QED
    BY <1>1, <1>2, <1>3, <1>4, <1>5 DEF feed

-----------------------------------------------------------------------------
(* Sequences of sets of marks. Growing the set the pages are drawn from    *)
(* keeps the sequences; a page appended adds its marks, and if they are    *)
(* later ones the sequence stays sorted; the head of a sorted sequence is  *)
(* before its tail.                                                        *)
LEMMA SeqGrows ==
    ASSUME NEW S, NEW T, S \subseteq T, NEW s \in Seq(S)
    PROVE  s \in Seq(T)
  <1>1. s \in [1 .. Len(s) -> S] /\ Len(s) \in Nat
    OBVIOUS
  <1>2. s \in [1 .. Len(s) -> T]
    BY <1>1
  <1> QED
    BY <1>1, <1>2

\* Append by position
LEMMA AppendIsFunction ==
    ASSUME NEW S, NEW s \in Seq(S), NEW c \in S
    PROVE  Append(s, c) = [i \in 1 .. Len(s) + 1 |-> IF i = Len(s) + 1 THEN c ELSE s[i]]
  <1> DEFINE t == Append(s, c)
             u == [i \in 1 .. Len(s) + 1 |-> IF i = Len(s) + 1 THEN c ELSE s[i]]
  <1>1. /\ t \in Seq(S) /\ Len(t) = Len(s) + 1 /\ Len(s) \in Nat
        /\ \A i \in 1 .. Len(s) : t[i] = s[i]
        /\ t[Len(s) + 1] = c
    OBVIOUS
  <1> HIDE DEF t
  <1>2. t \in [1 .. Len(t) -> S]
    BY <1>1
  <1>3. \A i \in 1 .. Len(s) + 1 : t[i] = u[i]
    BY <1>1
  <1>4. t = u
    BY <1>1, <1>2, <1>3
  <1> QED
    BY <1>4 DEF t

\* No page has no marks
LEMMA MarksOfNone == MarksOf(<<>>) = {}
  BY DEF MarksOf

\* The marks of pages are those of each
LEMMA MarksOfAppend ==
    ASSUME NEW S, NEW s \in Seq(S), NEW c \in S
    PROVE  MarksOf(Append(s, c)) = MarksOf(s) \cup c
  <1> DEFINE t == Append(s, c)
  <1>1. /\ DOMAIN s = 1 .. Len(s) /\ DOMAIN t = 1 .. Len(s) + 1 /\ Len(s) \in Nat
        /\ \A i \in 1 .. Len(s) : t[i] = s[i]
        /\ t[Len(s) + 1] = c
    OBVIOUS
  <1> HIDE DEF t
  <1>2. ASSUME NEW x PROVE x \in MarksOf(t) <=> x \in MarksOf(s) \/ x \in c
    <2>1. x \in MarksOf(t) <=> \E i \in DOMAIN t : x \in t[i]
      BY DEF MarksOf
    <2>2. x \in MarksOf(s) <=> \E i \in DOMAIN s : x \in s[i]
      BY DEF MarksOf
    <2> QED
      BY <1>1, <2>1, <2>2
  <1>3. MarksOf(t) = MarksOf(s) \cup c
    BY <1>2
  <1> QED
    BY <1>3 DEF t

\* Pages stay in order when one is added whose marks are later
LEMMA SortedAppend ==
    ASSUME NEW S, NEW s \in Seq(S), NEW c \in S, Sorted(s), Before(MarksOf(s), c)
    PROVE  Sorted(Append(s, c))
  <1> DEFINE t == Append(s, c)
  <1>1. /\ DOMAIN s = 1 .. Len(s) /\ DOMAIN t = 1 .. Len(s) + 1 /\ Len(s) \in Nat
        /\ \A i \in 1 .. Len(s) : t[i] = s[i]
        /\ t[Len(s) + 1] = c
    OBVIOUS
  <1> HIDE DEF t
  <1>2. ASSUME NEW i \in DOMAIN t, NEW j \in DOMAIN t, i < j PROVE Before(t[i], t[j])
    <2>1. i \in DOMAIN s /\ t[i] = s[i]
      BY <1>1, <1>2
    <2>2. CASE j \in DOMAIN s
      BY <1>1, <1>2, <2>1, <2>2 DEF Sorted
    <2>3. CASE j = Len(s) + 1
      <3>1. \A x \in s[i] : x \in MarksOf(s)
        BY <2>1 DEF MarksOf
      <3> QED
        BY <1>1, <2>1, <2>3, <3>1 DEF Before
    <2> QED
      BY <1>1, <1>2, <2>2, <2>3
  <1> QED
    BY <1>2 DEF Sorted, t

\* and when the first one is taken away
LEMMA SortedTail ==
    ASSUME NEW S, NEW s \in Seq(S), s # <<>>, Sorted(s)
    PROVE  /\ MarksOf(s) = Head(s) \cup MarksOf(Tail(s))
           /\ Before(Head(s), MarksOf(Tail(s)))
           /\ Sorted(Tail(s))
  <1> DEFINE t == Tail(s)
  <1>1. /\ DOMAIN s = 1 .. Len(s) /\ DOMAIN t = 1 .. Len(s) - 1 /\ Len(s) \in Nat \ {0}
        /\ \A i \in 1 .. Len(s) - 1 : t[i] = s[i + 1]
        /\ Head(s) = s[1]
    OBVIOUS
  <1> HIDE DEF t
  <1>2. ASSUME NEW x PROVE x \in MarksOf(s) <=> x \in s[1] \/ x \in MarksOf(t)
    <2>1. x \in MarksOf(t) <=> \E i \in DOMAIN t : x \in t[i]
      BY DEF MarksOf
    <2>2. x \in MarksOf(s) <=> \E i \in DOMAIN s : x \in s[i]
      BY DEF MarksOf
    <2>3. ASSUME NEW i \in DOMAIN s, i # 1 PROVE i - 1 \in DOMAIN t /\ t[i - 1] = s[i]
      <3>1. i - 1 \in 1 .. Len(s) - 1 /\ (i - 1) + 1 = i
        BY <1>1, <2>3
      <3>2. t[i - 1] = s[(i - 1) + 1]
        BY <1>1, <3>1
      <3> QED
        BY <1>1, <3>1, <3>2
    <2>4. 1 \in DOMAIN s /\ \A i \in DOMAIN t : i + 1 \in DOMAIN s /\ t[i] = s[i + 1]
      BY <1>1
    <2> QED
      BY <1>1, <2>1, <2>2, <2>3, <2>4
  <1>3. MarksOf(s) = s[1] \cup MarksOf(t)
    BY <1>2
  <1>4. Before(s[1], MarksOf(t))
    <2>1. \A x \in MarksOf(t) : \E i \in DOMAIN t : x \in t[i]
      BY DEF MarksOf
    <2>2. \A i \in DOMAIN t : Before(s[1], t[i])
      BY <1>1 DEF Sorted
    <2> QED
      BY <2>1, <2>2 DEF Before
  <1>5. Sorted(t)
    BY <1>1 DEF Sorted
  <1> QED
    BY <1>1, <1>3, <1>4, <1>5 DEF t

-----------------------------------------------------------------------------
(* The paper: what is handed over, the closed jobs, the pages of the open  *)
(* one and the page in the printer, in this order.                         *)
PaperOK ==
    /\ inked \in Nat
    /\ canvas \in Page /\ pending \in Seq(Page) /\ jobs \in Seq(Seq(Page))
    /\ handled \in Page

Closed == MarksOf(JobMarks)
Open   == MarksOf(pending)

InOrder ==
    /\ handled \cup Closed \cup Open \cup canvas = 1 .. inked
    /\ Before(handled, Closed) /\ Before(handled, Open) /\ Before(handled, canvas)
    /\ Before(Closed, Open) /\ Before(Closed, canvas)
    /\ Before(Open, canvas)
    /\ Sorted(JobMarks) /\ (\A i \in DOMAIN jobs : Sorted(jobs[i]))
    /\ Sorted(pending)

\* The order of pages, the open job and the closed ones is the property
LEMMA InOrderIsNothingLost == InOrder <=> NothingPrintedIsLost
  <1>1. MarksOf(Stages) = handled \cup Closed \cup Open \cup canvas
    <2>1. DOMAIN Stages = 1 .. 4
      BY DEF Stages
    <2>2. /\ Stages[1] = handled /\ Stages[2] = Closed
          /\ Stages[3] = Open /\ Stages[4] = canvas
      BY DEF Stages, Closed, Open
    <2>3. ASSUME NEW x
          PROVE  x \in MarksOf(Stages) <=> x \in handled \cup Closed \cup Open \cup canvas
      <3>1. x \in MarksOf(Stages) <=> \E i \in DOMAIN Stages : x \in Stages[i]
        BY DEF MarksOf
      <3>2. DOMAIN Stages = {1, 2, 3, 4}
        BY <2>1
      <3> QED
        BY <2>2, <3>1, <3>2
    <2> QED
      BY <2>3
  <1>2. Sorted(Stages) <=>
           /\ Before(handled, Closed) /\ Before(handled, Open) /\ Before(handled, canvas)
           /\ Before(Closed, Open) /\ Before(Closed, canvas)
           /\ Before(Open, canvas)
    <2>1. DOMAIN Stages = {1, 2, 3, 4}
      BY DEF Stages
    <2>2. /\ Stages[1] = handled /\ Stages[2] = Closed
          /\ Stages[3] = Open /\ Stages[4] = canvas
      BY DEF Stages, Closed, Open
    <2> QED
      BY <2>1, <2>2 DEF Sorted
  <1> QED
    BY <1>1, <1>2 DEF InOrder, NothingPrintedIsLost

(* The marks of the open job, and those of the closed ones, are marks.     *)
LEMMA MarksAreMarks ==
    ASSUME NEW n \in Nat, NEW s \in Seq(SUBSET (1 .. n))
    PROVE  MarksOf(s) \in SUBSET (1 .. n)
  BY DEF MarksOf

\* Jobs are sequences of pages
LEMMA JobMarksType ==
    ASSUME PaperOK
    PROVE  JobMarks \in Seq(Page) /\ Closed \in Page /\ Open \in Page
  <1>1. \A i \in DOMAIN jobs : jobs[i] \in Seq(Page)
    BY DEF PaperOK
  <1>2. \A i \in DOMAIN jobs : MarksOf(jobs[i]) \in Page
    BY <1>1, MarksAreMarks DEF PaperOK, Page
  <1>3. DOMAIN jobs = 1 .. Len(jobs) /\ Len(jobs) \in Nat
    BY DEF PaperOK
  <1>4. JobMarks \in [1 .. Len(jobs) -> Page]
    BY <1>2, <1>3 DEF JobMarks
  <1>5. JobMarks \in Seq(Page)
    BY <1>3, <1>4
  <1> QED
    BY <1>5, MarksAreMarks DEF PaperOK, Page, Closed, Open

(* A mark is later than all there are.                                     *)
LEMMA InkKeepsOrder ==
    ASSUME PaperOK, InOrder, Ink, UNCHANGED sink
    PROVE  PaperOK' /\ InOrder'
  <1>1. /\ inked' = inked + 1 /\ inked \in Nat /\ canvas' = canvas \cup {inked + 1}
        /\ UNCHANGED <<pending, jobs, handled>>
    BY DEF Ink, sink, PaperOK
  <1>2. Page \subseteq Page'
    BY <1>1 DEF Page
  <1>3. PaperOK'
    <2>1. pending \in Seq(Page')
      BY <1>2, SeqGrows DEF PaperOK
    <2>2. Seq(Page) \subseteq Seq(Page')
      BY <1>2, SeqGrows
    <2>3. jobs \in Seq(Seq(Page'))
      BY <2>2, SeqGrows DEF PaperOK
    <2>4. canvas' \in Page' /\ handled' \in Page'
      BY <1>1 DEF PaperOK, Page
    <2> QED
      BY <1>1, <2>1, <2>3, <2>4 DEF PaperOK
  <1>4. UNCHANGED <<Closed, Open, JobMarks>>
    BY <1>1 DEF Closed, Open, JobMarks
  <1>5. handled \in Page /\ Closed \in Page /\ Open \in Page
    BY JobMarksType DEF PaperOK
  <1>6. Before(handled, canvas') /\ Before(Closed, canvas') /\ Before(Open, canvas')
    BY <1>1, <1>5 DEF InOrder, Before, Page
  <1>7. handled' \cup Closed' \cup Open' \cup canvas' = 1 .. inked'
    BY <1>1, <1>4 DEF InOrder
  <1> QED
    BY <1>1, <1>3, <1>4, <1>6, <1>7 DEF InOrder

(* The pages of the job with the page in the printer after them.           *)
LEMMA EjectedPages ==
    ASSUME PaperOK, InOrder
    PROVE  LET pages == Append(pending, canvas)
           IN  /\ pages \in Seq(Page) /\ pages # <<>>
               /\ MarksOf(pages) = Open \cup canvas
               /\ Sorted(pages)
  <1>1. pending \in Seq(Page) /\ canvas \in Page /\ Sorted(pending) /\ Before(Open, canvas)
    BY DEF PaperOK, InOrder
  <1>2. Append(pending, canvas) \in Seq(Page) /\ Append(pending, canvas) # <<>>
    BY <1>1
  <1> QED
    BY <1>1, <1>2, MarksOfAppend, SortedAppend DEF Open

\* An ejected page goes behind those of its job
LEMMA EjectKeepsOrder ==
    ASSUME PaperOK, InOrder, emitPage, UNCHANGED sink
    PROVE  PaperOK' /\ InOrder'
  <1>1. /\ pending' = Append(pending, canvas) /\ canvas' = {}
        /\ UNCHANGED <<inked, jobs, handled>>
    BY DEF emitPage, sink
  <1>2. pending' \in Seq(Page) /\ Open' = Open \cup canvas /\ Sorted(pending')
    BY <1>1, EjectedPages DEF Open
  <1>3. PaperOK'
    BY <1>1, <1>2 DEF PaperOK, Page
  <1>4. UNCHANGED <<Closed, JobMarks>>
    BY <1>1 DEF Closed, JobMarks
  <1>5. Before(handled, Open') /\ Before(Closed, Open')
    BY <1>2 DEF InOrder, Before
  <1>6. Before(handled, canvas') /\ Before(Closed, canvas') /\ Before(Open', canvas')
    BY <1>1 DEF Before
  <1>7. handled' \cup Closed' \cup Open' \cup canvas' = 1 .. inked'
    BY <1>1, <1>2, <1>4 DEF InOrder
  <1> QED
    BY <1>1, <1>2, <1>3, <1>4, <1>5, <1>6, <1>7 DEF InOrder

(* The job that is closed takes the page with it.                          *)
LEMMA FlushKeepsOrder ==
    ASSUME PaperOK, InOrder, flush
    PROVE  PaperOK' /\ InOrder'
  <1> DEFINE pages == IF canvas # {} THEN Append(pending, canvas) ELSE pending
  <1>1. /\ jobs' = IF pages # <<>> THEN Append(jobs, pages) ELSE jobs
        /\ pending' = <<>> /\ canvas' = {}
        /\ UNCHANGED <<inked, handled>>
    BY DEF flush
  <1>2. /\ pages \in Seq(Page) /\ Sorted(pages)
        /\ MarksOf(pages) = Open \cup canvas
    <2>1. CASE canvas # {}
      BY <2>1, EjectedPages
    <2>2. CASE canvas = {}
      BY <2>2 DEF PaperOK, InOrder, Open
    <2> QED
      BY <2>1, <2>2
  <1>3. pages = <<>> => Open \cup canvas = {}
    BY <1>2, MarksOfNone
  <1> HIDE DEF pages
  <1>4. Open' = {} /\ Sorted(pending')
    BY <1>1, MarksOfNone DEF Open, Sorted
  <1>5. JobMarks \in Seq(Page) /\ MarksOf(pages) \in Page
    BY <1>2, JobMarksType, MarksAreMarks DEF PaperOK, Page
  <1>6. jobs \in Seq(Seq(Page)) /\ DOMAIN jobs = 1 .. Len(jobs) /\ Len(jobs) \in Nat
    BY DEF PaperOK
  <1>7. /\ Closed' = Closed \cup Open \cup canvas
        /\ Sorted(JobMarks')
        /\ \A i \in DOMAIN jobs' : Sorted(jobs'[i])
        /\ jobs' \in Seq(Seq(Page))
    <2>1. CASE pages # <<>>
      <3>1. jobs' = Append(jobs, pages)
        BY <1>1, <2>1
      <3>2. /\ DOMAIN jobs' = 1 .. Len(jobs) + 1
            /\ \A i \in 1 .. Len(jobs) : jobs'[i] = jobs[i]
            /\ jobs'[Len(jobs) + 1] = pages
            /\ jobs' \in Seq(Seq(Page))
        BY <1>2, <1>6, <3>1
      <3>3. JobMarks' = Append(JobMarks, MarksOf(pages))
        <4>1. JobMarks' = [i \in 1 .. Len(jobs) + 1 |-> MarksOf(jobs'[i])]
          BY <3>2 DEF JobMarks
        <4>2. JobMarks = [i \in 1 .. Len(jobs) |-> MarksOf(jobs[i])]
          BY <1>6 DEF JobMarks
        <4>3. Len(JobMarks) = Len(jobs)
          BY <1>5, <1>6, <4>2
        <4>4. Append(JobMarks, MarksOf(pages)) =
                [i \in 1 .. Len(jobs) + 1 |-> IF i = Len(jobs) + 1 THEN MarksOf(pages) ELSE JobMarks[i]]
          BY <1>5, <4>3, AppendIsFunction
        <4>5. ASSUME NEW i \in 1 .. Len(jobs) + 1
              PROVE  MarksOf(jobs'[i]) = IF i = Len(jobs) + 1 THEN MarksOf(pages) ELSE JobMarks[i]
          <5>1. CASE i = Len(jobs) + 1
            BY <3>2, <5>1
          <5>2. CASE i # Len(jobs) + 1
            <6>1. i \in 1 .. Len(jobs)
              BY <1>6, <5>2
            <6> QED
              BY <3>2, <4>2, <5>2, <6>1
          <5> QED
            BY <5>1, <5>2
        <4> QED
          BY <4>1, <4>4, <4>5
      <3>4. Before(Closed, MarksOf(pages))
        BY <1>2 DEF InOrder, Before
      <3>5. Closed' = Closed \cup MarksOf(pages) /\ Sorted(JobMarks')
        BY <1>5, <3>3, <3>4, MarksOfAppend, SortedAppend DEF Closed, InOrder
      <3>6. ASSUME NEW i \in DOMAIN jobs' PROVE Sorted(jobs'[i])
        <4>1. Sorted(pages) /\ \A k \in 1 .. Len(jobs) : Sorted(jobs[k])
          BY <1>2, <1>6 DEF InOrder
        <4>2. i \in 1 .. Len(jobs) \/ i = Len(jobs) + 1
          BY <1>6, <3>2
        <4>3. CASE i = Len(jobs) + 1
          BY Zenon, <3>2, <4>1, <4>3
        <4>4. CASE i \in 1 .. Len(jobs)
          BY Zenon, <3>2, <4>1, <4>4
        <4> QED
          BY <4>2, <4>3, <4>4
      <3> QED
        BY <1>2, <3>2, <3>5, <3>6
    <2>2. CASE pages = <<>>
      <3>1. jobs' = jobs
        BY <1>1, <2>2
      <3>2. UNCHANGED <<Closed, JobMarks>>
        BY <3>1 DEF Closed, JobMarks
      <3> QED
        BY <1>3, <1>6, <2>2, <3>1, <3>2 DEF InOrder
    <2> QED
      BY <2>1, <2>2
  <1>8. PaperOK'
    BY <1>1, <1>7 DEF PaperOK, Page
  <1>9. /\ Before(handled, Closed')
        /\ Before(handled, Open') /\ Before(handled, canvas')
        /\ Before(Closed', Open') /\ Before(Closed', canvas') /\ Before(Open', canvas')
    BY <1>1, <1>4, <1>7 DEF InOrder, Before
  <1>10. handled' \cup Closed' \cup Open' \cup canvas' = 1 .. inked'
    BY <1>1, <1>4, <1>7 DEF InOrder
  <1> QED
    BY <1>1, <1>4, <1>7, <1>8, <1>9, <1>10 DEF InOrder

(* The sink takes the job whose marks are the oldest.                      *)
LEMMA TakeKeepsOrder ==
    ASSUME PaperOK, InOrder, TakeJob
    PROVE  PaperOK' /\ InOrder'
  <1>1. /\ jobs # <<>> /\ jobs' = Tail(jobs)
        /\ handled' = handled \cup MarksOf(Head(jobs))
        /\ UNCHANGED <<inked, canvas, pending>>
    BY DEF TakeJob, paper
  <1>2. /\ jobs \in Seq(Seq(Page)) /\ DOMAIN jobs = 1 .. Len(jobs) /\ Len(jobs) \in Nat \ {0}
        /\ DOMAIN jobs' = 1 .. Len(jobs) - 1
        /\ \A i \in 1 .. Len(jobs) - 1 : jobs'[i] = jobs[i + 1]
        /\ Head(jobs) = jobs[1]
        /\ jobs' \in Seq(Seq(Page))
    BY <1>1 DEF PaperOK
  <1>3. JobMarks \in Seq(Page)
    BY JobMarksType
  <1>4. JobMarks = [i \in 1 .. Len(jobs) |-> MarksOf(jobs[i])] /\ Len(JobMarks) = Len(jobs)
    BY <1>2, <1>3 DEF JobMarks
  <1>5. Head(JobMarks) = MarksOf(Head(jobs)) /\ JobMarks # <<>>
    <2>1. JobMarks # <<>> /\ Head(JobMarks) = JobMarks[1]
      BY <1>2, <1>3, <1>4
    <2>2. JobMarks[1] = MarksOf(jobs[1])
      BY <1>2, <1>4
    <2> QED
      BY <1>2, <2>1, <2>2
  <1>6. JobMarks' = Tail(JobMarks)
    <2>1. JobMarks' = [i \in 1 .. Len(jobs) - 1 |-> MarksOf(jobs'[i])]
      BY <1>2 DEF JobMarks
    <2>2. Tail(JobMarks) = [i \in 1 .. Len(jobs) - 1 |-> JobMarks[i + 1]]
      BY <1>2, <1>3, <1>4
    <2>3. \A i \in 1 .. Len(jobs) - 1 : MarksOf(jobs'[i]) = JobMarks[i + 1]
      BY <1>2, <1>4
    <2> QED
      BY <2>1, <2>2, <2>3
  <1>7. /\ Closed = MarksOf(Head(jobs)) \cup Closed'
        /\ Before(MarksOf(Head(jobs)), Closed')
        /\ Sorted(JobMarks')
    BY <1>3, <1>5, <1>6, SortedTail DEF Closed, InOrder
  <1>8. ASSUME NEW i \in DOMAIN jobs' PROVE Sorted(jobs'[i])
    <2>1. i + 1 \in DOMAIN jobs /\ jobs'[i] = jobs[i + 1]
      BY <1>2
    <2> QED
      BY <2>1 DEF InOrder
  <1>9. Closed \in Page
    BY JobMarksType
  <1>10. PaperOK'
    BY <1>1, <1>2, <1>7, <1>9 DEF PaperOK, Page
  <1>11. Open' = Open
    BY <1>1 DEF Open
  <1>12. /\ Before(handled', Closed') /\ Before(handled', Open) /\ Before(handled', canvas)
         /\ Before(Closed', Open) /\ Before(Closed', canvas)
    BY <1>1, <1>7 DEF InOrder, Before
  <1>13. handled' \cup Closed' \cup Open' \cup canvas' = 1 .. inked'
    BY <1>1, <1>7, <1>11 DEF InOrder
  <1> QED
    BY <1>1, <1>7, <1>8, <1>10, <1>11, <1>12, <1>13 DEF InOrder

-----------------------------------------------------------------------------
(* The inductive invariant: types and order need each other, for a mark is *)
(* the latest because every page holds marks made before it; and the clock *)
(* knows of the output.                                                    *)
ClockOK ==
    /\ sawByte \in BOOLEAN /\ hasOutstandingOutput \in BOOLEAN
    /\ quiet \in 0 .. IdleWindow /\ silence \in 0 .. IdleWindow

Inv == HeadOK /\ PaperOK /\ InOrder /\ ClockOK /\ OutputIsArmed

\* The printer's types are those of its three parts
LEMMA TypeOfParts == PrinterTypeOK <=> HeadOK /\ PaperOK /\ ClockOK
  BY DEF PrinterTypeOK, HeadOK, PaperOK, ClockOK

\* The printer starts with nothing printed
LEMMA InitInv == PrinterInit => Inv
  <1> SUFFICES ASSUME PrinterInit PROVE Inv
    OBVIOUS
  <1>1. HeadOK
    BY PrinterAssumption DEF PrinterInit, HeadOK, ParserOK, DefaultLineHeight
  <1>2. PaperOK
    BY DEF PrinterInit, PaperOK, Page
  <1>3. Open = {} /\ Sorted(pending)
    BY MarksOfNone DEF PrinterInit, Open, Sorted
  <1>4. JobMarks = <<>>
    BY DEF PrinterInit, JobMarks
  <1>5. Closed = {} /\ Sorted(JobMarks)
    BY <1>4, MarksOfNone DEF Closed, Sorted
  <1>6. InOrder
    BY <1>3, <1>5 DEF PrinterInit, InOrder, Before
  <1>7. ClockOK
    <2>1. sawByte \in BOOLEAN /\ hasOutstandingOutput \in BOOLEAN
      BY DEF PrinterInit
    <2>2. quiet \in 0 .. IdleWindow /\ silence \in 0 .. IdleWindow
      BY PrinterAssumption DEF PrinterInit
    <2> QED
      BY <2>1, <2>2 DEF ClockOK
  <1>8. OutputIsArmed
    BY DEF PrinterInit, OutputIsArmed
  <1> QED
    BY <1>1, <1>2, <1>6, <1>7, <1>8 DEF Inv

\* Where neither the paper nor the spooler changes, nothing is lost
LEMMA PaperUntouched ==
    ASSUME PaperOK, InOrder, UNCHANGED <<paper, sink>>
    PROVE  PaperOK' /\ InOrder'
  <1>1. UNCHANGED <<canvas, pending, inked, jobs, handled>>
    BY DEF paper, sink
  <1>2. UNCHANGED <<Closed, Open, JobMarks>>
    BY <1>1 DEF Closed, Open, JobMarks
  <1> QED
    BY <1>1, <1>2 DEF PaperOK, InOrder, Page

\* A byte to the printer keeps the invariant
LEMMA TransmitKeepsInv ==
    ASSUME Inv, NEW b \in Wire, transmit(b)
    PROVE  Inv'
  <1>1. /\ feed(b) /\ sawByte' = TRUE /\ silence' = 0
        /\ UNCHANGED <<hasOutstandingOutput, quiet, sink>>
    BY DEF transmit
  <1>2. HeadOK' /\ (Ink \/ NoInk \/ emitPage)
    BY <1>1, FeedEffects DEF Inv
  <1>3. PaperOK' /\ InOrder'
    <2>1. CASE Ink
      BY <1>1, <2>1, InkKeepsOrder DEF Inv
    <2>2. CASE NoInk
      BY <1>1, <2>2, PaperUntouched DEF Inv, NoInk, paper
    <2>3. CASE emitPage
      BY <1>1, <2>3, EjectKeepsOrder DEF Inv
    <2> QED
      BY <1>2, <2>1, <2>2, <2>3
  <1>4. ClockOK' /\ OutputIsArmed'
    BY <1>1, PrinterAssumption DEF Inv, ClockOK, OutputIsArmed
  <1> QED
    BY <1>2, <1>3, <1>4 DEF Inv

\* So does the end of a job, by silence or shutdown
LEMMA FlushKeepsInv ==
    ASSUME Inv, flush
    PROVE  Inv'
  <1>1. HeadOK'
    BY PrinterAssumption DEF Inv, HeadOK, ParserOK, flush
  <1>2. PaperOK' /\ InOrder'
    BY FlushKeepsOrder DEF Inv
  <1>3. ClockOK' /\ OutputIsArmed'
    BY DEF Inv, flush, ClockOK, OutputIsArmed
  <1> QED
    BY <1>1, <1>2, <1>3 DEF Inv

\* the pipeline's look at the bytes
LEMMA ObserveKeepsInv ==
    ASSUME Inv, observeBytes
    PROVE  Inv'
  <1>1. HeadOK'
    BY DEF Inv, HeadOK, ParserOK, observeBytes, head
  <1>2. PaperOK' /\ InOrder'
    BY PaperUntouched DEF Inv, observeBytes
  <1>3. ClockOK'
    <2>1. sawByte' \in BOOLEAN /\ hasOutstandingOutput' \in BOOLEAN
      BY DEF observeBytes
    <2>2. quiet' \in 0 .. IdleWindow /\ silence' \in 0 .. IdleWindow
      BY PrinterAssumption DEF Inv, observeBytes, ClockOK
    <2> QED
      BY <2>1, <2>2 DEF ClockOK
  <1>4. OutputIsArmed'
    BY DEF observeBytes, OutputIsArmed
  <1> QED
    BY <1>1, <1>2, <1>3, <1>4 DEF Inv

\* a step that leaves the printer alone
LEMMA StutterKeepsInv ==
    ASSUME Inv, UNCHANGED printerVars
    PROVE  Inv'
  <1>1. HeadOK' /\ ClockOK' /\ OutputIsArmed'
    BY DEF Inv, printerVars, head, paper, idleClock, HeadOK, ParserOK, ClockOK, OutputIsArmed
  <1>2. PaperOK' /\ InOrder'
    BY PaperUntouched DEF Inv, printerVars
  <1> QED
    BY <1>1, <1>2 DEF Inv

\* and every step of the printer
LEMMA NextInv ==
    ASSUME Inv, [PrinterNext]_printerVars
    PROVE  Inv'
  <1>1. CASE \E b \in Wire : transmit(b)
    BY <1>1, TransmitKeepsInv
  <1>2. CASE tick
    BY <1>2, ObserveKeepsInv, FlushKeepsInv, StutterKeepsInv DEF tick
  <1>3. CASE flush
    BY <1>3, FlushKeepsInv
  <1>4. CASE PrinterElapse
    <2>1. HeadOK' /\ OutputIsArmed'
      BY <1>4 DEF Inv, PrinterElapse, head, paper, HeadOK, ParserOK, OutputIsArmed
    <2>2. PaperOK' /\ InOrder'
      BY <1>4, PaperUntouched DEF Inv, PrinterElapse
    <2>3. ClockOK'
      BY <1>4, PrinterAssumption DEF Inv, PrinterElapse, ClockOK, Least
    <2> QED
      BY <2>1, <2>2, <2>3 DEF Inv
  <1>5. CASE TakeJob
    <2>1. HeadOK' /\ ClockOK' /\ OutputIsArmed'
      BY <1>5 DEF Inv, TakeJob, head, paper, idleClock, HeadOK, ParserOK, ClockOK, OutputIsArmed
    <2>2. PaperOK' /\ InOrder'
      BY <1>5, TakeKeepsOrder DEF Inv
    <2> QED
      BY <2>1, <2>2 DEF Inv
  <1>6. CASE UNCHANGED printerVars
    BY <1>6, StutterKeepsInv
  <1> QED
    BY <1>1, <1>2, <1>3, <1>4, <1>5, <1>6 DEF PrinterNext

\* so it holds always
LEMMA InvHolds == PrinterSpec => []Inv
  <1>1. Inv /\ [PrinterNext]_printerVars => Inv'
    BY NextInv
  <1> QED
    BY InitInv, <1>1, PTL DEF PrinterSpec

(* Whatever the guest sends, the parser is in a state of the interpreter,  *)
(* and the paper is never above the top of the page or below its end       *)
(* (ImageWriterInterpreter.feed, lineFeed).                                *)
THEOREM PrinterTypeCorrect == PrinterSpec => []PrinterTypeOK
  <1>1. Inv => PrinterTypeOK
    BY TypeOfParts DEF Inv
  <1> QED
    BY InvHolds, <1>1, PTL

(* Whatever the printer holds, silence will close it into a job            *)
(* (PrinterPipeline.tick).                                                 *)
THEOREM OutputIsArmedHolds == PrinterSpec => []OutputIsArmed
  <1>1. Inv => OutputIsArmed
    BY DEF Inv
  <1> QED
    BY InvHolds, <1>1, PTL

(* No mark is lost, printed twice or out of order, for any stream and any  *)
(* ticks and flushes (emitPage, PrintJobSpooler.feed, closeJob).           *)
THEOREM NothingPrintedIsLostHolds == PrinterSpec => []NothingPrintedIsLost
  <1>1. Inv => NothingPrintedIsLost
    BY InOrderIsNothingLost DEF Inv
  <1> QED
    BY InvHolds, <1>1, PTL

-----------------------------------------------------------------------------
(* The application.                                                        *)
Sending == toSend \in Seq(Wire)

\* A queue's head and tail
LEMMA HeadIsSent ==
    ASSUME NEW S, NEW q \in Seq(S), q # <<>>
    PROVE  Head(q) \in S /\ Tail(q) \in Seq(S)
  OBVIOUS

-----------------------------------------------------------------------------
(* The refinement.                                                         *)
LEMMA InitSends == Init => Sending
  BY ShellAssumption DEF Init, Sending

\* What the guest has yet to send are bytes of the wire
LEMMA SendingGoesOn == Sending /\ [Next]_vars => Sending'
  <1> SUFFICES ASSUME Sending, [Next]_vars PROVE Sending'
    OBVIOUS
  <1>1. ASSUME UNCHANGED toSend PROVE Sending'
    BY <1>1 DEF Sending
  <1>2. CASE SendByte
    BY <1>2, HeadIsSent DEF SendByte, Sending
  <1>3. CASE Emulation
    <2>1. toSend' = <<>> \/ toSend' = toSend
      BY <1>3 DEF Emulation
    <2>2. <<>> \in Seq(Wire)
      OBVIOUS
    <2> QED
      BY <2>1, <2>2 DEF Sending
  <1>4. CASE toggleRunning \/ reset \/ toggleThrottled \/ useDevice \/ quit
    BY <1>1, <1>4 DEF toggleRunning, reset, toggleThrottled, useDevice, quit, User
  <1>5. CASE MainStep
    BY <1>1, <1>5 DEF MainStep, RunStatus, RunJob, RunApply, RunBlock, restart, joined
  <1>6. CASE Clock
    BY <1>1, <1>6 DEF Clock
  <1>7. CASE UNCHANGED vars
    BY <1>1, <1>7 DEF vars
  <1> QED
    BY <1>2, <1>3, <1>4, <1>5, <1>6, <1>7 DEF Next

(* The thread's own steps.                                                 *)
LEMMA LoopOfPrinter ==
    ASSUME LoopStep
    PROVE  \/ UNCHANGED printerVars
           \/ TickPrinter /\ tick
           \/ CarryShutdown /\ flush
  <1>1. CASE Drain
    BY <1>1 DEF Drain
  <1>2. CASE CarryStart \/ CarryPause \/ CarryReset \/ CarrySetThrottled \/ CarryDevice
    BY <1>2 DEF CarryStart, CarryPause, CarryReset, CarrySetThrottled, CarryDevice
  <1>3. CASE CarryShutdown
    BY <1>3 DEF CarryShutdown
  <1>4. CASE TickPrinter
    BY <1>4 DEF TickPrinter
  <1>5. CASE Idle \/ BeginSlice \/ DispatchApply \/ PublishStatus
    BY <1>5 DEF Idle, BeginSlice, DispatchApply, PublishStatus
  <1> QED
    BY <1>1, <1>2, <1>3, <1>4, <1>5 DEF LoopStep

\* The end of a slice leaves the printer alone
LEMMA SliceOfPrinter ==
    ASSUME NEW frame, SliceEnds(frame)
    PROVE  UNCHANGED printerVars
  BY DEF SliceEnds, EndSlice

\* Every step of the application is one of the printer or leaves it alone
LEMMA StepOfPrinter ==
    ASSUME Sending, [Next]_vars
    PROVE  [PrinterNext]_printerVars
  <1>1. CASE toggleRunning \/ reset \/ toggleThrottled \/ useDevice \/ quit
    BY <1>1 DEF toggleRunning, reset, toggleThrottled, useDevice, quit, User
  <1>2. CASE RunStatus \/ RunApply \/ restart \/ joined
    BY <1>2 DEF RunStatus, RunApply, restart, joined
  <1>3. CASE RunJob
    BY <1>3 DEF RunJob, PrinterNext
  <1>4. CASE SendByte
    <2>1. Head(toSend) \in Wire
      BY <1>4, HeadIsSent DEF SendByte, Sending
    <2>2. transmit(Head(toSend))
      BY <1>4 DEF SendByte, GuestTransmits
    <2> QED
      BY <2>1, <2>2 DEF PrinterNext
  <1>5. CASE Emulation
    BY <1>5, LoopOfPrinter, SliceOfPrinter DEF Emulation, PrinterNext
  <1>6. CASE Clock
    BY <1>6 DEF Clock, Elapse, PrinterNext
  <1>7. CASE UNCHANGED vars
    BY <1>7 DEF vars
  <1> QED
    BY <1>1, <1>2, <1>3, <1>4, <1>5, <1>6, <1>7 DEF Next, MainStep

(* The application implements the printer: every step of the user, the     *)
(* guest, the thread and the main queue is one of the printer's, or leaves *)
(* it alone (EmulationController.swift, AppModel.swift).                   *)
THEOREM ShellImplementsPrinter == Spec => PrinterSpec
  <1>1. Init => PrinterInit
    BY DEF Init
  <1>2. Sending /\ [Next]_vars => [PrinterNext]_printerVars
    BY StepOfPrinter
  <1> QED
    BY InitSends, SendingGoesOn, <1>1, <1>2, PTL DEF Spec, PrinterSpec

(* In the application too nothing that was printed is lost, printed twice  *)
(* or put on another job: pauses, resets and quits included.               *)
THEOREM NothingIsLostInTheShell == Spec => []NothingPrintedIsLost
  BY ShellImplementsPrinter, NothingPrintedIsLostHolds, PTL

(* And no page is left in the printer without the idle clock being armed.  *)
THEOREM OutputIsArmedInTheShell == Spec => []OutputIsArmed
  BY ShellImplementsPrinter, OutputIsArmedHolds, PTL

-----------------------------------------------------------------------------
(* Silence. The idle clock starts at the tick that noticed a byte, after   *)
(* the byte: it never shows more than the silence on the wire.             *)
QuietIsSilence == ~sawByte /\ hasOutstandingOutput => quiet <= silence

\* No byte has come yet
LEMMA QuietInit == PrinterInit => QuietIsSilence
  BY DEF PrinterInit, QuietIsSilence

\* The idle clock counts the silence since the last byte
LEMMA QuietStep ==
    ASSUME ClockOK, QuietIsSilence, [PrinterNext]_printerVars
    PROVE  QuietIsSilence'
  <1>0. quiet \in Int /\ silence \in Int /\ silence >= 0 /\ IdleWindow \in Int
    BY PrinterAssumption DEF ClockOK
  <1>1. CASE \E b \in Wire : transmit(b)
    BY <1>1 DEF transmit, QuietIsSilence
  <1>2. ASSUME flush PROVE QuietIsSilence'
    BY <1>2 DEF flush, QuietIsSilence
  <1>3. ASSUME UNCHANGED printerVars PROVE QuietIsSilence'
    BY <1>3 DEF printerVars, idleClock, QuietIsSilence
  <1>4. CASE tick
    <2>1. CASE observeBytes
      BY <1>0, <2>1 DEF observeBytes, QuietIsSilence
    <2> QED
      BY <1>2, <1>3, <1>4, <2>1 DEF tick
  <1>5. CASE PrinterElapse
    BY <1>0, <1>5 DEF PrinterElapse, QuietIsSilence, Least
  <1>6. CASE TakeJob
    BY <1>6 DEF TakeJob, idleClock, QuietIsSilence
  <1> QED
    BY <1>1, <1>2, <1>3, <1>4, <1>5, <1>6 DEF PrinterNext

\* in every state
LEMMA QuietHolds == PrinterSpec => [](Inv /\ QuietIsSilence)
  <1>1. Inv /\ QuietIsSilence /\ [PrinterNext]_printerVars => (Inv /\ QuietIsSilence)'
    BY NextInv, QuietStep DEF Inv
  <1> QED
    BY InitInv, QuietInit, <1>1, PTL DEF PrinterSpec

\* Neither a stutter nor a job handed over closes one
LEMMA GrowthIsGrowth ==
    ASSUME Inv
    PROVE  ~(Len(jobs) > Len(jobs)) /\ (jobs # <<>> => ~(Len(Tail(jobs)) > Len(jobs)))
  <1>1. \E S : jobs \in Seq(S)
    BY DEF Inv, PaperOK
  <1>2. PICK S : jobs \in Seq(S)
    BY <1>1
  <1>3. Len(jobs) \in Nat /\ (jobs # <<>> => Len(Tail(jobs)) = Len(jobs) - 1)
    BY <1>2
  <1> QED
    BY <1>3

(* A job closes because the wire was silent for the idle window, counted   *)
(* from the last byte, or because the thread shuts down.                   *)
THEOREM JobsEndInSilenceHolds == Spec => JobsEndInSilence
  <1> DEFINE Ends == Len(jobs') > Len(jobs) => silence >= IdleWindow \/ pc' = "ended"
  <1>1. ASSUME Inv, QuietIsSilence, [Next]_vars PROVE Ends \/ UNCHANGED <<jobs, pc>>
    <2>1. ASSUME jobs' = jobs PROVE Ends
      BY <1>1, <2>1, GrowthIsGrowth
    <2>2. ASSUME UNCHANGED printerVars PROVE Ends
      BY <2>1, <2>2 DEF printerVars, sink
    <2>3. CASE toggleRunning \/ reset \/ toggleThrottled \/ useDevice \/ quit
      BY <2>2, <2>3 DEF toggleRunning, reset, toggleThrottled, useDevice, quit, User
    <2>4. CASE RunStatus \/ RunApply \/ restart \/ joined
      BY <2>2, <2>4 DEF RunStatus, RunApply, restart, joined
    <2>5. CASE RunJob
      <3>1. jobs # <<>> /\ jobs' = Tail(jobs)
        BY <2>5 DEF RunJob, TakeJob
      <3> QED
        BY <1>1, <3>1, GrowthIsGrowth
    <2>6. CASE SendByte
      BY <2>1, <2>6 DEF SendByte, GuestTransmits, transmit, sink
    <2>7. CASE Emulation
      <3>1. CASE TickPrinter /\ tick
        <4>1. CASE observeBytes
          BY <2>1, <4>1 DEF observeBytes, sink
        <4>2. CASE ~sawByte /\ hasOutstandingOutput /\ quiet >= IdleWindow
          <5>1. quiet <= silence
            BY <1>1, <4>2 DEF QuietIsSilence
          <5>2. quiet \in Int /\ silence \in Int /\ IdleWindow \in Int
            BY <1>1, PrinterAssumption DEF Inv, ClockOK
          <5> QED
            BY <4>2, <5>1, <5>2
        <4> QED
          BY <2>2, <3>1, <4>1, <4>2 DEF tick
      <3>2. CASE CarryShutdown /\ flush
        BY <3>2 DEF CarryShutdown
      <3> QED
        BY <2>2, <2>7, <3>1, <3>2, LoopOfPrinter, SliceOfPrinter DEF Emulation
    <2>8. CASE Clock
      BY <2>1, <2>8 DEF Clock, Elapse, PrinterElapse, sink
    <2>9. CASE UNCHANGED vars
      BY <2>2, <2>9 DEF vars
    <2> QED
      BY <1>1, <2>3, <2>4, <2>5, <2>6, <2>7, <2>8, <2>9 DEF Next, MainStep
  <1>2. Inv /\ QuietIsSilence /\ [Next]_vars => [Ends]_<<jobs, pc>>
    BY <1>1
  <1> QED
    BY ShellImplementsPrinter, QuietHolds, <1>2, PTL DEF Spec, JobsEndInSilence

-----------------------------------------------------------------------------
(* Pacing. The cycles due by the anchor, and those of the slice under way, *)
(* are no more than the time since the anchor was last forgotten; where    *)
(* that time is no longer counted, a slice is below the ceiling anyway.    *)
Underway == IF pc = "running" /\ due # Unpaced THEN due ELSE 0

Paced ==
    /\ lag \in NoAnchor .. MaxLag /\ due \in Unpaced .. MaxCatchUp
    /\ sinceResumed \in 0 .. MaxCatchUp
    /\ sinceResumed = MaxCatchUp \/ lag + Underway <= sinceResumed
    /\ Underway <= sinceResumed

\* The clocks of the governor are numbers within their bounds
LEMMA PacedNumbers ==
    ASSUME Paced
    PROVE  /\ MaxCatchUp \in Int /\ MaxCatchUp >= 1 /\ MaxLag = MaxCatchUp + 1
           /\ NoAnchor = -1 /\ Unpaced = -1
           /\ lag \in Int /\ lag >= -1 /\ lag <= MaxCatchUp + 1
           /\ due \in Int /\ due >= -1 /\ due <= MaxCatchUp
           /\ sinceResumed \in Int /\ sinceResumed >= 0 /\ sinceResumed <= MaxCatchUp
  BY ControllerAssumption DEF Paced, MaxLag, NoAnchor, Unpaced

\* A lag that shrinks by what was run stays below the host's clock
LEMMA StillBelow ==
    ASSUME NEW l \in Int, NEW u \in Int, NEW s \in Int, l + u <= s,
           NEW k \in Int, NEW v \in Int, NEW t \in Int, k <= l + (t - s), v <= u
    PROVE  k + v <= t
  OBVIOUS

\* Nothing has been run at first
LEMMA PacedInit == Init => Paced
  BY ControllerAssumption DEF Init, Paced, Underway, NoAnchor, Unpaced, MaxLag

\* Pacing is kept where neither its clocks nor the thread move
LEMMA PacedKept ==
    ASSUME Paced, UNCHANGED pacing, pc' # "running" \/ pc' = pc
    PROVE  Paced'
  <1>1. lag' = lag /\ due' = due /\ sinceResumed' = sinceResumed
    BY DEF pacing
  <1>2. Underway' = Underway \/ Underway' = 0
    BY <1>1 DEF Underway
  <1>3. Underway' >= 0 /\ Underway' <= Underway /\ Underway' \in Int /\ Underway \in Int
    BY <1>2, PacedNumbers DEF Underway
  <1>4. sinceResumed = MaxCatchUp \/ lag + Underway' <= sinceResumed
    <2>1. sinceResumed = MaxCatchUp \/ lag + Underway <= sinceResumed
      BY DEF Paced
    <2>2. lag \in Int /\ sinceResumed \in Int /\ lag <= lag + (sinceResumed - sinceResumed)
      BY PacedNumbers
    <2> QED
      BY <1>3, <2>1, <2>2, StillBelow
  <1>5. Underway' <= sinceResumed
    BY <1>3, PacedNumbers DEF Paced
  <1> QED
    BY <1>1, <1>4, <1>5 DEF Paced

\* A forgotten anchor owes nothing (pause, reset, throttle)
LEMMA PacedForgotten ==
    ASSUME Paced, forgetAnchor, due' = due, pc' # "running"
    PROVE  Paced'
  BY PacedNumbers, ControllerAssumption
     DEF Paced, forgetAnchor, Underway, NoAnchor, Unpaced, MaxLag

\* A slice begins with what the clock has granted
LEMMA PacedSlice ==
    ASSUME Paced, BeginSlice
    PROVE  Paced'
  <1>1. pc' = "running" /\ sinceResumed' = sinceResumed /\ pc = "slice"
    BY DEF BeginSlice
  <1>2. Underway = 0
    BY <1>1 DEF Underway
  <1>3. sinceResumed = MaxCatchUp \/ lag <= sinceResumed
    BY <1>2, PacedNumbers DEF Paced
  <1>4. CASE throttledSnapshot
    <2>1. lag' = 0 /\ due' = clamped(IF lag = NoAnchor THEN 0 ELSE lag)
      BY <1>4 DEF BeginSlice
    <2>2. due' \in 0 .. MaxCatchUp /\ due' <= sinceResumed
      BY <1>3, <2>1, PacedNumbers DEF clamped
    <2>3. Underway' = due'
      BY <1>1, <2>2 DEF Underway, Unpaced
    <2> QED
      BY <1>1, <2>1, <2>2, <2>3, PacedNumbers DEF Paced
  <1>5. CASE ~throttledSnapshot
    <2>1. lag' = NoAnchor /\ due' = Unpaced
      BY <1>5 DEF BeginSlice
    <2>2. Underway' = 0
      BY <2>1 DEF Underway
    <2> QED
      BY <1>1, <2>1, <2>2, PacedNumbers DEF Paced
  <1> QED
    BY <1>4, <1>5

\* and what it did not run stays owed
LEMMA PacedEnd ==
    ASSUME Paced, NEW frame, SliceEnds(frame)
    PROVE  Paced'
  <1>1. PICK stop, executed :
          EndSlice(stop, executed, frame) /\ (executed = due \/ executed \in 0 .. due)
    BY DEF SliceEnds
  <1>2. /\ pc = "running" /\ due' = 0 /\ sinceResumed' = sinceResumed /\ pc' # "running"
        /\ lag' = IF due = Unpaced THEN NoAnchor ELSE Least(lag + due - executed, MaxLag)
    BY <1>1 DEF EndSlice
  <1>3. Underway' = 0
    BY <1>2 DEF Underway
  <1>4. CASE due = Unpaced
    BY <1>2, <1>3, <1>4, PacedNumbers DEF Paced
  <1>5. CASE due # Unpaced
    <2>1. Underway = due /\ due >= 0
      BY <1>2, <1>5, PacedNumbers DEF Underway
    <2>2. executed \in Int /\ executed >= 0 /\ executed <= due
      BY <1>1, <2>1, PacedNumbers
    <2>3. lag' = Least(lag + due - executed, MaxLag)
      BY <1>2, <1>5
    <2>4. lag' \in Int /\ lag' >= -1 /\ lag' <= MaxCatchUp + 1 /\ lag' <= lag + due
      BY <2>1, <2>2, <2>3, PacedNumbers DEF Least
    <2>5. sinceResumed = MaxCatchUp \/ lag' <= sinceResumed
      BY <2>1, <2>4, PacedNumbers DEF Paced
    <2> QED
      BY <1>2, <1>3, <2>4, <2>5, PacedNumbers DEF Paced
  <1> QED
    BY <1>4, <1>5

\* The clock runs in sleeps and slices only
LEMMA PacedElapse ==
    ASSUME Paced, Elapse
    PROVE  Paced'
  <1>1. /\ lag' = IF lag = NoAnchor THEN NoAnchor ELSE Least(lag + 1, MaxLag)
        /\ sinceResumed' = Least(sinceResumed + 1, MaxCatchUp)
        /\ due' = due /\ pc' = pc
    BY DEF Elapse, threadVars
  <1>2. Underway' = Underway /\ Underway \in Int /\ Underway >= 0
    BY <1>1, PacedNumbers DEF Underway
  <1>3. /\ sinceResumed' \in 0 .. MaxCatchUp /\ sinceResumed' >= sinceResumed
        /\ sinceResumed' = MaxCatchUp \/ sinceResumed' = sinceResumed + 1
    BY <1>1, PacedNumbers DEF Least
  <1>4. lag' \in NoAnchor .. MaxLag /\ lag' <= lag + 1 /\ lag' \in Int
    BY <1>1, PacedNumbers DEF Least
  <1>5. sinceResumed' = MaxCatchUp \/ lag' + Underway' <= sinceResumed'
    <2>1. sinceResumed = MaxCatchUp \/ lag + Underway <= sinceResumed
      BY DEF Paced
    <2>2. /\ lag \in Int /\ sinceResumed \in Int /\ MaxCatchUp \in Int
          /\ sinceResumed <= MaxCatchUp
      BY PacedNumbers
    <2>3. CASE sinceResumed = MaxCatchUp
      BY <1>3, <2>2, <2>3
    <2>4. CASE sinceResumed' = sinceResumed + 1 /\ lag + Underway <= sinceResumed
      <3>1. sinceResumed' \in Int /\ lag' <= lag + (sinceResumed' - sinceResumed)
        BY <1>4, <2>2, <2>4
      <3>2. Underway' \in Int /\ Underway' <= Underway /\ Underway \in Int
        BY <1>2
      <3>3. lag' \in Int /\ lag \in Int /\ sinceResumed \in Int
        BY <1>4, <2>2
      <3>4. lag + Underway <= sinceResumed
        BY <2>4
      <3> HIDE DEF Underway
      <3> QED
        BY ONLY <3>1, <3>2, <3>3, <3>4, StillBelow
    <2> QED
      BY <1>3, <2>1, <2>3, <2>4
  <1>6. Underway' <= sinceResumed'
    BY <1>2, <1>3, PacedNumbers DEF Paced
  <1> QED
    BY <1>1, <1>3, <1>4, <1>5, <1>6 DEF Paced

\* Every step keeps the pace
LEMMA PacedStep ==
    ASSUME Paced, [Next]_vars
    PROVE  Paced'
  <1>1. ASSUME UNCHANGED <<threadVars, pacing>> PROVE Paced'
    BY <1>1, PacedKept DEF threadVars
  <1>2. CASE toggleRunning \/ reset \/ toggleThrottled \/ useDevice \/ quit
    BY <1>1, <1>2 DEF toggleRunning, reset, toggleThrottled, useDevice, quit, User
  <1>3. CASE MainStep
    BY <1>1, <1>3 DEF MainStep, RunStatus, RunJob, RunApply, RunBlock, restart, joined, controllerVars
  <1>4. CASE SendByte
    BY <1>1, <1>4 DEF SendByte, GuestTransmits, controllerVars
  <1>5. CASE LoopStep
    <2>1. CASE CarryStart \/ CarryReset \/ CarrySetThrottled
      BY <2>1, PacedForgotten DEF CarryStart, CarryReset, CarrySetThrottled, Carry
    <2>2. CASE CarryPause \/ CarryDevice \/ CarryShutdown
      BY <2>2, PacedKept DEF CarryPause, CarryDevice, CarryShutdown, Carry, pacing
    <2>3. CASE Drain \/ TickPrinter \/ Idle \/ DispatchApply \/ PublishStatus
      BY <2>3, PacedKept DEF Drain, TickPrinter, Idle, DispatchApply, PublishStatus
    <2>4. CASE BeginSlice
      BY <2>4, PacedSlice
    <2> QED
      BY <1>5, <2>1, <2>2, <2>3, <2>4 DEF LoopStep
  <1>6. CASE Emulation
    BY <1>5, <1>6, PacedEnd DEF Emulation
  <1>7. CASE Clock
    BY <1>7, PacedElapse DEF Clock
  <1>8. CASE UNCHANGED vars
    BY <1>1, <1>8 DEF vars, controllerVars
  <1> QED
    BY <1>2, <1>3, <1>4, <1>6, <1>7, <1>8 DEF Next

(* A throttled slice never runs for longer than the host has, since the    *)
(* emulation was last started, reset or throttled, nor than the ceiling,   *)
(* whatever the ceiling is (Governor.clampedTargetCycles).                 *)
THEOREM PacedByTheClockHolds == Spec => []PacedByTheClock
  <1>1. Paced => PacedByTheClock
    BY PacedNumbers DEF Paced, Underway, PacedByTheClock
  <1>2. Paced /\ [Next]_vars => Paced'
    BY PacedStep
  <1> QED
    BY PacedInit, <1>1, <1>2, PTL DEF Spec

-----------------------------------------------------------------------------
(* The menu. EndsUp(q, now, then): a machine that runs or not as now says  *)
(* does so as then says once the commands of q are carried out. The menu   *)
(* shows modelRunning; between the two commands of a reset it is ahead of  *)
(* what was posted, and the machine would end up paused.                   *)
RunKinds == {"start", "pause", "reset"}

EndsUp(q, now, then) ==
    \/ then = now /\ \A n \in DOMAIN q : q[n] \notin RunKinds
    \/ \E n \in DOMAIN q :
          /\ q[n] \in RunKinds /\ then = (q[n] = "start")
          /\ \A k \in DOMAIN q : k > n => q[k] \notin RunKinds

Shows ==
    /\ mailbox \in Seq(Commands) /\ batch \in Seq(Commands)
    /\ running \in BOOLEAN /\ modelRunning \in BOOLEAN
    /\ pc \in {"commands", "ended"} \/ batch = <<>>
    /\ mainPc = "restarting" => modelRunning = TRUE
    /\ EndsUp(ToCarry, running, IF mainPc = "restarting" THEN FALSE ELSE modelRunning)
    /\ modelThrottled = throttledSnapshot

\* A command posted behind others decides, if it is a start, a pause or a reset
LEMMA EndsUpPosted ==
    ASSUME NEW S, NEW q \in Seq(S), NEW c \in S, NEW now, NEW then
    PROVE  /\ c \in RunKinds => EndsUp(Append(q, c), now, c = "start")
           /\ c \notin RunKinds /\ EndsUp(q, now, then) => EndsUp(Append(q, c), now, then)
  <1> DEFINE r == Append(q, c)
  <1>1. /\ Len(q) \in Nat /\ DOMAIN q = 1 .. Len(q) /\ DOMAIN r = 1 .. Len(q) + 1
        /\ r[Len(q) + 1] = c /\ \A n \in 1 .. Len(q) : r[n] = q[n]
    OBVIOUS
  <1> HIDE DEF r
  <1>2. /\ Len(q) + 1 \in DOMAIN r
        /\ \A n \in DOMAIN q : n \in DOMAIN r /\ r[n] = q[n] /\ n \in Int
        /\ \A n \in DOMAIN r : n \in DOMAIN q \/ n = Len(q) + 1
        /\ \A n \in DOMAIN r : ~(n > Len(q) + 1)
    BY <1>1
  <1>3. ASSUME c \in RunKinds PROVE EndsUp(r, now, c = "start")
    BY <1>1, <1>2, <1>3 DEF EndsUp
  <1>4. ASSUME c \notin RunKinds, EndsUp(q, now, then) PROVE EndsUp(r, now, then)
    <2>1. CASE then = now /\ \A n \in DOMAIN q : q[n] \notin RunKinds
      BY <1>1, <1>2, <1>4, <2>1 DEF EndsUp
    <2>2. CASE \E n \in DOMAIN q :
                 /\ q[n] \in RunKinds /\ then = (q[n] = "start")
                 /\ \A k \in DOMAIN q : k > n => q[k] \notin RunKinds
      BY <1>1, <1>2, <1>4, <2>2 DEF EndsUp
    <2> QED
      BY <1>4, <2>1, <2>2 DEF EndsUp
  <1> QED
    BY <1>3, <1>4 DEF r

\* The first one carried out leaves the decision to the rest
LEMMA EndsUpCarried ==
    ASSUME NEW S, NEW q \in Seq(S), q # <<>>, NEW now, NEW then, EndsUp(q, now, then)
    PROVE  /\ Head(q) \in RunKinds => EndsUp(Tail(q), Head(q) = "start", then)
           /\ Head(q) \notin RunKinds => EndsUp(Tail(q), now, then)
  <1> DEFINE r == Tail(q)
             c == Head(q)
  <1>1. /\ Len(q) \in Nat /\ Len(q) >= 1 /\ DOMAIN q = 1 .. Len(q)
        /\ Len(r) = Len(q) - 1 /\ DOMAIN r = 1 .. Len(q) - 1 /\ c = q[1]
        /\ \A n \in 1 .. Len(q) - 1 : r[n] = q[n + 1]
    OBVIOUS
  <1> HIDE DEF r, c
  <1>2. /\ 1 \in DOMAIN q
        /\ \A n \in DOMAIN r : n + 1 \in DOMAIN q /\ r[n] = q[n + 1] /\ n \in Int /\ n + 1 > 1
        /\ \A n \in DOMAIN q : n # 1 => n - 1 \in DOMAIN r /\ r[n - 1] = q[n] /\ n \in Int
    BY <1>1
  <1>3. CASE then = now /\ \A n \in DOMAIN q : q[n] \notin RunKinds
    BY <1>1, <1>2, <1>3 DEF EndsUp, r, c
  <1>4. ASSUME NEW n \in DOMAIN q, q[n] \in RunKinds, then = (q[n] = "start"),
               \A k \in DOMAIN q : k > n => q[k] \notin RunKinds
        PROVE  /\ c \in RunKinds => EndsUp(r, c = "start", then)
               /\ c \notin RunKinds => EndsUp(r, now, then)
    <2>1. CASE n = 1
      <3>1. \A k \in DOMAIN r : r[k] \notin RunKinds
        BY <1>2, <1>4, <2>1
      <3> QED
        BY <1>1, <1>4, <2>1, <3>1 DEF EndsUp
    <2>2. CASE n # 1
      <3>1. n - 1 \in DOMAIN r /\ r[n - 1] = q[n]
        BY <1>2, <2>2
      <3>2. \A k \in DOMAIN r : k > n - 1 => r[k] \notin RunKinds
        BY <1>1, <1>2, <1>4
      <3> QED
        BY <1>4, <3>1, <3>2 DEF EndsUp
    <2> QED
      BY <2>1, <2>2
  <1> QED
    BY <1>3, <1>4 DEF EndsUp, r, c

(* The queue of both: what is posted goes to its end, and is carried out   *)
(* from its beginning.                                                     *)
LEMMA PostedToCarry ==
    ASSUME Shows, NEW c \in Commands, Posted(c), batch' = batch
    PROVE  ToCarry' = Append(ToCarry, c) /\ ToCarry \in Seq(Commands)
           /\ mailbox' \in Seq(Commands) /\ batch' \in Seq(Commands)
  <1>1. mailbox \in Seq(Commands) /\ batch \in Seq(Commands) /\ mailbox' = Append(mailbox, c)
    BY DEF Shows, Posted
  <1> HIDE DEF Commands
  <1>2. batch \o Append(mailbox, c) = Append(batch \o mailbox, c)
    BY <1>1
  <1> QED
    BY <1>1, <1>2 DEF ToCarry

\* The thread carries out the first of the commands it drained
LEMMA CarriedToCarry ==
    ASSUME Shows, NEW c, Carry(c)
    PROVE  /\ ToCarry \in Seq(Commands) /\ ToCarry # <<>>
           /\ ToCarry' = Tail(ToCarry) /\ Head(ToCarry) = c
           /\ mailbox' \in Seq(Commands) /\ batch' \in Seq(Commands)
  <1>1. /\ mailbox \in Seq(Commands) /\ batch \in Seq(Commands) /\ batch # <<>>
        /\ mailbox' = mailbox /\ batch' = Tail(batch) /\ Head(batch) = c
    BY DEF Shows, Carry, mailVars
  <1> HIDE DEF Commands
  <1>2. /\ batch \o mailbox # <<>> /\ Head(batch \o mailbox) = Head(batch)
        /\ Tail(batch \o mailbox) = Tail(batch) \o mailbox
        /\ Tail(batch) \in Seq(Commands) /\ batch \o mailbox \in Seq(Commands)
    BY <1>1
  <1> QED
    BY <1>1, <1>2 DEF ToCarry

\* The menu is right at first
LEMMA ShowsInit == Init => Shows
  <1> SUFFICES ASSUME Init PROVE Shows
    OBVIOUS
  <1>1. /\ mailbox = <<"setThrottled", "start">> /\ batch = <<>> /\ running = FALSE
        /\ modelRunning = TRUE /\ mainPc = "idle" /\ modelThrottled = throttledSnapshot
    BY DEF Init
  <1>2. mailbox \in Seq(Commands) /\ batch \in Seq(Commands)
    BY <1>1 DEF Commands
  <1>3. ToCarry = mailbox
    BY <1>1, <1>2 DEF ToCarry
  <1>4. DOMAIN ToCarry = {1, 2} /\ ToCarry[2] = "start" /\ \A k \in {1, 2} : ~(k > 2)
    BY <1>1, <1>3
  <1>5. EndsUp(ToCarry, FALSE, TRUE)
    BY <1>4 DEF EndsUp, RunKinds
  <1> QED
    BY <1>1, <1>2, <1>5 DEF Shows

\* A post that does not start or stop leaves it right
LEMMA ShowsPosted ==
    ASSUME Shows, NEW c \in Commands \ RunKinds, Posted(c),
           UNCHANGED <<threadVars, runState, modelRunning>>,
           mainPc = "idle", mainPc' \in {"idle", "joining"},
           modelThrottled' = throttledSnapshot'
    PROVE  Shows'
  <1>1. ToCarry' = Append(ToCarry, c) /\ ToCarry \in Seq(Commands)
        /\ mailbox' \in Seq(Commands) /\ batch' \in Seq(Commands)
    BY PostedToCarry DEF threadVars
  <1> DEFINE v == IF mainPc = "restarting" THEN FALSE ELSE modelRunning
  <1>2. EndsUp(ToCarry, running, v)
    BY DEF Shows
  <1>3. EndsUp(ToCarry', running, v)
    BY <1>1, <1>2, EndsUpPosted
  <1> QED
    BY <1>1, <1>3 DEF Shows, threadVars, runState

\* The user's start, pause and reset change menu and mailbox together
LEMMA ShowsUser ==
    ASSUME Shows, toggleRunning \/ reset \/ restart
    PROVE  Shows'
  <1>1. CASE toggleRunning
    <2>1. mainPc = "idle" /\ UNCHANGED <<threadVars, runState, throttledSnapshot, modelThrottled, mainPc>>
      BY <1>1 DEF toggleRunning, User, Post
    <2> DEFINE c == IF modelRunning THEN "pause" ELSE "start"
    <2>2. c \in RunKinds /\ c \in Commands /\ (c = "start") = ~modelRunning
      BY DEF RunKinds, Commands, Shows
    <2>3. Posted(c) /\ modelRunning' = ~modelRunning /\ batch' = batch
      BY <1>1, <2>1 DEF toggleRunning, Post, threadVars
    <2> HIDE DEF c
    <2>4. ToCarry' = Append(ToCarry, c) /\ ToCarry \in Seq(Commands)
          /\ mailbox' \in Seq(Commands) /\ batch' \in Seq(Commands)
      BY <2>2, <2>3, PostedToCarry
    <2>5. EndsUp(ToCarry', running, ~modelRunning)
      BY <2>2, <2>4, EndsUpPosted
    <2> QED
      BY <2>1, <2>3, <2>4, <2>5 DEF Shows, threadVars, runState
  <1>2. CASE reset
    <2>1. /\ Posted("reset") /\ modelRunning' = TRUE /\ mainPc' = "restarting"
          /\ UNCHANGED <<threadVars, runState, throttledSnapshot, modelThrottled>>
      BY <1>2 DEF reset, User, Post
    <2>2. "reset" \in RunKinds /\ "reset" \in Commands /\ ("reset" = "start") = FALSE
      BY DEF RunKinds, Commands
    <2>3. ToCarry' = Append(ToCarry, "reset") /\ ToCarry \in Seq(Commands)
          /\ mailbox' \in Seq(Commands) /\ batch' \in Seq(Commands)
      BY <2>1, <2>2, PostedToCarry DEF threadVars
    <2>4. EndsUp(ToCarry', running, FALSE)
      BY <2>2, <2>3, EndsUpPosted
    <2> QED
      BY <2>1, <2>3, <2>4 DEF Shows, threadVars, runState
  <1>3. CASE restart
    <2>1. /\ Posted("start") /\ mainPc = "restarting" /\ mainPc' = "idle"
          /\ UNCHANGED <<threadVars, runState, throttledSnapshot, modelThrottled, modelRunning>>
      BY <1>3 DEF restart, Post
    <2>2. "start" \in RunKinds /\ "start" \in Commands /\ ("start" = "start") = TRUE
      BY DEF RunKinds, Commands
    <2>3. ToCarry' = Append(ToCarry, "start") /\ ToCarry \in Seq(Commands)
          /\ mailbox' \in Seq(Commands) /\ batch' \in Seq(Commands)
      BY <2>1, <2>2, PostedToCarry DEF threadVars
    <2>4. EndsUp(ToCarry', running, TRUE)
      BY <2>2, <2>3, EndsUpPosted
    <2> QED
      BY <2>1, <2>3, <2>4 DEF Shows, threadVars, runState
  <1> QED
    BY <1>1, <1>2, <1>3

\* What the thread carries out was announced
LEMMA ShowsCarried ==
    ASSUME Shows, UNCHANGED modelVars,
           \/ CarryStart \/ CarryPause \/ CarryReset \/ CarrySetThrottled
           \/ CarryDevice \/ CarryShutdown
    PROVE  Shows'
  <1> DEFINE v == IF mainPc = "restarting" THEN FALSE ELSE modelRunning
  <1>1. ASSUME NEW c, Carry(c), running' \in BOOLEAN, pc' \in {"commands", "ended"},
               IF c \in RunKinds THEN running' = (c = "start") ELSE running' = running
        PROVE  Shows'
    <2>1. /\ ToCarry \in Seq(Commands) /\ ToCarry # <<>>
          /\ ToCarry' = Tail(ToCarry) /\ Head(ToCarry) = c
          /\ mailbox' \in Seq(Commands) /\ batch' \in Seq(Commands)
      BY <1>1, CarriedToCarry
    <2>2. EndsUp(ToCarry, running, v)
      BY DEF Shows
    <2>3. EndsUp(ToCarry', running', v)
      BY <1>1, <2>1, <2>2, EndsUpCarried
    <2>4. throttledSnapshot' = throttledSnapshot
      BY <1>1 DEF Carry, mailVars
    <2> QED
      BY <1>1, <2>1, <2>3, <2>4 DEF Shows, modelVars
  <1>2. CASE CarryStart
    BY <1>1, <1>2 DEF CarryStart, RunKinds, Carry
  <1>3. CASE CarryPause
    BY <1>1, <1>3 DEF CarryPause, RunKinds, Carry
  <1>4. CASE CarryReset
    BY <1>1, <1>4 DEF CarryReset, RunKinds, Carry
  <1>5. CASE CarrySetThrottled
    BY <1>1, <1>5 DEF CarrySetThrottled, RunKinds, Carry, runState, Shows
  <1>6. CASE CarryDevice
    BY <1>1, <1>6 DEF CarryDevice, RunKinds, Carry, runState, Shows
  <1>7. CASE CarryShutdown
    BY <1>1, <1>7 DEF CarryShutdown, RunKinds, Carry, runState, Shows
  <1> QED
    BY <1>2, <1>3, <1>4, <1>5, <1>6, <1>7

\* Every step keeps it right
LEMMA ShowsStep ==
    ASSUME Shows, [Next]_vars
    PROVE  Shows'
  <1>0. /\ pc \in {"commands", "ended"} \/ batch = <<>>
        /\ modelThrottled = throttledSnapshot
    BY DEF Shows
  <1>1. ASSUME mailbox' = mailbox, throttledSnapshot' = throttledSnapshot,
               batch' = batch, running' = running,
               modelRunning' = modelRunning, modelThrottled' = modelThrottled,
               pc' = pc \/ batch = <<>>,
               mainPc' = "restarting" <=> mainPc = "restarting"
        PROVE  Shows'
    BY <1>1 DEF Shows, ToCarry
  <1>2. CASE toggleRunning \/ reset \/ restart
    BY <1>2, ShowsUser
  <1>3. CASE toggleThrottled
    <2>1. /\ Posted("setThrottled") /\ modelThrottled' = throttledSnapshot'
          /\ UNCHANGED <<threadVars, runState, modelRunning>>
          /\ mainPc = "idle" /\ mainPc' = "idle"
      BY <1>3 DEF toggleThrottled, PostThrottled, User
    <2>2. "setThrottled" \in Commands \ RunKinds
      BY DEF Commands, RunKinds
    <2> QED
      BY <2>1, <2>2, ShowsPosted
  <1>4. CASE useDevice
    <2>1. /\ Posted("device") /\ UNCHANGED <<throttledSnapshot, modelThrottled>>
          /\ UNCHANGED <<threadVars, runState, modelRunning>>
          /\ mainPc = "idle" /\ mainPc' = "idle"
      BY <1>4 DEF useDevice, Post, User
    <2>2. "device" \in Commands \ RunKinds
      BY DEF Commands, RunKinds
    <2> QED
      BY <1>0, <2>1, <2>2, ShowsPosted
  <1>5. CASE quit
    <2>1. /\ Posted("shutdown") /\ UNCHANGED <<throttledSnapshot, modelThrottled>>
          /\ UNCHANGED <<threadVars, runState, modelRunning>>
          /\ mainPc = "idle" /\ mainPc' = "joining"
      BY <1>5 DEF quit, Post, User
    <2>2. "shutdown" \in Commands \ RunKinds
      BY DEF Commands, RunKinds
    <2> QED
      BY <1>0, <2>1, <2>2, ShowsPosted
  <1>6. CASE RunStatus \/ RunJob \/ RunApply \/ joined
    BY <1>1, <1>6 DEF RunStatus, RunJob, RunApply, RunBlock, joined, mailVars, threadVars,
       runState, controllerVars
  <1>7. CASE SendByte
    BY <1>1, <1>7 DEF SendByte, GuestTransmits, controllerVars, mailVars, threadVars, runState, modelVars
  <1>8. CASE Clock
    BY <1>1, <1>8 DEF Clock, Elapse, mailVars, threadVars, runState, modelVars
  <1>9. CASE Emulation
    <2>1. UNCHANGED modelVars
      BY <1>9 DEF Emulation
    <2>2. CASE \/ CarryStart \/ CarryPause \/ CarryReset \/ CarrySetThrottled
               \/ CarryDevice \/ CarryShutdown
      BY <2>1, <2>2, ShowsCarried
    <2>3. CASE Drain
      <3>1. /\ batch = <<>> /\ mailbox \in Seq(Commands)
            /\ batch' = mailbox /\ mailbox' = <<>> /\ pc' = "commands"
            /\ UNCHANGED <<throttledSnapshot, running>>
        BY <2>3 DEF Drain, Shows, runState
      <3> HIDE DEF Commands
      <3>2. <<>> \o mailbox = mailbox \o <<>> /\ <<>> \in Seq(Commands)
        BY <3>1
      <3>3. ToCarry' = ToCarry
        BY <3>1, <3>2 DEF ToCarry
      <3> QED
        BY <2>1, <3>1, <3>2, <3>3 DEF Shows, modelVars
    <2>4. CASE TickPrinter \/ Idle \/ BeginSlice \/ DispatchApply \/ PublishStatus
      <3>1. batch = <<>>
        BY <1>0, <2>4 DEF TickPrinter, Idle, BeginSlice, DispatchApply, PublishStatus
      <3> QED
        BY <1>1, <2>1, <2>4, <3>1 DEF TickPrinter, Idle, BeginSlice, DispatchApply,
           PublishStatus, mailVars, runState, modelVars
    <2>5. ASSUME NEW f, SliceEnds(f) PROVE Shows'
      <3>1. batch = <<>> /\ UNCHANGED <<mailVars, batch, running>>
        BY <1>0, <2>5 DEF SliceEnds, EndSlice
      <3> QED
        BY <1>1, <2>1, <3>1 DEF mailVars, modelVars
    <2> QED
      BY <1>9, <2>2, <2>3, <2>4, <2>5 DEF Emulation, LoopStep
  <1>10. CASE UNCHANGED vars
    BY <1>1, <1>10 DEF vars, controllerVars, mailVars, threadVars, runState, modelVars
  <1> QED
    BY <1>2, <1>3, <1>4, <1>5, <1>6, <1>7, <1>8, <1>9, <1>10 DEF Next, MainStep

\* which is what the menu shows
LEMMA ShowsIsTrue == Shows => MenuIsTrue
  <1> SUFFICES ASSUME Shows, mainPc # "restarting" PROVE MenuIsTrue
    BY DEF MenuIsTrue
  <1>1. /\ EndsUp(ToCarry, running, modelRunning) /\ modelThrottled = throttledSnapshot
        /\ mailbox \in Seq(Commands) /\ batch \in Seq(Commands)
    BY DEF Shows
  <1>2. \A n \in DOMAIN ToCarry : n \in Int
    <2> HIDE DEF Commands
    <2> QED
      BY <1>1 DEF ToCarry
  <1>3. CASE modelRunning = running /\ \A n \in DOMAIN ToCarry : ToCarry[n] \notin RunKinds
    BY <1>1, <1>3 DEF RunCommands, MenuIsTrue, RunKinds
  <1>4. ASSUME NEW n \in DOMAIN ToCarry, ToCarry[n] \in RunKinds,
               modelRunning = (ToCarry[n] = "start"),
               \A k \in DOMAIN ToCarry : k > n => ToCarry[k] \notin RunKinds
        PROVE  MenuIsTrue
    <2>1. n \in RunCommands /\ \A k \in RunCommands : k \in Int /\ n >= k
      BY <1>2, <1>4 DEF RunCommands, RunKinds
    <2>2. Max(RunCommands) = n
      <3> HIDE DEF RunCommands
      <3>1. \A m \in RunCommands : (\A k \in RunCommands : m >= k) => m = n
        BY <2>1
      <3> QED
        BY <2>1, <3>1 DEF Max
    <2>3. RunCommands # {}
      BY <2>1
    <2> QED
      BY <1>1, <1>4, <2>2, <2>3 DEF MenuIsTrue
  <1> QED
    BY <1>1, <1>3, <1>4 DEF EndsUp

(* Whatever is posted, however the thread drains it, and between the two   *)
(* commands of a reset too: once everything is carried out the machine     *)
(* runs and is throttled as the menu shows it.                             *)
THEOREM MenuIsTrueHolds == Spec => []MenuIsTrue
  <1>1. Shows /\ [Next]_vars => Shows'
    BY ShowsStep
  <1> QED
    BY ShowsInit, ShowsIsTrue, <1>1, PTL DEF Spec
=============================================================================
