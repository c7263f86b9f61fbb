----------------------------- MODULE InputCaptureProofs -----------------------------
(***************************************************************************)
(* The host's keys and button, for every set of keys and of shortcuts: the *)
(* guest's modifiers are the user's, and nothing stays pressed.            *)
(***************************************************************************)
EXTENDS InputCapture, TLAPS

(* What the class believes the guest has down, against what it has posted. *)
(* Without the focus it believes in no modifier, and with it in those the  *)
(* user holds, if none was on when the focus came.                         *)
ModifiersKnown ==
    /\ modifierDown = down \cap Modifiers
    /\ ~focused => previousModifierFlags = {} /\ modifierDown = {}
    /\ focused /\ clean => previousModifierFlags = Flags(held) /\ modifierDown = Flags(held)

(* A key posted and not yet released is held and remembered as forwarded,  *)
(* unless it went up outside the window.                                   *)
KeysKnown == down \cap Letters \subseteq (held \cap forwardedDownKeycaps) \cup missed

(* The button is posted only while the pointer is captured.                *)
ButtonKnown ==
    /\ mouseCaptured \in BOOLEAN /\ buttonDown \in BOOLEAN /\ postedButton \in BOOLEAN
    /\ postedButton => mouseCaptured /\ buttonDown /\ buttonHeld /\ focused

Known == ModifiersKnown /\ KeysKnown /\ ButtonKnown

\* A letter is no modifier
LEMMA KeysAreNotModifiers == Letters \cap Modifiers = {}
  BY KeysAssumption DEF Modifiers

\* Nothing is held at first
LEMMA KnownInit == Init => Known
  BY DEF Init, Known, ModifiersKnown, KeysKnown, ButtonKnown, Flags

\* A letter goes down or up (keyDown, keyUp)
LEMMA LetterKeeps ==
    ASSUME Known, NEW k \in Letters, keyDown(k) \/ keyUp(k)
    PROVE  Known'
  <1>1. /\ UNCHANGED <<buttonHeld, focused, previousModifierFlags, modifierDown, clean>>
        /\ UNCHANGED <<mouseCaptured, buttonDown, postedButton>>
        /\ k \notin Modifiers
        /\ held' = held \cup {k} \/ held' = held \ {k}
        /\ down' = down \cup {k} \/ down' = down \ {k} \/ down' = down
    BY KeysAreNotModifiers DEF keyDown, keyUp, buttonVars
  <1>2. Flags(held') = Flags(held) /\ down' \cap Modifiers = down \cap Modifiers
    BY <1>1 DEF Flags
  <1>3. ModifiersKnown'
    BY <1>1, <1>2 DEF Known, ModifiersKnown
  <1>4. ButtonKnown'
    BY <1>1 DEF Known, ButtonKnown
  <1>5. KeysKnown'
    <2>1. CASE keyDown(k)
      <3>1. held' = held \cup {k}
        BY <2>1 DEF keyDown
      <3>2. \/ /\ forwardedDownKeycaps' = forwardedDownKeycaps \cup {k}
               /\ down' = down \cup {k} /\ missed' = missed \ {k}
            \/ UNCHANGED <<forwardedDownKeycaps, down, missed>>
        BY <2>1 DEF keyDown
      <3> QED
        BY <3>1, <3>2 DEF Known, KeysKnown
    <2>2. CASE keyUp(k) /\ focused
      <3>1. /\ held' = held \ {k} /\ forwardedDownKeycaps' = forwardedDownKeycaps \ {k}
            /\ UNCHANGED missed
            /\ down' = IF shouldForwardKeyUp(k) THEN down \ {k} ELSE down
        BY <2>2 DEF keyUp
      <3>2. k \in forwardedDownKeycaps => down' = down \ {k}
        BY <3>1 DEF shouldForwardKeyUp
      <3> QED
        BY <3>1, <3>2 DEF Known, KeysKnown
    <2>3. CASE keyUp(k) /\ ~focused
      BY <2>3 DEF keyUp, Known, KeysKnown
    <2> QED
      BY <2>1, <2>2, <2>3
  <1> QED
    BY <1>3, <1>4, <1>5 DEF Known

(* One bit of the flags has changed: the comparison finds it.              *)
LEMMA FlagsFollow ==
    ASSUME NEW m \in Modifiers, NEW current, handleFlagsChanged(m, current)
    PROVE  /\ previousModifierFlags' = current
           /\ down' \in {down, down \cup {m}, down \ {m}}
           /\ modifierDown = down \cap Modifiers => modifierDown' = down' \cap Modifiers
           /\ (\A b \in Modifiers : (b \in previousModifierFlags) # (b \in current) <=> b = m)
                => modifierDown' = IF m \in current THEN modifierDown \cup {m} ELSE modifierDown \ {m}
  <1> DEFINE changed == {n \in DOMAIN Tracked :
                           (Tracked[n] \in previousModifierFlags) # (Tracked[n] \in current)}
             On(set) == IF changed = {} THEN set
                        ELSE IF Tracked[Max(changed)] \in current THEN set \cup {m} ELSE set \ {m}
  <1>1. /\ modifierDown' = On(modifierDown) /\ down' = On(down)
        /\ previousModifierFlags' = current
    BY DEF handleFlagsChanged
  <1>2. ASSUME \A b \in Modifiers : (b \in previousModifierFlags) # (b \in current) <=> b = m
        PROVE  On(modifierDown) = IF m \in current THEN modifierDown \cup {m} ELSE modifierDown \ {m}
    <2>1. DOMAIN Tracked = 1 .. 3 /\ Tracked[1] = "shift" /\ Tracked[2] = "command" /\ Tracked[3] = "lock"
      BY DEF Tracked
    <2>2. PICK n \in 1 .. 3 : Tracked[n] = m
      BY <2>1 DEF Modifiers
    <2>3. \A i \in 1 .. 3 : Tracked[i] \in Modifiers /\ (i # n => Tracked[i] # m)
      BY <2>1, <2>2 DEF Modifiers
    <2>4. changed = {n}
      BY <1>2, <2>1, <2>2, <2>3
    <2> HIDE DEF changed
    <2>5. Max(changed) = n
      BY <2>4 DEF Max
    <2> QED
      BY <2>2, <2>4, <2>5
  <1> HIDE DEF changed
  <1> QED
    BY <1>1, <1>2

\* A modifier changes (handleFlagsChanged)
LEMMA ModifierKeeps ==
    ASSUME Known, NEW m \in Modifiers, ModifierChanges(m)
    PROVE  Known'
  <1>1. /\ held' = IF m \in held THEN held \ {m} ELSE held \cup {m}
        /\ UNCHANGED <<buttonHeld, focused, forwardedDownKeycaps, clean, missed>>
        /\ UNCHANGED <<mouseCaptured, buttonDown, postedButton>>
    BY DEF ModifierChanges, buttonVars
  <1>2. m \notin Letters
    BY KeysAreNotModifiers
  <1>3. ButtonKnown'
    BY <1>1 DEF Known, ButtonKnown
  <1>4. CASE focused
    <2>1. handleFlagsChanged(m, Flags(held'))
      BY <1>4 DEF ModifierChanges
    <2>2. down' \cap Letters = down \cap Letters /\ held' \cap Letters = held \cap Letters
      BY <1>1, <1>2, <2>1, FlagsFollow
    <2>3. KeysKnown'
      BY <1>1, <2>2 DEF Known, KeysKnown
    <2>4. modifierDown' = down' \cap Modifiers /\ previousModifierFlags' = Flags(held')
      BY <2>1, FlagsFollow DEF Known, ModifiersKnown
    <2>5. ASSUME clean PROVE modifierDown' = Flags(held')
      <3>1. \A b \in Modifiers : (b \in previousModifierFlags) # (b \in Flags(held')) <=> b = m
        BY <1>1, <1>4, <2>5 DEF Known, ModifiersKnown, Flags
      <3>2. modifierDown' = IF m \in Flags(held') THEN modifierDown \cup {m} ELSE modifierDown \ {m}
        BY <2>1, <3>1, FlagsFollow
      <3> QED
        BY <1>1, <1>4, <2>5, <3>2 DEF Known, ModifiersKnown, Flags
    <2>6. ModifiersKnown'
      BY <1>1, <1>4, <2>4, <2>5 DEF ModifiersKnown
    <2> QED
      BY <1>3, <2>3, <2>6 DEF Known
  <1>5. CASE ~focused
    <2>1. UNCHANGED <<previousModifierFlags, modifierDown, down>>
      BY <1>5 DEF ModifierChanges
    <2>2. held' \cap Letters = held \cap Letters
      BY <1>1, <1>2
    <2> QED
      BY <1>1, <1>3, <1>5, <2>1, <2>2 DEF Known, ModifiersKnown, KeysKnown
  <1> QED
    BY <1>4, <1>5

\* The button, and the shortcut that releases the pointer
LEMMA ButtonKeeps ==
    ASSUME Known, MouseDown \/ MouseUp \/ CommandEscape
    PROVE  Known'
  <1>1. UNCHANGED <<held, focused, keyVars, clean, missed>>
    BY DEF MouseDown, MouseUp, CommandEscape, hostVars
  <1>2. ModifiersKnown' /\ KeysKnown'
    BY <1>1 DEF keyVars, Known, ModifiersKnown, KeysKnown, Flags
  <1>3. ButtonKnown'
    <2>1. CASE MouseDown
      BY <2>1 DEF MouseDown, ButtonKnown
    <2>2. CASE MouseUp
      BY <2>2 DEF MouseUp, Known, ButtonKnown
    <2>3. CASE CommandEscape
      <3>1. ~postedButton'
        BY <2>3 DEF CommandEscape, releaseCapture, Known, ButtonKnown
      <3>2. mouseCaptured' \in BOOLEAN /\ buttonDown' \in BOOLEAN /\ postedButton' \in BOOLEAN
        BY <2>3 DEF CommandEscape, releaseCapture
      <3> QED
        BY <3>1, <3>2 DEF ButtonKnown
    <2> QED
      BY <2>1, <2>2, <2>3
  <1> QED
    BY <1>2, <1>3 DEF Known

\* The window loses or gets the focus
LEMMA FocusKeeps ==
    ASSUME Known, didResignKey \/ FocusGained
    PROVE  Known'
  <1>1. CASE didResignKey
    <2>1. /\ focused' = FALSE /\ UNCHANGED <<held, buttonHeld, forwardedDownKeycaps, clean, missed>>
          /\ down' = down \ modifierDown /\ modifierDown' = {} /\ previousModifierFlags' = {}
          /\ releaseCapture
      BY <1>1 DEF didResignKey, resyncModifiers
    <2>2. ModifiersKnown'
      BY <2>1 DEF Known, ModifiersKnown
    <2>3. KeysKnown'
      BY <2>1 DEF Known, KeysKnown
    <2>4. ButtonKnown'
      <3>1. ~postedButton'
        BY <2>1 DEF releaseCapture, Known, ButtonKnown
      <3>2. mouseCaptured' \in BOOLEAN /\ buttonDown' \in BOOLEAN /\ postedButton' \in BOOLEAN
        BY <2>1 DEF releaseCapture
      <3> QED
        BY <3>1, <3>2 DEF ButtonKnown
    <2> QED
      BY <2>2, <2>3, <2>4 DEF Known
  <1>2. CASE FocusGained
    BY <1>2 DEF FocusGained, keyVars, buttonVars, Known, ModifiersKnown, KeysKnown, ButtonKnown, Flags
  <1> QED
    BY <1>1, <1>2

\* Every step keeps what the class knows true
LEMMA KnownStep == Known /\ [Next]_vars => Known'
  <1> SUFFICES ASSUME Known, [Next]_vars PROVE Known'
    OBVIOUS
  <1>1. CASE UNCHANGED vars
    BY <1>1 DEF vars, hostVars, keyVars, buttonVars, Known, ModifiersKnown, KeysKnown, ButtonKnown, Flags
  <1> QED
    BY <1>1, LetterKeeps, ModifierKeeps, ButtonKeeps, FocusKeeps DEF Next

(* The modifiers the guest takes for held are those the user holds, as     *)
(* long as none was on when the window got the focus, and none without the *)
(* focus: for every set of keys (handleFlagsChanged, resyncModifiers).     *)
THEOREM ModifiersFollowHolds == Spec => []ModifiersFollow
  <1>1. Known => ModifiersFollow
    BY DEF Known, ModifiersKnown, ModifiersFollow
  <1> QED
    BY <1>1, KnownInit, KnownStep, PTL DEF Spec

(* A key posted is held, or went up where no event reaches this class; the *)
(* button posted is held in a window that has the focus: whatever menu     *)
(* shortcuts are reserved (shouldForwardKeyUp, CaptureState.release).      *)
THEOREM NothingStaysPressedHolds == Spec => []NothingStaysPressed
  <1>1. Known => NothingStaysPressed
    BY DEF Known, KeysKnown, ButtonKnown, NothingStaysPressed
  <1> QED
    BY <1>1, KnownInit, KnownStep, PTL DEF Spec
=============================================================================
