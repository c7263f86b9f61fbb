------------------------------- MODULE InputCapture -------------------------------
(***************************************************************************)
(* Keyboard and mouse button of the host, and what is posted of them       *)
(* (LisaApp/Sources/InputCapture.swift). The host is not part of the       *)
(* repository: it delivers a key, a change of the modifiers or a button to *)
(* this class while the window has the focus, and nothing otherwise.       *)
(*                                                                         *)
(* A key is identified with its keycap. Left out: the motion of the        *)
(* pointer, repeats (which are not forwarded), Option (as Shift, but for   *)
(* the limitation the code names of its two keys), and stop().             *)
(***************************************************************************)
EXTENDS Sequences, FiniteSetsExt

CONSTANTS
    Letters,   \* the keys that are not modifiers
    Reserved   \* reservedMenuShortcutKeyCodes

ASSUME KeysAssumption ==
    /\ Reserved \subseteq Letters
    /\ Letters \cap {"shift", "command", "lock"} = {}

(* trackedModifierFlags, in the order in which they are compared.          *)
Tracked   == <<"shift", "command", "lock">>
Modifiers == {"shift", "command", "lock"}

VARIABLES
    held,         \* the keys the user holds, and the lock while it is on
    buttonHeld,   \* the mouse button
    focused,      \* the window is the key window
    previousModifierFlags,
    modifierDown,           \* modifierKeycapTracker.down
    forwardedDownKeycaps,
    mouseCaptured, buttonDown,   \* captureState
    down,         \* the keycaps whose last post was a keyDown
    postedButton, \* the last post of the button
    clean,        \* history: no modifier was on when the window got the focus
    missed        \* history: posted keys that went up outside the window

hostVars   == <<held, buttonHeld, focused>>
keyVars    == <<previousModifierFlags, modifierDown, forwardedDownKeycaps, down>>
buttonVars == <<mouseCaptured, buttonDown, postedButton>>
vars       == <<hostVars, keyVars, buttonVars, clean, missed>>

Flags(keys) == keys \cap Modifiers

-----------------------------------------------------------------------------
(* Keys that are not modifiers.                                            *)
isReservedMenuShortcut(k) ==
    k \in Reserved /\ Flags(held) \ {"lock"} = {"command"}

(* A mutated form: each event is judged on its own.                        *)
forwardUnlessReserved(k) == ~isReservedMenuShortcut(k)

shouldForwardKeyUp(k) == k \in forwardedDownKeycaps \/ ~isReservedMenuShortcut(k)

keyDown(k) ==
    /\ k \in Letters \ held
    /\ held' = held \cup {k}
    /\ IF focused /\ ~isReservedMenuShortcut(k)
         THEN /\ forwardedDownKeycaps' = forwardedDownKeycaps \cup {k}
              /\ down' = down \cup {k}
              /\ missed' = missed \ {k}
         ELSE UNCHANGED <<forwardedDownKeycaps, down, missed>>
    /\ UNCHANGED <<buttonHeld, focused, previousModifierFlags, modifierDown, buttonVars, clean>>

keyUp(k) ==
    /\ k \in Letters \cap held
    /\ held' = held \ {k}
    /\ IF focused
         THEN /\ forwardedDownKeycaps' = forwardedDownKeycaps \ {k}
              /\ down' = IF shouldForwardKeyUp(k) THEN down \ {k} ELSE down
              /\ UNCHANGED missed
         ELSE /\ missed' = missed \cup ({k} \cap down)
              /\ UNCHANGED <<forwardedDownKeycaps, down>>
    /\ UNCHANGED <<buttonHeld, focused, previousModifierFlags, modifierDown, buttonVars, clean>>

-----------------------------------------------------------------------------
(* Modifiers. The bits of the event are compared with those of the last    *)
(* one; for each that differs the keycap of the key that changed is posted *)
(* with the bit's new value, so that the last of them decides.             *)
handleFlagsChanged(m, current) ==
    LET changed == {n \in DOMAIN Tracked :
                       (Tracked[n] \in previousModifierFlags) # (Tracked[n] \in current)}
        On(set) == IF changed = {} THEN set
                   ELSE IF Tracked[Max(changed)] \in current THEN set \cup {m} ELSE set \ {m}
    IN  /\ modifierDown' = On(modifierDown)
        /\ down' = On(down)
        /\ previousModifierFlags' = current

ModifierChanges(m) ==
    /\ held' = IF m \in held THEN held \ {m} ELSE held \cup {m}
    /\ IF focused THEN handleFlagsChanged(m, Flags(held'))
                  ELSE UNCHANGED <<previousModifierFlags, modifierDown, down>>
    /\ UNCHANGED <<buttonHeld, focused, forwardedDownKeycaps, buttonVars, clean, missed>>

(* A mutated form: the old flags are kept.                                 *)
resyncKeepingFlags ==
    /\ down' = down \ modifierDown
    /\ modifierDown' = {}
    /\ UNCHANGED previousModifierFlags

resyncModifiers ==
    /\ down' = down \ modifierDown
    /\ modifierDown' = {}
    /\ previousModifierFlags' = {}

-----------------------------------------------------------------------------
(* The pointer.                                                            *)
MouseDown ==
    /\ focused /\ ~buttonHeld
    /\ buttonHeld' = TRUE
    /\ mouseCaptured' = TRUE /\ buttonDown' = TRUE /\ postedButton' = TRUE
    /\ UNCHANGED <<held, focused, keyVars, clean, missed>>

MouseUp ==
    /\ buttonHeld
    /\ buttonHeld' = FALSE
    /\ IF mouseCaptured /\ buttonDown
         THEN buttonDown' = FALSE /\ postedButton' = FALSE
         ELSE UNCHANGED <<buttonDown, postedButton>>
    /\ UNCHANGED <<held, focused, mouseCaptured, keyVars, clean, missed>>

releaseCapture ==
    /\ mouseCaptured' = FALSE
    /\ buttonDown' = (buttonDown /\ ~mouseCaptured)
    /\ postedButton' = (postedButton /\ ~(mouseCaptured /\ buttonDown))

CommandEscape ==
    /\ focused /\ "command" \in held
    /\ releaseCapture
    /\ UNCHANGED <<hostVars, keyVars, clean, missed>>

-----------------------------------------------------------------------------
didResignKey ==
    /\ focused
    /\ focused' = FALSE
    /\ releaseCapture
    /\ resyncModifiers
    /\ UNCHANGED <<held, buttonHeld, forwardedDownKeycaps, clean, missed>>

FocusGained ==
    /\ ~focused
    /\ focused' = TRUE
    /\ clean' = (Flags(held) = {})
    /\ UNCHANGED <<held, buttonHeld, keyVars, buttonVars, missed>>

Init ==
    /\ held = {} /\ buttonHeld = FALSE /\ focused = TRUE
    /\ previousModifierFlags = {} /\ modifierDown = {} /\ forwardedDownKeycaps = {}
    /\ mouseCaptured = FALSE /\ buttonDown = FALSE
    /\ down = {} /\ postedButton = FALSE
    /\ clean = TRUE /\ missed = {}

Next ==
    \/ \E k \in Letters : keyDown(k) \/ keyUp(k)
    \/ \E m \in Modifiers : ModifierChanges(m)
    \/ MouseDown \/ MouseUp \/ CommandEscape
    \/ didResignKey \/ FocusGained

(* No fairness: the user need do nothing, and nothing else happens.        *)
Spec == Init /\ [][Next]_vars

-----------------------------------------------------------------------------
(* The modifiers the guest takes for held are those the user holds, as     *)
(* long as none was on when the window got the focus; without the focus    *)
(* there are none ("stuck Command after Command-Tab", resyncModifiers).    *)
ModifiersFollow ==
    IF focused THEN clean => down \cap Modifiers = Flags(held)
               ELSE down \cap Modifiers = {}

(* A key posted is held, or went up where no event reaches this class; the *)
(* button posted is held in a window that has the focus: menu shortcuts,   *)
(* the release of the pointer and a change of the focus strand none of     *)
(* them (shouldForwardKeyUp, CaptureState.release).                        *)
NothingStaysPressed ==
    /\ down \cap Letters \subseteq held \cup missed
    /\ postedButton => buttonHeld /\ focused
=============================================================================
