---------------------------- MODULE Ps2Keyboard -----------------------------
(***************************************************************************)
(* The PS/2 keyboard driver (drivers/keyboard.rs) with the i8042           *)
(* controller as the driver uses it.  The user works the keys at any time  *)
(* after the ports were flushed; the driver initializes the controller, is *)
(* polled for keys, and hands the controller over to the operating system. *)
(*                                                                         *)
(* A byte is the set of the numbers of its one bits: the same byte is a    *)
(* scancode to process_scancode and a configuration to the controller.     *)
(***************************************************************************)
EXTENDS Integers, Sequences

CONSTANTS
  Scancodes,   \* key -> its code, a number below 128
  ExtendedKeys,\* the keys whose codes follow the prefix 0xE0
  Letters,     \* keys that caps lock and control apply to
  Symbols,     \* other keys that shift applies to
  Config0,     \* the configuration byte at power-on
  MaxMakes,    \* bound: key presses and repeats
  MaxOut       \* bound: bytes waiting before the keyboard sends no more

VARIABLES
  out,          \* the bytes waiting at the data port: [byte, from]
  config,       \* the controller's configuration byte
  held,         \* the keys that are down
  lock,         \* the caps lock state the user asked for
  typed,        \* the strokes the user made
  makes,        \* number of presses and repeats so far
  step,         \* what the driver does next
  initialized,
  extended,
  modifiers,
  read,         \* the strokes try_read_key returned
  disturbed     \* the driver took a byte of a device for an answer

user == <<held, lock, typed, makes>>

decoder == <<extended, modifiers, read>>

ps2Vars == <<out, config, user, step, initialized, decoder, disturbed>>

Byte(n) == {i \in 0..7 : (n \div 2^i) % 2 = 1}

KB_INT == 0

AUX_INT == 1

KB_DISABLE == 4

AUX_DISABLE == 5

TRANSLATION == 6

RELEASE == 7

EXTENDED_PREFIX == Byte(224)

ACK == Byte(250)

Ps2Keys == DOMAIN Scancodes

\* The roles of the codes that process_scancode treats as modifiers.
ShiftCodes == {42, 54}

CtrlCode == 29

AltCode == 56

CapsCode == 58

----------------------------------------------------------------------------
(* What a key stroke means: scancode_to_efi_normal, _extended.             *)

\* A stroke names the key and the form the modifiers give its character.
StrokeOf(k, m) ==
  [key |-> k,
   form |-> CASE k \in Letters /\ m.ctrl -> "control"
              [] k \in Letters /\ ~m.ctrl -> IF m.shift # m.caps_lock THEN "upper" ELSE "lower"
              [] k \in Symbols -> IF m.shift THEN "upper" ELSE "lower"
              [] OTHER -> "plain"]

IsModifier(code, ext) ==
  \/ code \in {CtrlCode, AltCode}
  \/ ~ext /\ code \in ShiftCodes \cup {CapsCode}

KeysWith(code, ext) ==
  {k \in Ps2Keys : Scancodes[k] = code /\ (k \in ExtendedKeys) = ext}

----------------------------------------------------------------------------
(* The user and the controller.                                            *)

Down(codes) == {k \in held : Scancodes[k] \in codes} # {}

\* The modifiers as the user sees them.
Intended ==
  [shift |-> Down(ShiftCodes), ctrl |-> Down({CtrlCode}), alt |-> Down({AltCode}),
   caps_lock |-> lock]

Send(k, flag) ==
  LET code == [byte |-> Byte(Scancodes[k]) \cup flag, from |-> "keyboard"]
      prefix == [byte |-> EXTENDED_PREFIX, from |-> "keyboard"]
  IN  out' = out \o (IF k \in ExtendedKeys THEN <<prefix, code>> ELSE <<code>>)

\* The keyboard sends while its port is enabled and its buffer has room.  What
\* it sends after the handover is not the driver's to read.
PortIsOpen == step \notin {"init", "os", "failed"} /\ KB_DISABLE \notin config /\ Len(out) < MaxOut

\* A press, or the repeat of a key that is held.
Make(k) ==
  /\ PortIsOpen /\ makes < MaxMakes
  /\ makes' = makes + 1
  /\ Send(k, {})
  /\ held' = held \cup {k}
  /\ lock' = (lock # (Scancodes[k] = CapsCode))
  /\ typed' = IF IsModifier(Scancodes[k], k \in ExtendedKeys) THEN typed
              ELSE Append(typed, StrokeOf(k, Intended))
  /\ UNCHANGED <<config, step, initialized, decoder, disturbed>>

Break(k) ==
  /\ PortIsOpen /\ k \in held
  /\ Send(k, {RELEASE})
  /\ held' = held \ {k}
  /\ UNCHANGED <<config, lock, typed, makes, step, initialized, decoder, disturbed>>

\* A byte of the mouse, while its port is enabled.
MouseMoves ==
  /\ step \notin {"init", "failed", "os"} /\ AUX_DISABLE \notin config
  /\ \A i \in DOMAIN out : out[i].from # "mouse"
  /\ out' = Append(out, [byte |-> Byte(8), from |-> "mouse"])
  /\ UNCHANGED <<config, user, step, initialized, decoder, disturbed>>

----------------------------------------------------------------------------
(* The driver.                                                             *)

Ps2Init ==
  /\ out \in {<<>>, <<[byte |-> Byte(30), from |-> "keyboard"]>>}
  /\ config = Config0
  /\ held = {} /\ lock = FALSE /\ typed = <<>> /\ makes = 0
  /\ step = "init"
  /\ initialized = FALSE
  /\ extended = FALSE
  /\ modifiers = [shift |-> FALSE, ctrl |-> FALSE, alt |-> FALSE, caps_lock |-> FALSE]
  /\ read = <<>>
  /\ disturbed = FALSE

\* There is no controller, or it does not take a command in time, answer in
\* time, or pass its tests: init and cleanup return where they are.
GiveUp ==
  /\ step \in {"init", "configure", "write", "handover"}
  /\ step' = IF step = "handover" THEN "failed" ELSE "idle"
  /\ out' \in IF step = "init" THEN {out, <<>>} ELSE {out}
  /\ config' \in IF step = "init" THEN {config, config \cup {KB_DISABLE, AUX_DISABLE}} ELSE {config}
  /\ UNCHANGED <<user, initialized, decoder, disturbed>>

\* Both ports are disabled, flushed and tested, and the keyboard's enabled.
TestPorts ==
  /\ step = "init"
  /\ out' = <<>>
  /\ config' = (config \cup {AUX_DISABLE}) \ {KB_DISABLE}
  /\ step' = "configure"
  /\ UNCHANGED <<user, initialized, decoder, disturbed>>

\* The answer to READ_CONFIG comes behind the bytes already waiting.
ReadConfig(to) ==
  /\ out' = Append(out, [byte |-> config, from |-> "controller"])
  /\ step' = to
  /\ UNCHANGED <<config, user, initialized, decoder, disturbed>>

\* Whatever byte is first at the data port is changed and written back.
WriteConfig(to, set, clear) ==
  /\ config' = (Head(out).byte \cup set) \ clear
  /\ out' = Tail(out)
  /\ disturbed' = (disturbed \/ Head(out).from # "controller")
  /\ step' = to
  /\ UNCHANGED <<user, initialized, decoder>>

ReadInitConfig == step = "configure" /\ ReadConfig("write")

WriteInitConfig == step = "write" /\ WriteConfig("enable", {TRANSLATION}, {KB_INT, AUX_INT})

\* The keyboard acknowledges the command to scan, or is not heard in time:
\* either way, and whatever byte was read, the driver goes on.
EnableScanning ==
  /\ step = "enable"
  /\ LET answers == {out, Append(out, [byte |-> ACK, from |-> "controller"])}
     IN  \E a \in answers :
           /\ out' = IF a = <<>> THEN a ELSE Tail(a)
           /\ disturbed' = (disturbed \/ (a # <<>> /\ Head(a).from # "controller"))
  /\ initialized' = TRUE
  /\ step' = "idle"
  /\ UNCHANGED <<config, user, decoder>>

\* process_scancode: the new decoder state and the key, if there is one.
Decoded(ext, mods, ks) == [extended |-> ext, modifiers |-> mods, keys |-> ks]

CodeOf(b) == CHOOSE n \in 0..127 : Byte(n) = b \ {RELEASE}

\* Caps lock toggles when its key goes down; the others follow their keys.
WithModifier(code, down) ==
  CASE code = CtrlCode -> [modifiers EXCEPT !.ctrl = down]
    [] code = AltCode -> [modifiers EXCEPT !.alt = down]
    [] code \in ShiftCodes -> [modifiers EXCEPT !.shift = down]
    [] OTHER -> [modifiers EXCEPT !.caps_lock = (@ # down)]

\* Faulty: a modifier does not end the prefix.
ProcessScancodeSticky(b) ==
  LET down == RELEASE \notin b
      code == CodeOf(b)
  IN  IF b = EXTENDED_PREFIX THEN Decoded(TRUE, modifiers, {})
      ELSE IF IsModifier(code, extended) THEN Decoded(extended, WithModifier(code, down), {})
      ELSE Decoded(FALSE, modifiers, IF down THEN KeysWith(code, extended) ELSE {})

ProcessScancode(b) ==
  LET down == RELEASE \notin b
      code == CodeOf(b)
  IN  IF b = EXTENDED_PREFIX THEN Decoded(TRUE, modifiers, {})
      ELSE IF IsModifier(code, extended) THEN Decoded(FALSE, WithModifier(code, down), {})
      ELSE Decoded(FALSE, modifiers, IF down THEN KeysWith(code, extended) ELSE {})

\* The PS/2 part of try_read_key; a byte of the mouse is discarded.
TryReadKey ==
  /\ step = "idle" /\ initialized /\ out # <<>>
  /\ out' = Tail(out)
  /\ IF Head(out).from = "mouse" THEN UNCHANGED decoder
     ELSE LET r == ProcessScancode(Head(out).byte)
          IN  /\ extended' = r.extended
              /\ modifiers' = r.modifiers
              /\ \/ r.keys = {} /\ UNCHANGED read
                 \/ \E k \in r.keys : read' = Append(read, StrokeOf(k, modifiers))
  /\ UNCHANGED <<config, user, step, initialized, disturbed>>

\* cleanup, when ExitBootServices succeeds.
StartCleanup == step = "idle" /\ initialized /\ ReadConfig("handover")

\* Faulty: the keyboard interrupt stays off.
FinishCleanupSilent == step = "handover" /\ WriteConfig("os", {}, {})

FinishCleanup == step = "handover" /\ WriteConfig("os", {KB_INT}, {})

Ps2Next ==
  \/ \E k \in Ps2Keys : Make(k) \/ Break(k)
  \/ MouseMoves
  \/ GiveUp
  \/ TestPorts \/ ReadInitConfig \/ WriteInitConfig \/ EnableScanning
  \/ TryReadKey
  \/ StartCleanup \/ FinishCleanup

----------------------------------------------------------------------------
(* Properties.                                                             *)

\* When no byte of a device was taken for an answer, process_scancode returns
\* the user's strokes in order, each with the modifiers that were down when it
\* was made, however late the bytes are read; none is missing once all are read.
StrokesAreDecoded ==
  (initialized /\ ~disturbed) =>
    /\ Len(read) <= Len(typed)
    /\ read = SubSeq(typed, 1, Len(read))
    /\ (step = "idle" /\ out = <<>>) => read = typed

\* When no byte of a device was taken for an answer, cleanup leaves the
\* configuration byte of power-on but for what init and cleanup mean to change.
HandoverIsExact ==
  (step = "os" /\ ~disturbed) =>
    config = (Config0 \cup {KB_INT, TRANSLATION, AUX_DISABLE}) \ {AUX_INT, KB_DISABLE}

\* cleanup's comment: the operating system gets a controller with the keyboard
\* interrupt enabled and translation still enabled.
TranslationIsKept == step = "os" => {KB_INT, TRANSLATION} \subseteq config
============================================================================
