------------------------------ MODULE MCInput -------------------------------
(***************************************************************************)
(* The keyboards, the terminal and the event services side by side.        *)
(* machine says what is looked at: one of the two keyboard drivers; a boot *)
(* loader that reads keys until there is none and then waits for the       *)
(* keyboard event; or a program that calls the event services and          *)
(* ReadKeyStroke in any order.                                             *)
(***************************************************************************)
EXTENDS Ps2Keyboard, UsbKeyboard, EventServices

CONSTANT CallerStrokes  \* bound: strokes of the terminal beside such a program

VARIABLE machine

eventVars == <<entries, wait>>

inputVars == <<ps2Vars, usbKeyboardVars, consoleVars, eventVars, machine>>

Init ==
  /\ machine \in {"ps2", "usb", "loader", "caller"}
  /\ Ps2Init /\ UsbKeyboardInit /\ ConsoleInit /\ EventInit
  /\ machine # "ps2" => out = <<>>

\* Bytes on the wire arrive at any time.
Arrives == Arrive /\ UNCHANGED eventVars

Reads == waiting = <<>> /\ ReadKeyStroke /\ UNCHANGED eventVars

Waits == WaitStep /\ UNCHANGED consoleVars

\* The loader waits once for each ReadKeyStroke that had no key.
LoaderWaits ==
  /\ last_status = "NOT_READY" /\ last_status' = "none"
  /\ StartWait(<<KEYBOARD_EVENT_ID>>)
  /\ UNCHANGED <<terminal, uart, keyboard, codes, in_escape, escape_buf, queued_key, got>>

LoaderNext ==
  \/ Typing /\ UNCHANGED eventVars
  \/ Arrives \/ Reads \/ LoaderWaits \/ Waits

CallerNext ==
  \/ Typing /\ Len(sent') <= CallerStrokes /\ UNCHANGED eventVars
  \/ Arrives \/ Reads
  \/ EventNext /\ UNCHANGED consoleVars

Next ==
  /\ UNCHANGED machine
  /\ \/ machine = "ps2" /\ Ps2Next /\ UNCHANGED <<usbKeyboardVars, consoleVars, eventVars>>
     \/ machine = "usb" /\ UsbKeyboardNext /\ UNCHANGED <<ps2Vars, consoleVars, eventVars>>
     \/ machine = "loader" /\ LoaderNext /\ UNCHANGED <<ps2Vars, usbKeyboardVars>>
     \/ machine = "caller" /\ CallerNext /\ UNCHANGED <<ps2Vars, usbKeyboardVars>>

Others == UNCHANGED <<ps2Vars, usbKeyboardVars, machine>>

\* Bytes on the wire arrive, WaitForEvent is a loop of the only thread there
\* is, and the loader, outside of it, keeps calling ReadKeyStroke.
Spec ==
  /\ Init /\ [][Next]_inputVars
  /\ WF_inputVars(Arrives /\ Others)
  /\ WF_inputVars(Waits /\ Others)
  /\ WF_inputVars(machine = "loader" /\ Reads /\ Others)

\* Every key of strokes whose bytes arrive together is returned by some later
\* ReadKeyStroke to a loader that waits for the keyboard event whenever it was
\* told that there is no key, although check_event and wait_for_event look for
\* bytes and codes, not at the queued key, and see releases as input.
KeysComeOut ==
  (machine = "loader" /\ whole /\ Len(got) < Len(Wanted))
    ~> (~whole \/ Len(got) = Len(Wanted))

-----------------------------------------------------------------------------
(* The machines of the run.                                                *)

(* Up and Keypad8 share a code, and so do the two control keys, so that    *)
(* only the prefix tells them apart.  There is one shift key: the driver   *)
(* keeps one flag for the two.                                             *)
MCScancodes ==
  [LeftShift |-> 42, RightControl |-> 29, CapsLock |-> 58,
   A |-> 30, One |-> 2, Up |-> 72, Keypad8 |-> 72]

MCExtendedKeys == {"RightControl", "Up"}

MCLetters == {"A"}

MCSymbols == {"One"}

\* Keyboard and mouse interrupts on, system flag set, translation off.
MCConfig0 == Byte(7)

\* Sequences of every length match_escape_sequence knows, one of them a
\* prefix of none, two sharing a prefix.
MCKnown ==
  [s \in {<<"[", "A">>, <<"O", "P">>, <<"[", "5", "~">>, <<"[", "[", "A">>, <<"[", "1", "5", "~">>} |->
     CASE s = <<"[", "A">> -> "Up"
       [] s \in {<<"O", "P">>, <<"[", "[", "A">>} -> "F1"
       [] s = <<"[", "5", "~">> -> "PageUp"
       [] OTHER -> "F5"]

\* Delete is one of the two bytes for backspace; ESC as a character is not the
\* key Esc; the byte 0 is the empty key.
MCByteKeys ==
  [b \in {"ESC", "[", "O", "A", "P", "5", "1", "9", "~", "x", "DEL", "NUL"} |->
     CASE b = "DEL" -> "BS" [] b = "ESC" -> "U+1B" [] b = "NUL" -> "Empty" [] OTHER -> b]

\* Alt with a letter is a stroke too.
MCStrokes ==
  {<<"ESC">> \o s : s \in DOMAIN MCKnown} \cup {<<"x">>, <<"[">>, <<"DEL">>, <<"ESC", "x">>}

\* Broken-off, unknown and doubled sequences too.
MCFragments ==
  {<<"ESC">>, <<"ESC", "ESC">>, <<"ESC", "[", "A">>, <<"ESC", "[", "1", "5", "~">>,
   <<"ESC", "[", "9", "9", "9", "9">>, <<"x">>, <<"NUL">>}

\* An event beside the keyboard's; lists with and without the keyboard event,
\* also behind the other, and with a number that is no event.
MCLists == {<<1>>, <<2, 1>>, <<3, 2>>}
=============================================================================
