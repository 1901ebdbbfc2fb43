---------------------------- MODULE ConsoleInput ----------------------------
(***************************************************************************)
(* ReadKeyStroke of the Simple Text Input protocol                         *)
(* (efi/protocols/console.rs): keys come from the keyboards or, as bytes   *)
(* and escape sequences, from a terminal on the serial port.  The terminal *)
(* sends strokes, whose bytes arrive while the boot loader polls.          *)
(***************************************************************************)
EXTENDS Integers, Sequences

CONSTANTS
  ESC,         \* the byte 0x1B
  Introducers, \* the bytes every known sequence starts with: '[' and 'O'
  Known,       \* known sequence, without ESC -> its key
  ByteKeys,    \* byte -> the character it converts to, Empty for the byte 0
  Strokes,     \* complete strokes, whose bytes arrive together
  Fragments,   \* byte sequences, broken off or unknown ones too, that trickle in
  MaxStrokes,  \* bound: strokes of the terminal
  MaxCodes,    \* bound: codes of the keyboards
  ESCAPE_BUF_SIZE,
  GIVE_UP,     \* bytes after which a sequence is given up
  EscKey,      \* the key SCAN_ESC
  Empty,       \* the key (0, 0)
  NULL         \* no key

VARIABLES
  sent,        \* the strokes and fragments the terminal sent
  whole,       \* it sent no fragment
  wire,        \* bytes on their way
  uart,        \* bytes serial::try_read will return
  keyboard,    \* the codes the keyboards hold: of a key, or of its release
  codes,       \* number of codes they made
  in_escape,
  escape_buf,  \* the first escape_len bytes
  queued_key,
  got,         \* the keys returned for bytes of the terminal
  last_status  \* of ReadKeyStroke

terminal == <<sent, whole, wire>>

parser == <<in_escape, escape_buf, queued_key, got, last_status>>

consoleVars == <<terminal, uart, keyboard, codes, parser>>

ConsoleInit ==
  /\ sent = <<>> /\ whole = TRUE /\ wire = <<>> /\ uart = <<>>
  /\ keyboard = <<>> /\ codes = 0
  /\ in_escape = FALSE /\ escape_buf = <<>> /\ queued_key = NULL
  /\ got = <<>> /\ last_status = "SUCCESS"

----------------------------------------------------------------------------
(* The user.                                                               *)

\* The line keeps the order of the bytes: nothing overtakes a fragment.
Type(s) ==
  /\ Len(sent) < MaxStrokes /\ wire = <<>>
  /\ sent' = Append(sent, s)
  /\ uart' = uart \o s
  /\ UNCHANGED <<whole, wire, keyboard, codes, parser>>

Trickle(s) ==
  /\ Len(sent) < MaxStrokes
  /\ sent' = Append(sent, s)
  /\ whole' = FALSE
  /\ wire' = wire \o s
  /\ UNCHANGED <<uart, keyboard, codes, parser>>

Arrive ==
  /\ wire # <<>>
  /\ wire' = Tail(wire)
  /\ uart' = Append(uart, Head(wire))
  /\ UNCHANGED <<sent, whole, keyboard, codes, parser>>

PressKey(code) ==
  /\ codes < MaxCodes
  /\ codes' = codes + 1
  /\ keyboard' = Append(keyboard, code)
  /\ UNCHANGED <<terminal, uart, parser>>

----------------------------------------------------------------------------
(* The parser.                                                             *)

Parsed(in, buf, queued, key) == [in |-> in, buf |-> buf, queued |-> queued, key |-> key]

ConvertByteToEfiKey(b) == ByteKeys[b]

FinalizeEscapeSequence(buf) ==
  Parsed(FALSE, <<>>, IF buf = <<>> THEN NULL ELSE ConvertByteToEfiKey(buf[1]), EscKey)

CouldBeEscapeSequence(buf) == buf = <<>> \/ buf[1] \in Introducers

match_escape_sequence(buf) == IF buf \in DOMAIN Known THEN Known[buf] ELSE NULL

\* Faulty: a match leaves the parser inside the sequence.
ProcessInEscapeStuck(b) ==
  LET buf == Append(escape_buf, b)
  IN  IF match_escape_sequence(buf) # NULL
      THEN Parsed(TRUE, <<>>, NULL, match_escape_sequence(buf))
      ELSE IF Len(buf) >= GIVE_UP \/ ~CouldBeEscapeSequence(buf) THEN FinalizeEscapeSequence(buf)
      ELSE Parsed(TRUE, buf, NULL, NULL)

ProcessInEscape(b) ==
  LET buf == IF Len(escape_buf) < ESCAPE_BUF_SIZE THEN Append(escape_buf, b) ELSE escape_buf
  IN  IF match_escape_sequence(buf) # NULL
      THEN Parsed(FALSE, <<>>, NULL, match_escape_sequence(buf))
      ELSE IF Len(buf) >= GIVE_UP \/ ~CouldBeEscapeSequence(buf) THEN FinalizeEscapeSequence(buf)
      ELSE Parsed(TRUE, buf, NULL, NULL)

\* The key (0, 0) stands for no key here, but not when it was queued.
ProcessSerialByte(b) ==
  IF in_escape THEN ProcessInEscape(b)
  ELSE IF b = ESC THEN Parsed(TRUE, <<>>, NULL, NULL)
  ELSE LET key == ConvertByteToEfiKey(b)
       IN  Parsed(FALSE, escape_buf, NULL, IF key = Empty THEN NULL ELSE key)

Return(r) ==
  /\ in_escape' = r.in /\ escape_buf' = r.buf /\ queued_key' = r.queued
  /\ got' = IF r.key = NULL THEN got ELSE Append(got, r.key)
  /\ last_status' = IF r.key = NULL THEN "NOT_READY" ELSE "SUCCESS"

ReturnQueuedKey ==
  /\ queued_key # NULL
  /\ Return(Parsed(in_escape, escape_buf, NULL, queued_key))
  /\ UNCHANGED <<uart, keyboard>>

\* keyboard::try_read_key has a key.
ReturnKeyboardKey ==
  /\ queued_key = NULL /\ keyboard # <<>> /\ Head(keyboard) = "key"
  /\ keyboard' = Tail(keyboard) /\ last_status' = "SUCCESS"
  /\ UNCHANGED <<uart, in_escape, escape_buf, queued_key, got>>

\* It has none, though it may have taken the code of a release.
NoKeyboardKey ==
  /\ queued_key = NULL
  /\ IF keyboard = <<>> THEN UNCHANGED keyboard
     ELSE Head(keyboard) = "release" /\ keyboard' = Tail(keyboard)

\* Faulty: leaves the last byte in the UART.
ReadSerialOneBehind ==
  /\ NoKeyboardKey /\ Len(uart) > 1
  /\ uart' = Tail(uart)
  /\ Return(ProcessSerialByte(Head(uart)))

ReadSerial ==
  /\ NoKeyboardKey /\ uart # <<>>
  /\ uart' = Tail(uart)
  /\ Return(ProcessSerialByte(Head(uart)))

\* Faulty: Esc is returned, but the sequence goes on.
NothingToReadStillInside ==
  /\ NoKeyboardKey /\ uart = <<>>
  /\ in_escape /\ escape_buf # <<>>
  /\ Return(Parsed(TRUE, escape_buf, NULL, EscKey))
  /\ UNCHANGED uart

\* No byte is there: a sequence with at least one byte ends.
NothingToRead ==
  /\ NoKeyboardKey /\ uart = <<>>
  /\ in_escape /\ escape_buf # <<>>
  /\ Return(FinalizeEscapeSequence(escape_buf))
  /\ UNCHANGED uart

\* No byte is there, and none is collected.
NoKeyStroke ==
  /\ NoKeyboardKey /\ uart = <<>>
  /\ ~in_escape \/ escape_buf = <<>>
  /\ last_status' = "NOT_READY"
  /\ UNCHANGED <<uart, in_escape, escape_buf, queued_key, got>>

\* One call.
ReadKeyStroke ==
  /\ ReturnQueuedKey \/ ReturnKeyboardKey \/ ReadSerial \/ NothingToRead \/ NoKeyStroke
  /\ UNCHANGED <<terminal, codes>>

\* What the user does.
Typing ==
  \/ \E s \in Strokes : Type(s)
  \/ \E s \in Fragments : Trickle(s)
  \/ \E code \in {"key", "release"} : PressKey(code)

----------------------------------------------------------------------------
(* Properties.                                                             *)

\* The keys a stroke stands for: a known sequence is one key; otherwise a
\* leading ESC is the key Esc and every other byte is its character.
KeysOf(s) ==
  IF s[1] = ESC /\ Tail(s) \in DOMAIN Known THEN <<Known[Tail(s)]>>
  ELSE [i \in DOMAIN s |-> IF i = 1 /\ s[1] = ESC THEN EscKey ELSE ByteKeys[s[i]]]

Wanted ==
  LET upto[i \in 0..Len(sent)] == IF i = 0 THEN <<>> ELSE upto[i - 1] \o KeysOf(sent[i])
  IN  upto[Len(sent)]

\* As long as the bytes of each stroke arrive together, the keys ReadKeyStroke
\* returns for the terminal are the ones its strokes stand for, in their order,
\* whatever keys of the keyboards come between.
KeysAreDecoded ==
  whole => Len(got) <= Len(Wanted) /\ got = SubSeq(Wanted, 1, Len(got))

BytesSent ==
  LET upto[i \in 0..Len(sent)] == IF i = 0 THEN 0 ELSE upto[i - 1] + Len(sent[i])
  IN  upto[Len(sent)]

\* However the bytes of strokes and fragments are spread over the calls, and wherever a
\* sequence is broken off, a byte counts once: for a key that was returned, the
\* queued key, or the sequence being collected.
BytesCountOnce ==
  Len(got) + (IF queued_key = NULL THEN 0 ELSE 1)
    + (IF in_escape THEN 1 + Len(escape_buf) ELSE 0)
    <= BytesSent - Len(wire) - Len(uart)
============================================================================
