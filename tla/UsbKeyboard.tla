---------------------------- MODULE UsbKeyboard -----------------------------
(***************************************************************************)
(* The USB keyboard driver (drivers/usb/hid_keyboard.rs).  The keyboard is *)
(* sampled: a poll fetches a report of the keys that are down, compares it *)
(* with the previous one, queues the new keys and the repeats, and the     *)
(* console takes them from a ring buffer.  The user works the keys between *)
(* polls, transfers may fail, and the timeouts expire at any time.         *)
(***************************************************************************)
EXTENDS Integers, Sequences, Functions

CONSTANTS
  UsbKeys,        \* keys that translate to a character or scan code
  CapsLock,    \* the caps lock key
  Locks,       \* the lock keys, which have no translation
  BUFFER,      \* key_buffer.len()
  MaxDown,     \* bound: keys down at once, at most the 6 of a report
  NoKey        \* no key

ASSUME UsbKeyboardAssumption ==
  /\ BUFFER \in Nat \ {0}
  /\ MaxDown \in Nat
  /\ CapsLock \in Locks /\ UsbKeys \cap Locks = {}

VARIABLES
  down,         \* the keys the user holds, in the order of the report
  prev_report,  \* the keys of the previous report
  locks,        \* the lock keys that are on: caps_lock and num_lock
  key_buffer,
  read_idx,
  write_idx,
  last_key,
  repeat_delay,    \* repeat_delay_timeout is Some
  repeat_interval  \* repeat_interval_timeout is Some

ring == <<key_buffer, read_idx, write_idx>>

repeat == <<last_key, repeat_delay, repeat_interval>>

usbKeyboardVars == <<down, prev_report, locks, ring, repeat>>

AllKeys == UsbKeys \cup Locks

EfiKeys == [key : UsbKeys, shift : BOOLEAN]

\* The user presses or releases one key.
Press(k) ==
  /\ k \notin Range(down) /\ Len(down) < MaxDown
  /\ down' = Append(down, k)
  /\ UNCHANGED <<prev_report, locks, ring, repeat>>

Release(k) ==
  /\ k \in Range(down)
  /\ down' = SelectSeq(down, LAMBDA x : x # k)
  /\ UNCHANGED <<prev_report, locks, ring, repeat>>

UsbKeyboardInit ==
  /\ down = <<>>
  /\ prev_report = {}
  /\ locks = {}
  /\ key_buffer = [i \in 0..BUFFER-1 |-> NoKey]
  /\ read_idx = 0 /\ write_idx = 0
  /\ last_key = NoKey /\ repeat_delay = FALSE /\ repeat_interval = FALSE

----------------------------------------------------------------------------
(* The driver's state as a record, to pass through the loop of a poll.     *)

State ==
  [locks |-> locks, buf |-> key_buffer, r |-> read_idx, w |-> write_idx,
   last |-> last_key, delay |-> repeat_delay, interval |-> repeat_interval]

Become(s) ==
  /\ locks' = s.locks
  /\ key_buffer' = s.buf /\ read_idx' = s.r /\ write_idx' = s.w
  /\ last_key' = s.last /\ repeat_delay' = s.delay /\ repeat_interval' = s.interval

\* Faulty: a full buffer is overwritten.
EnqueueKeyAlways(s, key) ==
  [s EXCEPT !.buf[s.w] = key, !.w = (s.w + 1) % BUFFER]

EnqueueKey(s, key) ==
  LET next_write == (s.w + 1) % BUFFER
  IN  IF next_write = s.r THEN s ELSE [s EXCEPT !.buf[s.w] = key, !.w = next_write]

\* A lock key has no translation.
TranslateKeycode(s, k, shift) ==
  IF k \in UsbKeys THEN [key |-> k, shift |-> shift # (CapsLock \in s.locks)] ELSE NoKey

\* Faulty: the interval of the key before goes on beside the new delay.
ProcessKeyKeepInterval(s, k, shift) ==
  LET efi_key == TranslateKeycode(s, k, shift)
  IN  IF efi_key = NoKey THEN s
      ELSE [EnqueueKey(s, efi_key) EXCEPT !.last = efi_key, !.delay = TRUE]

\* The body of process_report's loop; the locks are toggled for a lock key
\* that has a translation.
ProcessKey(s, k, shift) ==
  LET efi_key == TranslateKeycode(s, k, shift)
  IN  IF efi_key = NoKey THEN s
      ELSE [EnqueueKey(s, efi_key) EXCEPT
              !.locks = IF k \notin Locks THEN @ ELSE IF k \in @ THEN @ \ {k} ELSE @ \cup {k},
              !.last = efi_key, !.delay = TRUE, !.interval = FALSE]

NewKeys == SelectSeq(down, LAMBDA k : k \notin prev_report)

ProcessKeys(shift) ==
  LET after[i \in 0..Len(NewKeys)] ==
        IF i = 0 THEN State ELSE ProcessKey(after[i - 1], NewKeys[i], shift)
  IN  after[Len(NewKeys)]

\* The repeat ends when no key is down.
ProcessReport(shift) ==
  LET s == ProcessKeys(shift)
  IN  IF down = <<>> THEN [s EXCEPT !.last = NoKey, !.delay = FALSE, !.interval = FALSE] ELSE s

HandleRepeat(s, expired) ==
  IF s.last = NoKey \/ ~expired THEN s
  ELSE IF s.delay THEN [EnqueueKey(s, s.last) EXCEPT !.delay = FALSE, !.interval = TRUE]
  ELSE IF s.interval THEN EnqueueKey(s, s.last)
  ELSE s

\* poll: a report is fetched, with or without a shift key down.
Poll(shift, expired) ==
  /\ Become(HandleRepeat(ProcessReport(shift), expired))
  /\ prev_report' = Range(down)
  /\ UNCHANGED down

\* poll when the transfer fails, which is ignored, or within 8 ms of the poll
\* before: only the repeat is handled.
PollWithoutReport(expired) ==
  /\ Become(HandleRepeat(State, expired))
  /\ UNCHANGED <<down, prev_report>>

GetKey ==
  /\ read_idx # write_idx
  /\ read_idx' = (read_idx + 1) % BUFFER
  /\ UNCHANGED <<down, prev_report, locks, key_buffer, write_idx, repeat>>

UsbKeyboardNext ==
  \/ \E k \in AllKeys : Press(k) \/ Release(k)
  \/ \E shift, expired \in BOOLEAN : Poll(shift, expired)
  \/ \E expired \in BOOLEAN : PollWithoutReport(expired)
  \/ GetKey

----------------------------------------------------------------------------
(* Properties.                                                             *)

\* The keys between the indices, oldest first.
Queue == [i \in 1..((write_idx + BUFFER - read_idx) % BUFFER) |->
            key_buffer[(read_idx + i - 1) % BUFFER]]

KQ == INSTANCE KeyQueue WITH
        queue <- Queue, Values <- EfiKeys, Capacity <- BUFFER - 1, Batch <- MaxDown + 1

\* The ring buffer of enqueue_key and get_key is a queue of one key less than
\* its length, across every wrap of the indices, whatever a poll adds at once.
RingIsAQueue == KQ!Spec

\* handle_repeat's two timeouts: while a key is repeated exactly one of them
\* runs, so that the repeat neither stalls nor runs twice; otherwise none does.
\* Once a report showed no key, process_report has ended the repeat.
RepeatIsSound ==
  /\ IF last_key = NoKey THEN ~repeat_delay /\ ~repeat_interval
     ELSE repeat_delay # repeat_interval
  /\ prev_report = {} => last_key = NoKey

============================================================================
