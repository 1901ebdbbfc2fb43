--------------------------- MODULE EventServices ----------------------------
(***************************************************************************)
(* The event services of efi/boot_services.rs over the console input.  The *)
(* boot loader is the only caller and there is no notification, so while   *)
(* it is inside WaitForEvent only the arrival of input changes anything.   *)
(* SetTimer accepts its call and changes nothing.                          *)
(***************************************************************************)
EXTENDS ConsoleInput, Functions

CONSTANTS
  MAX_EVENTS,
  Lists        \* lists of events the loader may wait for

ASSUME EventAssumption == MAX_EVENTS \in Nat /\ MAX_EVENTS > 2

VARIABLES
  next_event_id,
  signaled,    \* the flag of each entry of events
  waiting,     \* the list WaitForEvent was called with, or <<>>
  pos          \* the position it looks at

entries == <<next_event_id, signaled>>

wait == <<waiting, pos>>

KEYBOARD_EVENT_ID == 1

\* Any number may be passed for an event; only these reach an entry.
Events == 0..MAX_EVENTS

Valid(e) == e > 0 /\ e < MAX_EVENTS

EventInit ==
  /\ next_event_id = 2
  /\ signaled = [e \in 0..MAX_EVENTS-1 |-> FALSE]
  /\ waiting = <<>> /\ pos = 0

\* CreateEvent and CreateEventEx; without a free entry nothing changes.
CreateEvent ==
  /\ waiting = <<>> /\ next_event_id < MAX_EVENTS
  /\ next_event_id' = next_event_id + 1
  /\ signaled' = [signaled EXCEPT ![next_event_id] = FALSE]
  /\ UNCHANGED wait

SignalEvent(e) ==
  /\ waiting = <<>> /\ Valid(e)
  /\ signaled' = [signaled EXCEPT ![e] = TRUE]
  /\ UNCHANGED <<next_event_id, wait>>

CloseEvent(e) ==
  /\ waiting = <<>> /\ Valid(e)
  /\ signaled' = [signaled EXCEPT ![e] = FALSE]
  /\ UNCHANGED <<next_event_id, wait>>

\* serial::has_input and keyboard::has_key see bytes and codes: neither a
\* queued key nor the sequence being collected, but the code of a release.
has_input == uart # <<>> \/ keyboard # <<>>

\* CheckEvent's answer; it changes nothing.
CheckEvent(e) ==
  IF e = KEYBOARD_EVENT_ID THEN has_input ELSE Valid(e) /\ signaled[e]

\* Signaled, or the keyboard's with input waiting.
Ready(e) == CheckEvent(e) \/ (Valid(e) /\ signaled[e])

StartWait(list) ==
  /\ waiting = <<>>
  /\ waiting' = list /\ pos' = 1
  /\ UNCHANGED entries

\* Faulty: only the first event's flag is looked at.
EndsWaitFirst ==
  \/ KEYBOARD_EVENT_ID \in Range(waiting) /\ has_input
  \/ Valid(waiting[1]) /\ signaled[waiting[1]]

\* Whether the event at the position ends the wait: input ends it at any
\* position of a list that has the keyboard event.
EndsWait ==
  \/ KEYBOARD_EVENT_ID \in Range(waiting) /\ has_input
  \/ Valid(waiting[pos]) /\ signaled[waiting[pos]]

WaitStep ==
  /\ waiting # <<>>
  /\ IF EndsWait
     THEN waiting' = <<>> /\ pos' = 0
     ELSE pos' = (pos % Len(waiting)) + 1 /\ UNCHANGED waiting
  /\ UNCHANGED entries

EventNext ==
  \/ CreateEvent
  \/ \E e \in Events : SignalEvent(e) \/ CloseEvent(e)
  \/ \E list \in Lists : StartWait(list)
  \/ WaitStep

----------------------------------------------------------------------------
(* Properties.                                                             *)

\* wait_for_event returns when one of its events is signaled, wherever it
\* stands in the list, and when input arrives for a list with the keyboard's.
WaitReturns ==
  (waiting # <<>> /\ \E e \in Range(waiting) : Ready(e))
    ~> (waiting = <<>>)
============================================================================
