---------------------------- MODULE BlockClient -----------------------------
(***************************************************************************)
(* The caller of a storage driver and the memory it lends it, shared by    *)
(* the driver modules.  A call names the blocks it wants; the driver, or   *)
(* the device by DMA, fills the caller's buffer while the call is busy.    *)
(* The caller uses one buffer for all its calls, as a loader does that     *)
(* retries a read that failed.                                             *)
(***************************************************************************)
EXTENDS Integers, Sequences, FiniteSets

CONSTANTS
  NumBlocks,   \* blocks of the device
  Counts,      \* numbers of blocks a call may ask for
  MaxCalls     \* bound: calls made

ASSUME BlockAssumption == NumBlocks \in Nat /\ MaxCalls \in Nat

VARIABLES
  req,         \* the call: st, op, dev, lba, n, and the caller's buffer buf
  calls,       \* number of calls so far
  mixed        \* an abandoned command's data may pass for a younger one's

client == <<req, calls, mixed>>

Blank == <<>>

\* A block's value is its device and its address.
Content(dev, lba, n) == [i \in 1..n |-> <<dev, lba + i - 1>>]

SecData == <<-1, 0>>

\* What a buffer held before.
Stale == <<-2, 0>>

ClientInit ==
  /\ req = [st |-> "none", op |-> "read", dev |-> 0, lba |-> 0, n |-> 0,
            buf |-> Blank]
  /\ calls = 0 /\ mixed = FALSE

Busy(op) == req.st = "busy" /\ req.op = op

\* The caller makes a call; the driver answers at once with st = "err", or
\* works on it.
Begin(op, dev, lba, n, st) ==
  /\ req.st # "busy" /\ calls < MaxCalls
  /\ calls' = calls + 1
  /\ req' = [st |-> st, op |-> op, dev |-> dev, lba |-> lba, n |-> n, buf |-> Blank]
  /\ UNCHANGED mixed

\* The call returns.
End(st, buf) == /\ req' = [req EXCEPT !.st = st, !.buf = buf]
                /\ UNCHANGED <<calls, mixed>>

\* The driver has part of the answer in the caller's buffer.
Fill(buf) == req' = [req EXCEPT !.buf = buf] /\ UNCHANGED <<calls, mixed>>
=============================================================================
