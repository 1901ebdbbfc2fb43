----------------------------- MODULE BlockStore -----------------------------
(***************************************************************************)
(* What a block device promises its caller, whatever controller is behind  *)
(* it: a call is refused, or it ends in an error, or it delivers the       *)
(* blocks asked for.  There is one way out of the promise.  A driver that  *)
(* gives up on a command leaves it with the device.  Once the device has   *)
(* run a younger command before such an abandoned one, or the driver has   *)
(* forgotten which commands it abandoned, the abandoned command's data may *)
(* land where a younger one's was expected.                                *)
(***************************************************************************)
EXTENDS Integers, Sequences

VARIABLES
  call,      \* [st, op, dev, lba, n]: the call in progress, or the last one
  data,      \* what a call that succeeded has delivered
  mixed      \* an abandoned command's data may pass for a younger one's

\* A block's value is its device and its address; what a security protocol
\* sends back is one more value.
SecData == <<-1, 0>>

Answer(c) == IF c.op = "read" THEN [i \in 1..c.n |-> <<c.dev, c.lba + i - 1>>]
             ELSE IF c.op = "receive" THEN <<SecData>> ELSE <<>>

StoreInit == call.st = "none" /\ data = <<>> /\ mixed = FALSE

Called == /\ call.st # "busy" /\ call'.st \in {"busy", "err"}
          /\ data' = <<>> /\ UNCHANGED mixed

Returned == /\ call.st = "busy"
            /\ call' \in {[call EXCEPT !.st = s] : s \in {"ok", "err"}}
            /\ IF call'.st = "err" THEN data' = <<>>
               ELSE mixed \/ data' = Answer(call)
            /\ UNCHANGED mixed

Mixing == /\ mixed \/ mixed'
          /\ call' = call /\ (call.st # "ok" => data' = data)

StoreNext == Called \/ Returned \/ Mixing

StoreSpec == StoreInit /\ [][StoreNext]_<<call, data, mixed>>
=============================================================================
