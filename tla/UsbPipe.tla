------------------------------ MODULE UsbPipe ------------------------------
(***************************************************************************)
(* What the USB host controller drivers share: the call of bulk_transfer   *)
(* or control_transfer that is in progress, and the device at the other    *)
(* end of its pipes.  A packet is its running number on its endpoint.  The *)
(* sender of a packet repeats it until it sees a handshake; the data       *)
(* toggle tells the receiver a repetition from the next packet.  The       *)
(* device is external; the descriptors are as the drivers build them.      *)
(***************************************************************************)
EXTENDS Integers, Sequences

CONSTANTS
  Wants,         \* numbers of packets a bulk transfer may ask for
  MaxTransfers   \* bound: transfers asked for

ASSUME PipeAssumption == MaxTransfers \in Nat /\ \A w \in Wants : w \in Nat \ {0}

VARIABLES
  xfer,   \* the call: n its number, st, op, want, data the packets returned,
          \* took the packets it took from the device, empty: the last of
          \* them was empty
  pipe    \* the device: its two bulk endpoints and endpoint 0

pipeVars == <<xfer, pipe>>

\* in: the packet the device sends next; out: the last packet it accepted;
\* asked, served: the request it was given last and the one it carried out
\* last; sent, seen: the last packet a caller sent and received; upset: the
\* kinds of calls of which one failed, so that host and device may differ on
\* what was transferred; empty: an earlier call ended with an empty packet.
PipeInit ==
  /\ xfer = [n |-> 0, st |-> "none", op |-> "in", want |-> 0, data |-> <<>>,
             took |-> 0, empty |-> FALSE]
  /\ pipe = [in |-> [n |-> 1, t |-> FALSE], out |-> [n |-> 0, t |-> FALSE],
             asked |-> 0, served |-> 0, sent |-> 0, seen |-> 0, upset |-> {},
             empty |-> FALSE]

\* The caller makes a call.
Called(op, want) ==
  /\ xfer.st # "busy" /\ xfer.n < MaxTransfers
  /\ xfer' = [n |-> xfer.n + 1, st |-> "busy", op |-> op, want |-> want, data |-> <<>>,
              took |-> 0, empty |-> FALSE]
  /\ pipe' = [pipe EXCEPT !.sent = IF op = "out" THEN @ + want ELSE @,
                          !.seen = @ + xfer.took, !.empty = @ \/ xfer.empty]

Succeeds(data) == /\ xfer' = [xfer EXCEPT !.st = "ok", !.data = data]
                  /\ UNCHANGED pipe

\* A bulk call returns data, after the packets of td.
BulkSucceeds(data, td) ==
  /\ xfer' = [xfer EXCEPT !.st = "ok", !.data = data, !.took = Len(td.data),
                          !.empty = td.count < Len(td.data)]
  /\ UNCHANGED pipe

Fails == /\ xfer' = [xfer EXCEPT !.st = "err"]
         /\ pipe' = [pipe EXCEPT !.upset = @ \cup {xfer.op}]

(***************************************************************************)
(* A bulk transfer descriptor: what is left of it, the toggle of its next  *)
(* packet, count the packets that were not empty.                          *)
(***************************************************************************)
NoTd == [st |-> "none", dir |-> "in", t |-> FALSE, num |-> 0, left |-> 0,
         data |-> <<>>, count |-> 0]

NewTd(dir, t, left) ==
  [NoTd EXCEPT !.st = "active", !.dir = dir, !.t = t, !.left = left, !.num = pipe.sent + 1]

Moved(td) == [td EXCEPT !.t = ~@, !.left = @ - 1,
                        !.st = IF td.left = 1 THEN "done" ELSE "active"]

\* The device sends a packet: full, or short or empty at the end of its data.
\* The controller acknowledges it, and the device may miss that.
InPacket(td) ==
  {[td |-> IF td.t # pipe.in.t THEN td
           ELSE [Moved(td) EXCEPT !.data = Append(@, pipe.in.n),
                                  !.count = IF len = "empty" THEN @ ELSE @ + 1,
                                  !.st = IF len = "full" THEN @ ELSE "done"],
    pipe |-> p] :
     len \in {"full", "short", "empty"},
     p \in {pipe, [pipe EXCEPT !.in = [n |-> @.n + 1, t |-> ~@.t]]}}

\* The controller sends a packet; it may miss the acknowledgement.
OutPacket(td) ==
  LET accepted == [n |-> IF td.num = pipe.out.n + 1 THEN td.num ELSE -1, t |-> ~pipe.out.t]
  IN  {[td |-> e,
        pipe |-> IF td.t = pipe.out.t THEN [pipe EXCEPT !.out = accepted] ELSE pipe] :
         e \in {td, [Moved(td) EXCEPT !.num = @ + 1, !.count = @ + 1]}}

\* One transaction of td, which may also end it with a stall or an error.
Transaction(td) ==
  (IF td.dir = "in" THEN InPacket(td) ELSE OutPacket(td))
  \cup {[td |-> [td EXCEPT !.st = e], pipe |-> pipe] : e \in {"stall", "error"}}

(***************************************************************************)
(* The descriptors of a control transfer: stage is the one whose turn it   *)
(* is; each stage may stop the chain.                                      *)
(***************************************************************************)
NoCtl == [st |-> "none", stage |-> "setup", n |-> 0, data |-> <<>>]

NewCtl(n) == [NoCtl EXCEPT !.st = "active", !.n = n]

StageDone(c) ==
  CASE c.stage = "setup" -> [c |-> [c EXCEPT !.stage = "data"],
                             pipe |-> [pipe EXCEPT !.asked = c.n]]
    [] c.stage = "data" -> [c |-> [c EXCEPT !.stage = "status", !.data = <<pipe.asked>>],
                            pipe |-> pipe]
    [] OTHER -> [c |-> [c EXCEPT !.stage = "end", !.st = "done"],
                 pipe |-> [pipe EXCEPT !.served = pipe.asked]]

\* The device may do its part of a stage and its handshake get lost.
ControlTransaction(c) ==
  {StageDone(c)} \cup {[c |-> [c EXCEPT !.st = e], pipe |-> p] :
                         e \in {"stall", "error"}, p \in {pipe, StageDone(c).pipe}}

(***************************************************************************)
(* A call that succeeds has moved the data it says it has.                 *)
(***************************************************************************)
Exact ==
  xfer.st = "ok" =>
    CASE xfer.op = "in" -> xfer.data = [i \in DOMAIN xfer.data |-> pipe.seen + i]
      [] xfer.op = "out" -> pipe.out.n = pipe.sent
      [] OTHER -> pipe.served = xfer.n /\ xfer.data = <<xfer.n>>
=============================================================================
