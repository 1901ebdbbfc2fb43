--------------------------- MODULE NvmeController ---------------------------
(***************************************************************************)
(* The NVMe driver of drivers/nvme/mod.rs and the controller it drives.    *)
(* The driver keeps an admin and an I/O queue pair and has one command in  *)
(* flight, for which it polls the completion queue until it sees its       *)
(* command identifier under the phase it expects, or gives up.  A command  *)
(* given up stays with the device, which may run it at any later time.     *)
(* Every transfer of a caller goes through the one page dma_buffer.        *)
(***************************************************************************)
EXTENDS BlockClient, Functions, FiniteSetsExt

CONSTANTS
  QUEUE_SIZE,        \* queue -> ADMIN_QUEUE_SIZE, IO_QUEUE_SIZE
  SECTORS_PER_PAGE,  \* 4096 / block_size
  MAX_NAMESPACES,    \* capacity of namespaces
  DWORD,             \* 2^32: a block count is two dwords in Identify data
  MaxNsid,           \* namespace identifiers the device knows
  Disks              \* the devices: active namespace -> its number of blocks

ASSUME NvmeAssumption ==
  /\ SECTORS_PER_PAGE \in Nat \ {0} /\ DWORD \in Nat \ {0}
  /\ \A q \in {"admin", "io"} : QUEUE_SIZE[q] \in Nat /\ QUEUE_SIZE[q] > 1

VARIABLES
  nvme,   \* the driver: struct NvmeController and the place it waits at
  ndev    \* the device, and the memory it shares with the driver

nvmeVars == <<nvme, ndev>>

Queues == {"admin", "io"}

\* SubmissionQueueEntry; new commands get their identifier from Submit, and
\* within the bounds of a run a smaller identifier is an older command.
Entry(op, nsid, lba, n) ==
  [op |-> op, nsid |-> nsid, lba |-> lba, n |-> n, cid |-> 0]

\* CompletionQueueEntry: identifier, phase and status.
NoCompletion == [cid |-> 0, phase |-> FALSE, ok |-> TRUE]

\* struct NvmeController: stage is the call it is in, wait the identifier it
\* polls for, at and nsid the place in the namespace list, done the sectors
\* a read has copied.  The doorbells have the values of tail and head.
NewController ==
  [stage |-> "off", wait |-> 0, next_cid |-> 0,
   tail |-> [q \in Queues |-> 0], head |-> [q \in Queues |-> 0],
   phase |-> [q \in Queues |-> TRUE],
   namespaces |-> <<>>, at |-> 0, nsid |-> 0, done |-> 0]

NewDevice(disk) ==
  [disk |-> disk,
   sq |-> [q \in Queues |-> [i \in 0..QUEUE_SIZE[q]-1 |-> Entry("none", 0, 0, 0)]],
   cq |-> [q \in Queues |-> [i \in 0..QUEUE_SIZE[q]-1 |-> NoCompletion]],
   fetch |-> [q \in Queues |-> 0], pending |-> {},
   ctail |-> [q \in Queues |-> 0], cphase |-> [q \in Queues |-> TRUE],
   page |-> Blank, dma_buffer |-> Blank]

NvmeInit == nvme = NewController /\ ndev \in {NewDevice(d) : d \in Disks}

(***************************************************************************)
(* Queues.                                                                 *)
(***************************************************************************)
next_command_id(d) == [d EXCEPT !.wait = d.next_cid,
                                !.next_cid = (d.next_cid + 1) % 65536]

\* The driver, in state d with memory m, puts entry e into queue q.
Submit(q, d, m, e) ==
  LET c == next_command_id(d)
  IN  /\ nvme' = [c EXCEPT !.tail[q] = (@ + 1) % QUEUE_SIZE[q]]
      /\ ndev' = [m EXCEPT !.sq[q][d.tail[q]] = [e EXCEPT !.cid = c.wait]]

submit_admin_command(d, m, e) == Submit("admin", d, m, e)

submit_io_command(d, e) == Submit("io", d, ndev, e)

AtHead(q) == ndev.cq[q][nvme.head[q]]

\* The entry at the head is new, is the one awaited and has this status.
Arrived(q, ok) ==
  /\ AtHead(q).phase = nvme.phase[q] /\ AtHead(q).cid = nvme.wait
  /\ AtHead(q).ok = ok

\* The driver after it has taken the entry at the head.
Taken(q) ==
  LET next == (nvme.head[q] + 1) % QUEUE_SIZE[q]
  IN  [nvme EXCEPT !.head[q] = next,
                   !.phase[q] = IF next = 0 THEN ~@ ELSE @]

wait_admin_completion == Arrived("admin", TRUE)

wait_io_completion == Arrived("io", TRUE)

(***************************************************************************)
(* Start-up.  Each stage waits for one admin command.                      *)
(***************************************************************************)
StartUp == {"identify", "createCq", "createSq", "list", "namespace"}

Stage(d, s) == [d EXCEPT !.stage = s]

\* init: the controller is enabled and, once it is ready, asked what it is.
NvmeStart == submit_admin_command(Stage(nvme, "identify"), ndev, Entry("identify", 0, 0, 0))

\* new: the queues and the DMA page are made, then init.
NvmeNew ==
  /\ nvme.stage = "off"
  /\ NvmeStart
  /\ UNCHANGED client

\* No memory, a controller that does not become ready, a command that fails
\* or times out: the controller is not registered.
NvmeInitFails ==
  /\ nvme.stage \in StartUp \cup {"off"}
  /\ nvme' = Stage(nvme, "failed")
  /\ UNCHANGED <<ndev, client>>

identify_controller ==
  /\ nvme.stage = "identify" /\ wait_admin_completion
  /\ submit_admin_command(Stage(Taken("admin"), "createCq"), ndev,
                          Entry("createCq", 0, 0, 0))
  /\ UNCHANGED client

create_io_queues ==
  /\ nvme.stage = "createCq" /\ wait_admin_completion
  /\ submit_admin_command(Stage(Taken("admin"), "createSq"), ndev,
                          Entry("createSq", 0, 0, 0))
  /\ UNCHANGED client

list_namespaces ==
  /\ nvme.stage = "createSq" /\ wait_admin_completion
  /\ submit_admin_command(Stage(Taken("admin"), "list"), ndev,
                          Entry("list", 0, 0, 0))
  /\ UNCHANGED client

\* The head of the loop over the list, which is read where the Identify
\* data of the last namespace has been written in the meantime.
NextNamespace(d) ==
  LET nsid == IF d.at < Len(ndev.page) THEN ndev.page[d.at + 1] ELSE 0
  IN  IF nsid = 0
      THEN /\ nvme' = Stage(d, IF d.namespaces = <<>> THEN "failed" ELSE "ready")
           /\ UNCHANGED ndev
      ELSE submit_admin_command([Stage(d, "namespace") EXCEPT !.at = @ + 1, !.nsid = nsid],
                                ndev, Entry("namespace", nsid, 0, 0))

\* The loop's body: the geometry comes from the page, a full list drops it.
AddNamespace(d) ==
  LET ns == [nsid |-> d.nsid, num_blocks |-> ndev.page[1] + DWORD * ndev.page[2]]
  IN  [d EXCEPT !.namespaces = IF Len(@) < MAX_NAMESPACES THEN Append(@, ns) ELSE @]

identify_namespaces ==
  /\ nvme.stage \in {"list", "namespace"} /\ wait_admin_completion
  /\ NextNamespace(IF nvme.stage = "list" THEN Taken("admin")
                   ELSE AddNamespace(Taken("admin")))
  /\ UNCHANGED client

(***************************************************************************)
(* Calls.                                                                  *)
(***************************************************************************)
get_namespace(nsid) == {ns \in Range(nvme.namespaces) : ns.nsid = nsid}

\* The next part of a read: what fits into the DMA page.
Chunk(n, done) == Min({n - done, SECTORS_PER_PAGE})

read_sectors(nsid, lba, n) ==
  /\ nvme.stage = "ready"
  /\ IF get_namespace(nsid) = {} \/ n = 0
     THEN Begin("read", nsid, lba, n, "err") /\ UNCHANGED nvmeVars
     ELSE /\ Begin("read", nsid, lba, n, "busy")
          /\ submit_io_command([Stage(nvme, "read") EXCEPT !.nsid = nsid, !.done = 0],
                               Entry("read", nsid, lba, Chunk(n, 0)))

\* The first n blocks of the DMA page.
Copied(n) == [i \in 1..n |-> IF i <= Len(ndev.dma_buffer) THEN ndev.dma_buffer[i] ELSE Stale]

read_sectors_internal ==
  /\ nvme.stage = "read" /\ wait_io_completion
  /\ LET k == Chunk(req.n, nvme.done)
         done == nvme.done + k
         buf == req.buf \o Copied(k)
     IN  IF done = req.n
         THEN /\ End("ok", buf)
              /\ nvme' = Stage(Taken("io"), "ready") /\ UNCHANGED ndev
         ELSE /\ Fill(buf)
              /\ submit_io_command([Taken("io") EXCEPT !.done = done],
                   Entry("read", nvme.nsid, req.lba + done, Chunk(req.n, done)))

\* security_receive: the driver waits on the admin queue; len is the
\* caller's buffer, empty, good or larger than the page.
security_receive(len) ==
  /\ nvme.stage = "ready"
  /\ IF len # "good" THEN Begin("receive", 0, 0, 0, "err") /\ UNCHANGED nvmeVars
     ELSE /\ Begin("receive", 0, 0, 0, "busy")
          /\ submit_admin_command(Stage(nvme, "receive"), ndev, Entry("receive", 0, 0, 0))

security_send(len) ==
  /\ nvme.stage = "ready"
  /\ IF len = "large" THEN Begin("send", 0, 0, 0, "err") /\ UNCHANGED nvmeVars
     ELSE /\ Begin("send", 0, 0, 0, "busy")
          /\ submit_admin_command(Stage(nvme, "send"),
                                  [ndev EXCEPT !.dma_buffer = <<SecData>>],
                                  Entry("send", 0, 0, 0))

security_done ==
  /\ nvme.stage \in {"receive", "send"} /\ wait_admin_completion
  /\ End("ok", IF nvme.stage = "receive" THEN Copied(1) ELSE Blank)
  /\ nvme' = Stage(Taken("admin"), "ready") /\ UNCHANGED ndev

QueueOf(stage) == IF stage = "read" THEN "io" ELSE "admin"

\* The awaited command completes with an error.
NvmeCallFails ==
  /\ nvme.stage \in {"read", "receive", "send"}
  /\ Arrived(QueueOf(nvme.stage), FALSE)
  /\ End("err", req.buf)
  /\ nvme' = Stage(Taken(QueueOf(nvme.stage)), "ready") /\ UNCHANGED ndev

\* The polling loop runs out of time; the command stays with the device.
NvmeCallTimesOut ==
  /\ nvme.stage \in {"read", "receive", "send"}
  /\ End("err", req.buf)
  /\ nvme' = Stage(nvme, "ready") /\ UNCHANGED ndev

(***************************************************************************)
(* The device.                                                             *)
(***************************************************************************)
NvmeFetch(q) ==
  LET i == ndev.fetch[q]
  IN  /\ i # nvme.tail[q]
      /\ ndev' = [ndev EXCEPT !.fetch[q] = (@ + 1) % QUEUE_SIZE[q],
                              !.pending = @ \cup {<<q, ndev.sq[q][i]>>}]
      /\ UNCHANGED <<nvme, client>>

Unfetched(q) ==
  LET len == (nvme.tail[q] - ndev.fetch[q] + QUEUE_SIZE[q]) % QUEUE_SIZE[q]
  IN  {ndev.sq[q][(ndev.fetch[q] + k) % QUEUE_SIZE[q]] : k \in 0..len-1}

Outstanding == {c[2] : c \in ndev.pending} \cup UNION {Unfetched(q) : q \in Queues}

Size(nsid) == {d \in Range(ndev.disk) : d.nsid = nsid}

\* A command the device cannot but fail.
Impossible(e) ==
  \/ e.op = "namespace" /\ e.nsid > MaxNsid
  \/ e.op = "read" /\ \A d \in Size(e.nsid) : e.lba + e.n > d.num_blocks

\* Identify Namespace: size, capacity and utilization of two dwords each;
\* zeros for a namespace that is not active.
NamespaceData(nsid) ==
  IF Size(nsid) = {} THEN [i \in 1..6 |-> 0]
  ELSE LET b == (CHOOSE d \in Size(nsid) : TRUE).num_blocks
       IN  [i \in 1..6 |-> IF i % 2 = 1 THEN b % DWORD ELSE b \div DWORD]

\* What a command that succeeds writes into memory.
Written(e) ==
  CASE e.op = "list" -> [ndev EXCEPT !.page = [i \in DOMAIN ndev.disk |-> ndev.disk[i].nsid]]
    [] e.op = "namespace" -> [ndev EXCEPT !.page = NamespaceData(e.nsid)]
    [] e.op = "read" -> [ndev EXCEPT !.dma_buffer = Content(e.nsid, e.lba, e.n)]
    [] e.op = "receive" -> [ndev EXCEPT !.dma_buffer = <<SecData>>]
    [] OTHER -> ndev

\* The device runs any command it has and posts the completion.
NvmeExecute(c, ok) ==
  LET q == c[1]
      next == (ndev.ctail[q] + 1) % QUEUE_SIZE[q]
      m == IF ok THEN Written(c[2]) ELSE ndev
  IN  /\ next # nvme.head[q] /\ (ok => ~Impossible(c[2]))
      /\ ndev' = [m EXCEPT
           !.pending = @ \ {c},
           !.cq[q][ndev.ctail[q]] = [cid |-> c[2].cid, phase |-> ndev.cphase[q], ok |-> ok],
           !.ctail[q] = next, !.cphase[q] = IF next = 0 THEN ~@ ELSE @]
      /\ mixed' = (mixed \/ \E o \in Outstanding : o.cid < c[2].cid)
      /\ UNCHANGED <<nvme, req, calls>>

NvmeDriver ==
  \/ NvmeNew \/ NvmeInitFails \/ identify_controller \/ create_io_queues
  \/ list_namespaces \/ identify_namespaces
  \/ \E nsid \in 0..MaxNsid, lba \in 0..NumBlocks-1, n \in Counts : read_sectors(nsid, lba, n)
  \/ \E len \in {"empty", "good", "large"} : security_receive(len) \/ security_send(len)
  \/ read_sectors_internal \/ security_done \/ NvmeCallFails \/ NvmeCallTimesOut

NvmeDevice == \/ \E q \in Queues : NvmeFetch(q)
              \/ \E c \in ndev.pending, ok \in BOOLEAN : NvmeExecute(c, ok)

NvmeNext == NvmeDriver \/ NvmeDevice

\* The steps that end a call: the driver's loop polls and gives up in time.
NvmeProgress == read_sectors_internal \/ security_done \/ NvmeCallFails \/ NvmeCallTimesOut
=============================================================================
