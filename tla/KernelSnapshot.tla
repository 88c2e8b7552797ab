--------------------------- MODULE KernelSnapshot ---------------------------
(***************************************************************************)
(* The snapshot of the kernel's fabric on its block device: the choice of  *)
(* the device, persist, the restore at boot, and the storage agent that    *)
(* probes the same device, under crashes, a write-back cache and device    *)
(* errors.                                                                 *)
(*                                                                         *)
(* The kernel is one thread: a step ends where it touches the device.      *)
(* A block holds BlockFields fields of the encoded fabric; the checksum in *)
(* the superblock is a hash of the body, taken to be injective: the body.  *)
(***************************************************************************)
EXTENDS KernelFabric

CONSTANTS
  Inventories, \* what the firmware may list at a boot: sequences of devices
  BlockFields, \* BLOCK_SIZE, in fields
  FlushEvery,  \* FLUSH_EVERY_BLOCKS
  Probes,      \* blocks the storage agent reads and writes back
  Lines, Blobs,\* what the operator types, what the model serializes to
  MaxVersions, \* bound: fabrics there ever are
  ReadErrors,  \* reads of the device may fail
  WriteErrors, \* writes may fail
  FlushErrors  \* flushes may fail

ASSUME SnapshotAssumption ==
  /\ {BlockFields, FlushEvery, MaxVersions} \subseteq Nat \ {0}
  /\ BlockFields >= 7 /\ 0 \notin Probes
  /\ {ReadErrors, WriteErrors, FlushErrors} \subseteq BOOLEAN
  /\ Lines \subseteq Nat /\ Blobs \subseteq Seq(Nat)
  /\ \A inv \in Inventories :
       /\ Len(inv) \in Nat /\ DOMAIN inv = 1..Len(inv)
       /\ \A n \in DOMAIN inv : {inv[n].label, inv[n].blocks, inv[n].size} \subseteq Nat

VARIABLES
  storage, \* the picked device, NoDevice when there is none
  disk,    \* per device, what the medium holds; what was never written is zero
  cache,   \* blocks written to the picked device and not yet on the medium
  pc,      \* "off", "boot", "run", or the next step of persist
  past,    \* history: the fabrics that ever were, a version each
  fabric,  \* version of the fabric in memory, 0 for none
  image,   \* version persist is writing
  body,    \* its encoding, in blocks
  lba,     \* next block persist writes
  clean,   \* no operation of the device failed since persist began
  acked    \* version of the last persist that returned Ok cleanly, 0 for none

device == <<storage, disk, cache>>
writing == <<image, body, lba>>
vars == <<device, pc, past, fabric, writing, clean, acked>>

NoDevice == [name |-> "none"]
Names == UNION {{inv[n].name : n \in DOMAIN inv} : inv \in Inventories}

Goto(step) == pc' = step

Zero == [n \in 1..BlockFields |-> <<0>>]
Get(blocks, b) == IF b \in DOMAIN blocks THEN blocks[b] ELSE Zero
Store(blocks, b, x) == [c \in DOMAIN blocks \cup {b} |-> IF c = b THEN x ELSE blocks[c]]

Over(blocks, medium) ==
  [b \in DOMAIN blocks \cup DOMAIN medium |-> IF b \in DOMAIN blocks THEN blocks[b] ELSE medium[b]]

Seen == Over(cache, disk[storage.name])
Put(b, x) == cache' = Store(cache, b, x)
Flushed == [disk EXCEPT ![storage.name] = Over(cache, @)]

Init ==
  /\ storage = NoDevice
  /\ disk = [name \in Names |-> <<>>]
  /\ cache = <<>>
  /\ pc = "off"
  /\ past = <<>>
  /\ fabric = 0
  /\ image = 0 /\ body = <<>> /\ lba = 1
  /\ clean = TRUE
  /\ acked = 0

(***************************************************************************)
(* Power on: the largest disk that the kernel was not loaded from.         *)
(***************************************************************************)
Ancestor(d, inv) == \E n \in DOMAIN inv : inv[n].boot /\ IsStrictPrefix(d.path, inv[n].path)

Eligible(inv) ==
  {n \in DOMAIN inv : LET d == inv[n] IN
     ~d.boot /\ ~Ancestor(d, inv) /\ ~d.partition /\ d.size # 0 /\ d.blocks # 0}

Total(d) == d.blocks * d.size

Picked(inv) ==
  IF Eligible(inv) = {} THEN NoDevice
  ELSE inv[CHOOSE n \in Eligible(inv) : \A m \in Eligible(inv) \ {n} :
             \/ Total(inv[m]) < Total(inv[n])
             \/ Total(inv[m]) = Total(inv[n]) /\ n < m]

\* Every boot that finds a disk to keep the snapshot on picks the same one: what the
\* theorem on NeverStale assumes of the firmware.
OneDisk == \A i, j \in Inventories :
  Picked(i) # NoDevice /\ Picked(j) # NoDevice => Picked(i).name = Picked(j).name

PowerOn ==
  /\ pc = "off"
  /\ \E inv \in Inventories : storage' = Picked(inv)
  /\ Goto("boot")
  /\ UNCHANGED <<disk, cache, past, fabric, writing, clean, acked>>

(***************************************************************************)
(* Boot: restore the snapshot, or make a fresh fabric; persist it at once. *)
(***************************************************************************)

\* Where the n-th field of a body lies: blocks and places in them count from 1.
BlockOf(n) == ((n - 1) \div BlockFields) + 1
Offset(n) == ((n - 1) % BlockFields) + 1

\* The encoded fabric in blocks: the last one is filled up with zeroes.
Blocks(f) ==
  LET fields == EncodeSnapshot(f)
      at(n) == IF n \in DOMAIN fields THEN fields[n] ELSE <<0>>
  IN [b \in 1..((Len(fields) + BlockFields - 1) \div BlockFields) |->
        [n \in 1..BlockFields |-> at((b - 1) * BlockFields + n)]]

Magic == <<1>>
Version == <<1>>
Superblock(f) ==
  LET fields == EncodeSnapshot(f)
  IN <<Magic, Version, <<f.lamport>>, <<Len(f.nodes)>>, <<Len(f.edges)>>, <<Len(fields)>>, fields>>

Trusted(checksum, fields) == TRUE  \* mutant: the checksum is not compared
Checked(checksum, fields) == fields = checksum

\* What restore makes of a device: a sequence of at most one fabric.  The counts in
\* the superblock are not looked at.
Found(medium) ==
  LET sb == Get(medium, 0)
      len == sb[6][1]
      fields == [n \in 1..len |-> Get(medium, BlockOf(n))[Offset(n)]]
  IN IF sb[1] # Magic \/ sb[2] # Version \/ ~Checked(sb[7], fields) THEN <<>>
     ELSE DecodeSnapshot(fields)

\* A fabric that was never there before is a new version of its own.
Loads(f) ==
  LET same == {v \in DOMAIN past : past[v] = f}
  IN IF same = {} THEN past' = Append(past, f) /\ fabric' = Len(past) + 1
     ELSE past' = past /\ fabric' = CHOOSE v \in same : \A w \in same : w <= v

Becomes(f) ==
  IF fabric # 0 /\ past[fabric] = f THEN UNCHANGED <<past, fabric>>
  ELSE /\ Len(past) < MaxVersions
       /\ past' = Append(past, f)
       /\ fabric' = Len(past')

StartPersist(v) ==
  /\ image' = v
  /\ body' = Blocks(past'[v])
  /\ clean' = TRUE
  /\ lba' = 1
  /\ Goto("body")

Restore ==
  /\ pc = "boot" /\ storage # NoDevice
  /\ Found(Seen) # <<>>
  /\ Loads(Found(Seen)[1])
  /\ StartPersist(fabric')
  /\ UNCHANGED <<device, acked>>

FreshGenesis ==
  /\ pc = "boot"
  /\ \/ /\ storage = NoDevice
        /\ Becomes(Genesis)
        /\ Goto("run")
        /\ UNCHANGED <<writing, clean>>
     \/ /\ storage # NoDevice
        /\ ReadErrors \/ Found(Seen) = <<>>
        /\ Becomes(WithStorage(Genesis, storage))
        /\ StartPersist(fabric')
  /\ UNCHANGED <<device, acked>>

(***************************************************************************)
(* The main loop: an exchange with the operator or an event changes the    *)
(* fabric; the agent probes the device; what was learned is persisted.     *)
(***************************************************************************)
Submit(line) ==
  /\ pc = "run"
  /\ Becomes(Exchange(past[fabric], line, line))
  /\ UNCHANGED <<device, pc, writing, clean, acked>>

\* What the agent read, a failed persist, the model's judgement of itself.
Report(text) ==
  /\ pc = "run"
  /\ Becomes(Event(past[fabric], text))
  /\ UNCHANGED <<device, pc, writing, clean, acked>>

\* ACT_WRITE: a read whose result is ignored, then a write of the buffer; a node
\* says so, while MaxVersions allows.
AgentWrite(b, text) ==
  /\ pc = "run" /\ storage # NoDevice
  /\ \/ Put(b, Get(Seen, b)) /\ UNCHANGED clean
     \/ ReadErrors /\ Put(b, Zero) /\ clean' = FALSE
  /\ IF Len(past) < MaxVersions THEN Becomes(Event(past[fabric], text))
     ELSE UNCHANGED <<past, fabric>>
  /\ UNCHANGED <<storage, disk, pc, writing, acked>>

Persist(blob) ==
  /\ pc = "run" /\ storage # NoDevice
  /\ Becomes(Learned(Learned(past[fabric], Model, blob), Storage, blob))
  /\ StartPersist(fabric')
  /\ UNCHANGED <<device, acked>>

NextAfterBlock ==
  IF lba % FlushEvery = 0 THEN "flush" ELSE "body"

WriteBody ==
  /\ pc = "body"
  /\ lba \in DOMAIN body /\ lba < storage.blocks
  /\ Put(lba, body[lba])
  /\ lba' = lba + 1
  /\ Goto(NextAfterBlock)
  /\ UNCHANGED <<storage, disk, past, fabric, image, body, clean, acked>>

NameAtOnce == "super"              \* mutant: no flush before the superblock
FlushFirst == "flushBody"

BodyWritten ==
  /\ pc = "body"
  /\ lba \notin DOMAIN body
  /\ Goto(FlushFirst)
  /\ UNCHANGED <<device, past, fabric, writing, clean, acked>>

FlushLast == "flushSuper"

WriteSuperblock ==
  /\ pc = "super"
  /\ Put(0, Superblock(past[image]))
  /\ Goto(FlushLast)
  /\ UNCHANGED <<storage, disk, past, fabric, writing, clean, acked>>

\* A failed write, or one past the end of the device, ends persist with an error,
\* with the blocks before it written.
WriteFails ==
  /\ \/ WriteErrors /\ pc \in {"body", "super"}
     \/ pc = "body" /\ lba \in DOMAIN body /\ lba >= storage.blocks
  /\ clean' = FALSE
  /\ Goto("run")
  /\ UNCHANGED <<device, past, fabric, writing, acked>>

AfterFlush == [flush |-> "body", flushBody |-> "super", flushSuper |-> "readback"]

\* The result of the flush is ignored.
Flush ==
  /\ pc \in DOMAIN AfterFlush
  /\ \/ /\ disk' = Flushed
        /\ cache' = <<>>
        /\ UNCHANGED clean
     \/ FlushErrors /\ clean' = FALSE /\ UNCHANGED <<disk, cache>>
  /\ Goto(AfterFlush[pc])
  /\ UNCHANGED <<storage, past, fabric, writing, acked>>

\* The superblock is read back, whatever it holds, and persist returns Ok.
ReadBack ==
  /\ pc = "readback"
  /\ acked' = IF clean THEN image ELSE acked
  /\ Goto("run")
  /\ UNCHANGED <<device, past, fabric, writing, clean>>

(***************************************************************************)
(* The device writes cached blocks to the medium in any order; a crash or  *)
(* a forced stop loses the cache and the memory.                           *)
(***************************************************************************)
WriteBack(b) ==
  /\ disk' = [disk EXCEPT ![storage.name] = Store(@, b, cache[b])]
  /\ cache' = [c \in DOMAIN cache \ {b} |-> cache[c]]
  /\ UNCHANGED <<storage, pc, past, fabric, writing, clean, acked>>

Crash ==
  /\ pc # "off"
  /\ storage' = NoDevice
  /\ cache' = <<>>
  /\ pc' = "off"
  /\ fabric' = 0
  /\ image' = 0 /\ body' = <<>> /\ lba' = 1
  /\ UNCHANGED <<disk, past, clean, acked>>

Kernel ==
  \/ PowerOn \/ Restore \/ FreshGenesis
  \/ \E line \in Lines : Submit(line) \/ Report(line)
  \/ \E blob \in Blobs : Persist(blob)
  \/ \E b \in Probes, text \in Lines : AgentWrite(b, text)
  \/ WriteBody \/ BodyWritten \/ WriteSuperblock \/ WriteFails
  \/ Flush \/ ReadBack

Next ==
  \/ Kernel
  \/ \E b \in DOMAIN cache : WriteBack(b)
  \/ Crash

Spec == Init /\ [][Next]_vars

-----------------------------------------------------------------------------
Steps == {"off", "boot", "run", "body", "flush", "flushBody", "super", "flushSuper", "readback"}
TypeOK ==
  /\ storage = NoDevice \/ storage.name \in Names
  /\ DOMAIN disk = Names
  /\ pc \in Steps
  /\ Len(past) <= MaxVersions
  /\ {fabric, image, acked} \subseteq 0..Len(past)
  /\ lba \in 1..(Len(body) + 1)
  /\ clean \in BOOLEAN

\* What a restart after a forced stop now would restore from a device.
OnMedium(name) == Found(disk[name])

\* The superblock reaches the medium only after the body it names: as soon as the
\* new one is there, its checksum is the checksum of the body behind it.
SuperblockNamesBody ==
  clean /\ pc \in {"flushSuper", "readback", "run"} /\ image # 0
  /\ Get(disk[storage.name], 0) = Superblock(past[image])
    => OnMedium(storage.name) = <<past[image]>>

\* Once persist returned Ok on a device that did not fail, the snapshot survives
\* a forced stop, also while the agent probes the blocks it lies in, until the
\* next persist begins.
AckedIsDurable ==
  pc = "run" /\ clean /\ image # 0 => OnMedium(storage.name) = <<past[image]>>

\* The snapshot persist writes is durable, from its superblock on: what a restart
\* decodes is the fabric that was encoded.
SnapshotDurable == SuperblockNamesBody /\ AckedIsDurable

\* Whatever fails, a restart never restores a mixture of fabrics, nor one older than
\* the last that was acknowledged cleanly: it restores that one, a later one, or
\* nothing; and only the disk that every boot picks is ever written.
NeverStale ==
  /\ \A name \in Names : LET found == OnMedium(name) IN
       found # <<>> => \E v \in acked..Len(past) : v # 0 /\ found = <<past[v]>>
  /\ Cardinality({name \in Names : disk[name] # <<>>}) <= 1

\* Fabrics are sound wherever they come from, the machine, the operator or a snapshot:
\* no two nodes share an id or a time, none is newer than the clock, and no edge
\* dangles; and what encode_snapshot makes of one, decode_snapshot takes back.
FabricsSound ==
  past # <<>> => LET fields == EncodeSnapshot(past[Len(past)]) IN
    /\ IsSound(past[Len(past)])
    /\ fields \in Seq(Seq(Nat))
    /\ DecodeSnapshot(fields) = <<past[Len(past)]>>

(***************************************************************************)
(* What the comments say, and the code does not do.                        *)
(***************************************************************************)
\* A crash leaves a valid superblock, the old or the new one.
CrashKeepsSnapshot == acked # 0 => \E name \in Names : OnMedium(name) # <<>>
=============================================================================
