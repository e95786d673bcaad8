# AWIG-OS: a TLA+ model of the governed record

AWIG-OS keeps one append-only record. Every act of every actor is decided by a
gate that reads folds over the record, and its outcome - permit, refusal or
failure - is appended to it. Everything else (who holds root authority, which
grants live, which files exist) is *derived* from the record by folds. The
Python kernel (`src/code/src/kernel`, `bridge`, `subsystems`) implements this;
a freestanding C kernel (`src/code/src/body`) is the machine it is to run on.

1. [Components](#components-their-state-and-how-they-interact)
2. [Modules](#modules)
3. [Runs](#runs)
4. [Proofs](#proofs)
5. [Findings](#findings)
6. [Observations](#observations)
7. [Not modelled](#not-modelled)

## Components, their state and how they interact

| component | state it keeps | operations | hard behaviour | modules |
|---|---|---|---|---|
| write path (`gate.execute`, `store._publish/_append_one`, `commit.GroupCommit`) | decide region, write lock, `events`, submissions, appender role, poison flag | decide, publish, mirror, enqueue, take the role, batch, barrier, release, answer | many threads, a barrier that fails, a crash between write and sync, listeners that append from inside an append | `RecordLog`, `GroupCommit` |
| record file (`store.__init__/_load/close`, `host_seam.lock_*`) | lines, the lock file and its OS lock, the live-writer registry | open, lock, load, demote, write, sync, close | two processes opening at once, a process killed mid-line, power loss, reopening | `RecordFile` |
| gate (`gate._decide`) | the registry of handlers; all else is the record | check, refuse, run, stamp | a door of many steps over folds that other acts change | `Door`, `Constitution`, `Views` |
| root authority (`views`, `gate`, `keys`, `boot`) | accounts, verifications, designation, holder, keys, brakes | create, verify, designate, accept, hand over, bind/rotate/revoke, brake | long sequences of individually legal acts; folds that read an old record with today's root | `RootAuthority` |
| attenuation (`authority`) | space tree, grants, roles, tree of groups | grant, revoke, found a space or role, contain | re-minting under a live id, re-parenting under a live grant | `Attenuation`, `Door` |
| reconcile | deciding and recording time | late law, sweep, overturn, ask again | nested executes, held laws, a stop in between | `Reconcile` |
| views and projections (`views`, `store`) | memos, generations, marks | read, append, kill, restart | an answer kept past a row that changes it | `Views` |
| law as data (`opdefs`, `gate`) | definitions on the record, handlers in the registry | found, amend, retire, load | two holders of one fact; definitions that mean other than they say | `Constitution`, `OpShape`, `OpChecks` |
| crossing, border | hand-outs and answers; tunnels, relations, receipts | hand out, answer, submit, receive, adopt | duplicate, late and unasked-for answers, ground that moves | `Crossing`, `Border` |
| push, obligations | lanes, budgets, sessions; commitments | step, derive; fire | state kept from append to append; a list computed once and fired later | `Push`, `Obligations` |
| bytes (`blobs`, `erasure`, `checkpoint`, `auto_recover`) | files by content, departures, checkpoints | put, hand over, recover, replicate, splice | renamed but not synced, a directory nobody syncs, an irreversible effect before its record | `Keeping` |
| integrity (`merkle`, `seal`, `reconstruct`) | trees, sealed pieces, segments | localize, prove, seal, salvage | forged or misplaced parts, one listed before the genuine | `Merkle`, `Sealing`, `Rebuild` |
| files (`custody`, `kernel_port`, `records_fs`) | namespace, handles, bursts, locks | create, rename, unlink, write, flush, lock | records that reach a listener out of order; two readers of one record | `Custody`, `KernelPort`, `RecordsFs` |
| subsystems | folds and caches | open, allocate, bind, wake | a check and a view that fold the same rows differently | `Comms`, `Memory`, `Wire`, `Devices`, `Runqueue` |
| founding, boot (`install`, `boot`, `compose`, `attestation`) | which rows landed; image, engine, signer | land, attest, bind, wake, witness | a cut between any two rows, another version at the next open, a key that is revoked under the signer | `Founding`, `Wake` |
| observers (`observe`) | what a window saw last | poll, drain, submit | the world changes meanwhile, restarts | `Observe` |
| body (C) | threads and futex waits, BODYFS sectors, page frames | yield, wait, wake, write, rename, map | deadlines racing wakes, power loss between sectors, writes whose failure nobody heeds, exhaustion | `Threads`, `Disk`, `Frames` |
| tools with state | the message log; the board's log | capture, ring; write a line | kills between three files; a line about the past | `Postman`, `Board` |

The gate is called by everything above it (border, files seam, subsystems,
obligations); it calls the views for its decision and the store for the one
write. The store calls its listeners (protection's mirrors, push, the files
seam's fold) from inside the append, on the appending thread. `PROJECT.json`
lists each component with what is modelled, and each hazard at the line where
it bites with the properties that would catch it.

Because an act is decided and appended under one region - which `GroupCommit`
shows and proves - the modules above it take the decision and the append of one
act as one step, and keep apart only what the code does outside the region.

## Modules

### The record

**`RecordLog`** is what the write path promises: an append-only sequence with a
durable prefix and a set of acknowledged records inside that prefix; a crash
cuts the sequence to at least the durable prefix.

**`GroupCommit`** is the write path, one action per step of a thread:
`EnterRegion`/`ExitRegion` (`Gate.execute`), `Publish`, `AcquireWriteLock`,
`Write`, `CountersignRefuses`, `WriteFails` (`_publish_one`, `_append_one`),
`Mirror`, `ListenerRaises` (`protection` on the append callback), `Published`,
`Enqueue`, `TakeRole`, `TakeOne`, `CloseBatch`, `StartBarrier`,
`BarrierReturns`, `BarrierFails`, `Release`, `LeaveRole`, `Answer`
(`GroupCommit.await_pending/_drain/_take_batch/_commit`, `_commit_batch`,
`_poison`), `AppendDirectly` for callers that hold no region, and `Crash`. A
submission is its record's seq, or the thread that waits for it. Record
contents are who wrote it, in which act and in which role; digests and
countersignatures appear as the failures they can cause.

**`RecordFile`** is the file under it: lines, inodes of the lock file, POSIX
locks that belong to processes, the registry of live writers, and stores that
open (pid check, demotion, lock, load), write a line, write half of one, sync,
are poisoned, close (unlock, then unlink), while processes die and power is
lost.

**`Views`** is the store's projections and the folds the gate decides by:
which rows a fold depends on, the two generations, the memo, the catching up
when read, `Kill` at any time, restarts; required stamps and the pending list;
view definitions that bind a fold, derive from one another, or are paper
tigers.

**`Keeping`** is the bytes beside the record: `put` with its temporary file,
rename and the sync of the file's directory, each of which may raise, the second
put that finds the bytes in place and asks `barriered` whether they are synced,
the departure of bytes with its receipt, recover with its check of the prefix,
the checkpoint and its replica, the recover that fires by itself. `made` and
`lasting` are the fan-out directories: their own names are synced by nobody
(`blobs.py:42`), so each made since the last power cut may go at the next with
all that is in it. At any step the process may stop, which loses only its
memory, or the power go. **`Merkle`**, **`Sealing`** and **`Rebuild`** are the
tree of hashes over a checkpoint, the sealed pieces with their readers, and the
salvage of a lost parent from its children's segments, taken in the order they
come: what was claimed once is passed over, before it is known whether the
first claim verifies (`Considered`, `Verifies`, `Refused`). Hashes are taken to
be injective and ciphers as strong as their keys.

### Who may do what

**`RootAuthority`** is the succession ceremony with everything the gate
consults for it: account classes and bands, verification as a least fixed
point over who vouched for whom, designation, acceptance, handover, the keys
and their leash, the signed door, the watcher brake and its resolution. `namer`
and `willing` are history variables: who made the standing designation and
which acceptance answers it.

**`Attenuation`** is the power structure of `kernel/authority.py`: `parent`,
`grants` and `roles` are the latest-wins folds `spaces()`, `grants()` and
`roles()`, and the actions `GrantTo`, `Revoke`, `CreateSpace` and `CreateRole`
carry the gate's checks in full: the family leash for everyone but the root, the
orphan bar and the space-tree bar for everyone. A grant's dimension is the set of
values it covers; the wildcard is the whole set, which holds one value
(`AnyOther`) that no list can name, so that a list of everything known is still
narrower than the wildcard. A chain of parents is the least set closed under
`parent`, which needs no recursion and can be proved about. `standing` and
`moved` are history variables: the covers the root left standing when it last
acted, and whether an account has moved a founded space since. The root is not
bound by the leash, so each of its acts starts the measure anew.

**`Door`** is one act at the gate: the call held against its parameters, the
pairing of the actor's class with the operation's arm, the tree of groups with
its loop bar, the must-nots in scope, what two bodies present when they meet;
beside it the census of past acts and the slice of the rules a session takes
offline. **`Constitution`** is the guard on the law about the law, and the
registry of handlers that a listener keeps up and a replay rebuilds.
**`Reconcile`** is the sweep of a late law: an act is judged again in the world
of its deciding time, round by round, the anchor is asked, and one overturn per
act is recorded, between which the process may stop. `sweep` is the set of
overturns still to record, of which `Commit` takes the one of the earliest act.
The fold of the grants leaves out what was overturned; the folds of the root
(`ChainEnd`) and of the law (`Bars`) read every row.

**`OpShape`** is the definition door: a definition (its parameters, defaults,
minted identities, routers, check rows and envelope) is admitted, and then
called in every way. **`OpChecks`** is the interpreter of the check rows.
**`Comms`**, **`Memory`**, **`Wire`**, **`Devices`** and **`Runqueue`** are the
founded operations of the subsystems over those rows, each with the view that
shows the same record.

**`Founding`** is the landing of the founding pack, validated whole and
appended row by row, cut anywhere and opened again under any pack. **`Wake`**
is what follows: the boot, which the act kinds at the call sites may refuse
before the engine is attested; the seating of the system signer and its mark;
the key rows of the system that anybody's operations write, a bind, a rotation,
a revocation; the wake checklist, the witness pair, and the check of the running
build's call sites and closed set against the founded act kinds.

### What crosses, what is owed

**`Crossing`** is the question put outside: the seal over the pinned view of a
pack, the claim of an earlier deciding time, the answer, the guard, the asking
anew. **`Border`** is what crosses between bodies: submits and answers that cite
a content hash, tunnels, relations, received rows and their receipts, law
received and law adopted. **`Push`** is the standing engine with its lanes,
budgets and reserve, and its two drivers, the worker and the derivation.
**`Obligations`** is the executor: what is due is computed once and fired one by
one. **`Observe`** is the windows, the runner's batch, the shadow tables.
**`Postman`** and **`Board`** are the two tools that keep a log of their own.

### Files

**`Custody`** holds the two readers of the file records: the port's custody fold
and the gate's law namespace. **`KernelPort`** is the seam to the kernel module,
whose listener may be handed a mirror before the record that caused it, and
which tells the kernel the mark up to which it has folded. **`RecordsFs`** is
the user-space mount: bursts per handle merged over what others recorded
meanwhile, hidden names of files still open, byte-range locks, owners, the
brake and the halt. A refused act puts its burst back; a call may also end in an
error that is no refusal (a failed batch, a poisoned store, a blob that cannot
be stored), and then the burst it was closing is gone (`CallFails`).

### The body

**`Threads`** is the concurrency floor: the thread table of `body/enclosure.c`
(slots, states, the futex word and deadline a thread waits with), the
round-robin scheduler, FUTEX_WAIT, FUTEX_WAIT_BITSET and FUTEX_WAKE with what
`serve_request` does around them, clone3 and the exit of a thread. There is one
CPU and the kernel runs with interrupts off, so a system call runs from its
entry until some thread is back in ring 3 or the CPU idles, in one step; `Tick`
is the timer interrupt. `kctx` is where a thread that does not run stands in the
kernel, and `frame` is what its futex entry keeps on the kernel stack: the
CLOCK_REALTIME timespec it converted in place and what to put back. What the
program does is external and kept to two rules: a thread id's word is joined
once, by another thread (`MayWaitOn`), and a timespec is rewritten only while no
wait uses it. `counted` (who a wake counted) and `due`, `laid` (the deadlines
the program meant) are history variables.

**`Disk`** is BODYFS: each act is a fixed order of data sectors, superblock and
directory sector, each with its flush. A data sector that fails ends the act. A
failed write of the superblock or the directory and a failed flush are not
looked at (`bodyfs.c:128`): the act goes on and answers (`PerformUnheeded`).
`disk` is what the drive answers a read with, `firm` what its last good flush
made durable; the power may go at any step, with any of the sectors since then
written. `unheeded` counts the failures of a mount that nobody heeded. **`Frames`** is the
frame bitmap, one page-table hierarchy per enclosure, the break, map, unmap and
protect acts of `serve.c`, and the ring-0 heap.

### For TLC

`Threads`, `Disk` and `Wake` have runs of their own. The MC modules check
several instances, and mostly several components, in one run: a behaviour
chooses a *part* in its first state and stays in it, and a bank of variables
stands in for the variables of that part's module. Nothing of a part's module is
replaced; the parts are separate state spaces. `MCGroupCommit` holds the gated
write path, the same with failing writes and barriers, the same with threads
that submit for ever, and the obligations. Submitters without end have a log of
their own (`window`, `kept`, `told`) of which only the last record is kept when
a thread begins anew: no guard of the write path reads a record or compares two
places of the log, and the parts with bounded acts check what is said of it.
`MCRootAuthority` the ceremony with keys and the ceremony with vouching;
`MCAuthority` extends `Attenuation`, `MCRecord` extends `RecordFile` (and gives
its two failing runs their processes), `MCEstate` extends `Crossing`.

`PROJECT.json` maps each definition to the lines it translates; a helper of a
line or two is mapped through the definition that uses it.

## Runs

Runs that pass:

| run | shows | bounds |
|---|---|---|
| `commit_gated` | three threads through the gate with failing barriers, echo mismatches and a crash: decides are serial, replies follow the covering sync, every wait is told and every act ends once no more begin (`CallersAreServed`), the write path implements `RecordLog`; the same for audited acts with every failure there is, of which an acknowledged one is durable with both mirrors; the same liveness with three threads that submit for ever, without failures; and two drivers fire what is due | batches of two out of three, so that a batch leaves somebody behind; unaudited acts, so that a late record can be waited for; two threads for the audited acts |
| `threads` | threads that spawn, lock, join, wait with deadlines and end: no idling over work, wakes and timeouts that agree, joins that end, no early timeout, every runnable thread runs, every timed wait ends | three slots and three threads after main, so that a finished thread's slot and word are taken again; two ticks, deadlines of now and the next; an epoch of five, so that an unconverted deadline never comes |
| `root_full` | one account, the founding root and SYSTEM, with keys, reclassification and brakes, or two accounts that verify one another: transfers are lawful and keyed, a standing designation is the root's and the acceptance its answer, only who was vouched for is root, the founding root never returns | two verifications, so that root authority can move, and two keys, with a brake beside one of them; or three verifications: a cycle of vouching and a second handover |
| `authority` | grants, sweep, law, founding and door, below | below |
| `record` | the record file, the write path with every fault, bytes, trees, seals, segments, and the ports, below | below |
| `estate` | subsystems, definitions, push, crossings, border, post, board, disk, frames, waking, views and observers, below | below |

The parts of `authority`:

| part | what it holds | bounds |
|---|---|---|
| grants | `EveryChainEndsAtMother`, `PowerDescends` | two accounts and the root; the openness grant and one more id, so that a grant can rest on another and be cut off from it; three spaces, so that a move can loop, two once a role is founded; accounts and inner spaces symmetric |
| sweep, refusal, handed, later | `SweepIsExact`: sweeps land whole, orphan no grant, move no root, leave nothing but what was refused, cite what brought them, and ask again only for a reason | four acts, one of them late, one held law; and five records after an opening: a refusal of a barred actor, a refusal between handovers, two laws of which the second fells a grant decided after the first |
| law | `LawIsWhatIsRecorded`: the registry is the replay, the founded protections are never lost | three operations of the three tiers, three acts, a store that is missing, restarts |
| founding | `LawIsWhatIsRecorded`: founded whole and once | a good pack and seven with one fault or another version; two landings, a stop between any two rows |
| called, paired, grouped, ruled, met | `DoorIsSound`, one topic each | two to five acts, the shortest in which a step's ground changes after it was taken |

The parts of `record`:

| part | what it holds | bounds |
|---|---|---|
| reopen, race | `WriterHoldsTheRecord`: one writer, who has replayed all that was acknowledged; a seq names one record; only whole lines count | two stores of one process with two inodes, two records, two deaths; or one store in each of two processes, three records, three deaths (a writer, its successor, its successor's successor) |
| write path | `KeptInTrust`: an acknowledged act is durable with both mirrors, beside a caller that holds no region | a gated thread with two acts, so that an act follows a failed one, beside a direct one with one, every fault |
| keeping | `EveryNameIsAnswered`: what the record names is answered by its bytes or their departure | one content in one fan-out directory, three records, two stops or power cuts, so that a directory or a mark can go and be made again, spoilt storage, one peer |
| tree, sealing, salvage | `KeptInTrust`: trees that differ are told apart at the right place, proofs follow only from their tree, removed readers stay out, what is salvaged is the parent's, and what a child held whole is there unless a refused claim came first | all pairs of trees over three paths; two readers, two contents, two pieces; three positions, two segments in their order |
| seam | `PortsServeTheRecord`: a fill is the fold of the prefix it names, the tree is whole, recover restores, the two readers agree but for moved directories | two names in two levels, four records, an audited act for out-of-order delivery |
| bytes, naming, nesting, locking, owning | `PortsServeTheRecord` and `AcceptedBytesStay`: the mount serves the fold; a handle reaches its file and reads its writes; locks do not conflict; a burst closed keeps the others' bytes, and accepted bytes leave it only into a record, or with a call that fails, which loses one burst at most | one file for the bytes and the locks, two handles, two bytes, two burst events, three records for the bytes and the owners and four for the rest; a hidden name; for nesting a directory that is renamed over an open file; two lock owners, of whom the first to lock is named; two users of whom one is mapped |

The parts of `estate`:

| part | what it holds | bounds |
|---|---|---|
| channels, budget, net, driven, queue | `RowsMeanTheRecord`: a taken slot is its opener's, grants stay under the ceiling, a row speaks of one opening, I/O needs live custody, no process is lost | two entities, four to eight records: an opening, a close, an opening by another |
| shape | `RowsMeanWhatTheySay`: an admitted definition runs as its rows and its envelope say | every pair of the row kinds over three parameters, three keys in two levels, and every call |
| pushed | `StandingIsDerived`; `SettledStaysSettled`: the reserve is kept | one topic, two sessions, two budgets, four records |
| asked, claimed | `AnswersAreFresh`; `SettledStaysSettled`: what is closed stays closed | two objects of two values, six records; with claims five |
| border | `CrossingsAreGrounded`: what crossed stands on what this body held | two parents, a rule that cites another, two entities, four records |
| board | `BoardIsItsLog` | two foundings, three lines |
| platter | `DiskIsSound` | two names and a lock, four entries, sectors of two bytes, four acts, failed data sectors, one power cut, one failure nobody heeds; three acts once either happened |
| paged | `FramesAreKept` | ten frames, two enclosures, five acts: the pool runs dry in the middle of a map |
| waking, marking | `BootIsHonest` | two bodies; four rows, with keys of the root, seals, and one damaged image or changed engine of four builds; six rows with binds, rotations and revocations of the system key |
| posted | `CrossingsAreGrounded`: what a seat writes is captured once and never left lying; `SettledStaysSettled`: no second ring | two addressees of whom one has a session, two configurations, three outputs, or two and a kill |
| laws, packs, items, effects, stamps, forms | `ViewsAreTheRecord`, a topic each | three or four rows of each kind a fold selects and one it does not |
| polled, mounted, watched, reread | `ObserverIsHonest` | two windows each, three or four changes of the world, a restart |

The bounds above are in the CONSTANTS of the instances (`Max...`), which the
guards name, and in the MC modules' next-state relations (`MountPart`,
`SmallPost`, `FewOutputs`, `FailsEarly`). Values that play the same role - objects, regions,
entities, parents, lock owners - are named in an order there (`...InOrder`), which
leaves out only behaviours that differ from one explored by a renaming; names
and accounts are symmetric by TLC's own `SYMMETRY`. A part's bound is the smallest at which its mutants and the cases
listed in its module's comments happen. Where a part may stop - a record nobody can open, an
estate with nothing left to do, a bounded record that is full - deadlock is not
checked; `commit_gated` and `threads` check it.

**Fairness.** `CallersAreServed` is `EveryWaitIsTold` and `EveryActEnds`, which
assume weak fairness of each thread's own step: the host schedules runnable threads and system calls return.
`EveryWaitIsTold` asks no more: who waits for a submission is answered although
others submit for ever. `EveryActEnds` does. A leader whose own reply is set goes
on draining until the queue is empty (`commit.py:307-339`), and while others
keep submitting it need never be, so that the leader's caller is not returned to
although its record is long durable; without the premise TLC finds exactly
that. The property therefore supposes `Pause`, that from some time on no act
begins. That is an assumption on the callers, not on scheduling, and nothing in
the code provides it. `RipeIsFired`
assumes the same of each driver's pass: a pass begun goes on, and the waking and
the clock come again. Nothing is assumed of crashes or faults, and a thread
waiting on a lock is only promised to run when the lock is free.
`RunnableGetsItsTurn` and `TimedWaitsEnd` assume weak fairness of the timer: the
interrupt is periodic, and one that arrives inside a system call is taken when
interrupts are on again, in ring 3 or in the idle loop's `hlt`. Nothing is
assumed of the threads; one may compute forever. No liveness is claimed of the
other modules: what they do is started by callers.

## Proofs

Each holds for every value of the constants, under the named assumptions of the
component's module and those the theorem states. The bounds (`Max...`) are
constants too: a theorem holds for records of any length and any number of
deaths.

**`GroupCommitProofs`** proves `TypeCorrect`, `DurabilityOfReplies` and
`WritePathImplementsLog`, for any number of threads and any width, crashes and
failing barriers included. `ReplyImpliesDurable` is not inductive: nothing in it
says why the verdict a thread is about to be given is right. The strengthening
`IInv` is `TypeOK`, `PositionsOK` (the positions in `pending`, `mark` and
`durable` lie in `events`), `LocksOK` (the write lock and the appender role each
have one holder, at the phase that says so), `FlightOK` (a submission waits in
the queue or the batch, in one place, and has no reply yet) and `CoverOK`:
between `StartBarrier` and `BarrierReturns` the mark covers every record of
every batch member, and a verdict is "ok" only when `durable` has reached it.
The last theorem follows from the same invariant: every step maps to a step of
`RecordLog` or to a stutter.

`SerialDecides` proves `DecidesAreSerial` under `Direct = {}`. Its invariant adds
that the region belongs to exactly the thread between `EnterRegion` and
`ExitRegion`, and that until an act's first record is written the log is the one
it was decided on. The assumption is needed and is the code's: a caller that
appends without deciding, such as the store's attestation at boot, takes only
the write lock, so with one in `Direct` the log may move between a decision and
its record.

`AckedActsAreWhole` proves `AckedActIsWhole` and `LateRecordsNeverAcked` for
gated and direct callers and every fault. Its invariant follows a record from its
write to its reply: while a governed record is under way what is to be mirrored
is the record being published (`PublishOK`), a list somebody waits on holds both
mirrors of each audited record (`PendingOK`), and a barrier in flight, a verdict
"ok" and a reply "ok" are never about a record written after the poisoning
(`TimelyOK`). A list may hold such a record, but then the store is poisoned and
no further barrier starts.

**`RecordFileProofs`** proves `RecordFileTypes` and, of `WriterHoldsTheRecord`,
two cases: `OneProcessHoldsTheRecord`, all stores in one process, which opens,
demotes, closes and reopens them; and `RacersHoldTheRecord`, any number of
processes with one store each, which race, are killed and start again but do not
close. Both rest on one invariant of the file (`FileOK`) under `Sole`, that at
most one store is registered as writer: what was acknowledged is synced, what a
writer wrote and has not synced is on the file, and it mints for the line that
comes next. `Sole` has two reasons: within a process the registry of live
writers (`RegistryOK`, which also gives `ProcessAdmitsOneWriter` for any
processes), across processes the lock on the inode the path names (`LockOK`). The
two hypotheses are needed. With a close between processes the path is unlinked
while another holds the old inode open, which is the run `lock_race`. With
several stores in a process that has rivals, a store that looks at the lock file
and closes its descriptor drops the POSIX lock of the whole process, also that
of the store that is writing, and a rival already past its look at the pid gets
it. A line glued to a torn tail is `Bad` from then on; the invariant says of it
what `torn_tail` shows, that the record is then not opened again.

Of `KernelPort` and `Custody` it proves `FillsAreOfTheirPrefix`,
`RecoverRestoresWhatWasHeld`, `TheTwoReadersAgree` and `TheTreeIsWhole`, all that
`PortsServeTheRecord` says of the seam, for any tree, requests and audited acts and a record of any
length. The invariant `InStep` says what a publish still has to do: its act is
handed to the port last, after the mirrors appended from within it, which stand
behind it in the record; so the mark stops short of the act while records beyond
it are folded, and these fold to nothing. Unless a recover was handed to the port
the state is the fold of the record up to the mark. One record more is one step
more of the fold (`FoldGrows`), which is not a matter of course: the fold leaves
out what the recovers still in force give up, and whether one is in force is
decided by those after it. A recover to a place gives up the recovers after that
place and leaves in force those that were so there (`PointsBack`), hence
`RecoverRestores`, nested recovers included. For the two readers, `Agreeing` ties the
port's names and the kinds of their inodes to the names the gate reads off the
same record, with the inode numbers below what the next record founds; each
admitted act keeps it (`MintAgrees`, `LinkAgrees`, `RemovalAgrees`, `MoveAgrees`),
the last only for a name with nothing under it. The folds are defined by
`FoldLeft` and by a recursive function; that they satisfy their equations is shown
by least counterexample (`SomeFold`, `SomeLaw`), with the definitions of the
community modules expanded.

The tree has two invariants. `Orderly`, of every run, recovers over a running
state included: the names are paths, and the two indexes kept beside them are
exactly those names read the other way (`Tidy`). Each is seen as a set of pairs, from
which `_forget` takes one and to which `_bind` adds one; that a path is told by
its parent and its last component (`PathIs`) is what makes the pair taken the
right one. `Standing`, of runs in which nothing was asked after a directory was
moved: what holds a name is a directory, of the port's state and of the fold of
the whole record, which between two deliveries differ. An act the gate admits keeps
it by the gate's own checks where there is one, on the law's names
(`StepKeepsWhole`), and for the new name of a link or a rename, whose parent no
definition checks, because the kernel's file layer asks only below directories
the port served (`AskableIsInADirectory`). The one step that leaves the law
behind is the last, a directory moved with what it holds: the move goes name by name over a set in
any order, and after each name the state is the old one with exactly those names
moved (`MovedOver`), because no two of them move to one place and nothing was
there (`Clear`); so the tree below the new name is the old one (`TreeMoves`).

Of `RecordsFs` it proves `MountServesTheRecord`, `LocksNeverConflict`,
`AcceptedBytesAreKept`, `CommitsKeepOthers` and `HandlesReachTheirFiles`, for any
tree, handles, lock owners, offsets and lengths. The mount advances its tree act by act; `Serving`
says that the tree is at every step the fold of the whole record and the mount is
not halted, which holds across a recover because the mount then folds anew.
`Locked` says that no two processes hold a byte that one of them writes, to
any length: an unlock leaves pieces that lie in the lock they are left of
(`Within`), and a lock is granted only where no other's meets it. `Bursting`
says of each open burst that it is its handle's only one, that the bytes it
accepted are in its buffer and among those it will overlay, and of the record
that its contents are finite; closing some bursts appends one record each, in their
order. That a fold keeps the shape of the tree needs that a rename over the moved
names is one result for every order they are taken in (`MovesIs`, `RenameIs`).
`AcceptedBytesAreKept` and `CommitsKeepOthers` suppose that an empty file is a finite sequence, and
`CommitsKeepOthers` that no write starts past the end of its handle's buffer
(`Sparse` is FALSE, as in the run): such a write dirties the gap before it, so
that its zeros do land over what others recorded there. What a burst accepted
stays in it until the call that closes it has a record of it (`Goes`); a call
that fails without being refused keeps every burst but the one it was closing
(`Spares`), and that one's bytes are lost.

`HandlesReachTheirFiles` needs the whole tree, not only the names that are open.
`Following` says, of a record without a recover: the tree is whole, no name in it
is one that libfuse mints (`Sane`); the alias is of a file there is (`AsideOK`); and
a handle's path is a name of its file, or it ends in the minted name and then the
alias is of that file, under that path unless a directory above it moved
(`HandleOK`). That every alias is of the handle's own file holds because there
is never a second one: libfuse mints a name that is no other's in its tree
(`IsMinted`, the one assumption about it, besides that the minted name is a name).
Most calls name nothing and leave the tree as it is but for contents (`Alike`,
`StillFollows`); those that name something close their bursts first, so they act on
a tree that is alike (`NamedActs`). A rename moves handles as it moves names, by the
same `Under` (`MovedHandle`, `TreeMoves`). The proof failed at first, on a renamed
directory with an unlinked open file in it, which is how the fault in the code
listed below was found; `Strayed` excuses that case and no other.

`HandlesReadTheirWrites` rests on it. A write starts its burst over the node that
libfuse's name leads to and a read asks for the burst over the handle's own file, so
the two agree only because the name leads there. `Owned` says, of a record without a
recover, that an open burst is of an open handle and over that handle's file
(`Owning`); a handle number is given once in the life of a mount (`Counted`).

**`RootAuthorityProofs`** proves `RootAuthorityTypes`, `TransferIsLawful`,
`NoReturnOfFoundingRoot` and `KeyedAuthority`. The strengthening is `CeremonyOK`:
the account that named a standing designation held root authority when it did,
and a standing acceptance answers the standing designation, so what a `HANDOVER`
reads was put there by a ceremony and not by two unrelated acts.
`CeremoniesAreWhole` proves `CeremonyIsWhole`, `CeremonyOK` with
`RootIsVouchedFor`: verification is a least fixed point, and a root is verified
only if a chain of verifications, each by one verified before, leads from an
anchor to it. The proof shows that those with a chain are closed under
verification (`AnchorVouches`, `VoucherVouches`), so that the least fixed point
lies among them (`VerifiedAreVouched`), and that chains outlive later
verifications (`VouchedGrows`). A chain needs no more links than there are
accounts, which is why the accounts are finitely many.

Of `Reconcile` it proves the two halves of `SweepIsExact`, for any record, laws
and crashes. Of `SweepIsSound` the one hypothesis is that nobody asks the gate for an overturn, which only the
sweep records. Each overturn meets the anchor guard again, in a record that
holds those before it; were one turned away, the sweep would stay half recorded.
None ever is (`GuardHolds`): the acts gone and still to go are together what the
guard was asked about before the first, and with fewer grants standing a grant
without a root stays without (`FewerAreRooted`). The invariant `Swept` therefore
keeps of a sweep in hand what the guard was told (`InHand`): the law, the acts
that fall, and that those that landed lie before those still to land. The order
matters to the root. An overturned handover uncovers the one before it, which
must not name anybody else; going up the record, the last handover that stands
is reached only when nothing of the sweep is left after it (`RootStandsStill`),
and then what stands is what the guard saw. Taken in another order a sweep would
move the root for a while. That the rounds are defined by their equation is
shown by least counterexample (`RoundsAre`).

`SweepIsComplete` needs besides that nobody asks the gate for a refusal, and a
clock with a bound. There are as many rounds as candidates, which suffices since
a round that adds nothing is the last that could (`RoundsSettle`), so nothing is
left that falls when all that fell is gone (`FixedPoint`). The invariant `Told`
says of each late law that its sweep was withheld whole or reached all that
fell; what `pending` computes anew from the record is then empty, or what the
guard refused (`WhatIsLeft`). A citation names an act recorded before the one
overturned (`CitesWhatFell`), which the loop of `_reaching_ancestor` does not
say: it takes the least act of earlier rounds whose return restores the fallen
one. The fallen one stood a round before and does not now, so it lost a grant or
a handover, which were recorded before it, and the return of that one restores
it if that of any later act does (`WhatItLost`, `LaterReturnsAreIdle`). As the
overturns go up the record, the cited one has landed. A refused draft is
admitted again (`ReasonToAsk`) only if a law against its actor or a handover
is among what fell, for the rest of what is left out takes grants away.

Two properties of the sweep that had held in every run were found false when
they were prepared for proof, and are now stated as they are and their cases
part of the run: what a law would still reach need not have been refused, and a
refusal is put forward again for a handover too (see
[Observations](#observations)).

**`AttenuationProofs`** proves `AttenuationTypes`, `SpaceTreeIsRooted` and
`Attenuates` for every set of accounts, spaces, grants and covers. The invariant
is `TypeOK`, `EveryChainEndsAtMother` and `GrantsDescend` (each live grant lies
whole inside one cover the root left standing); an act allowed through a role is
allowed by the grant to that role, so roles add nothing to the measure. The work
is in the space tree: `ReachIsTransitive` (reach composes), `FreshSpaceKeepsReach`
(founding a space changes no other chain) and `ReparentKeepsChains` (a move that
does not loop leaves every chain ending at the mother space).

Of `Founding` it proves `FoundingIsWhole`, for any packs, landings and acts, under
the hypothesis that packs are foundings (`PacksAreFoundings`: a pack has its one
designation first, no act of an open world, a last record unlike the others, and a
version of its own or none), which `MCAuthority` evaluates of its packs. The invariant `Whole` says that every row of the store is an act's
or one of a landing, in the order of its pack. Two parts of the property were
found false when they were prepared for proof, are now stated as they are and
have their packs in the run: the early actors of a re-landed world stand outside
the class domain, and a complete world without a version is founded again by a
pack whose last record differs (`founding/install.py:265`).

**`BodyProofs`** proves `ThreadTypes`, `NoIdlingOverWork`,
`WakesAndTimeoutsAgree`, `JoinsEnd` and, under `MayShare = FALSE`,
`NoEarlyTimeout`. The strengthening says of the thread table that a slot's state
agrees with where its context was saved (`TableOK`), that a thread made runnable
out of a futex was woken exactly if a wake chose it (`Answered`), that a join
word is non-zero exactly while one live thread owns it, and has one waiter at
most (`JoinsOK`), and that a timespec no wait is converting holds what the
program laid in it and an expired wait's deadline has passed (`Timely`).

Of `Disk` it proves `ExtentsStayApart`, the part `ExtentsAreApart` of `DiskIsSound`, for any
table, sizes, failing sectors and flushes and power cuts, of a table with a slot (`Platters`).
The invariant `Sound` has the steps of the plan in hand in it: an operation is a
list of sector writes, and the files must be apart, and their sectors allotted, in
memory with what is left to write, whatever failed; and on the platter and in
what was flushed as long as no failure went unheeded in this mount, for after
one the disk is behind the memory that serves the files. So a mount is sound
until the power goes, and it is sound after a power cut unless (`exposed`) the
cut came after a failure the body took no heed of, or between a blob's name and
the superblock that claims its sectors, which is the run `disk_overlap`.

Of `Frames` it proves `FramesStayKept`: all of `FramesAreKept`, for any number of
frames, pages and enclosures and a heap of two units or more, where there is a page
to load and the unmap act edits the running map (`Paging`); the other build
(BRIDGE) unmaps the boot map and is not claimed. The entries of all maps (a root, a
table, a page) are taken as one set of places, and `Kept` says of a state the
allocator passes on that a frame is in exactly one place if it is taken and not
reserved, and in none otherwise; that a map that is not built is empty; and that the
count is the bitmap's. It is proved of one page backed or released, with every way the pool
can run dry in between, then of a stretch of pages by least counterexample. The heap's
blocks sum to its area because a split and a join replace blocks by
others of the same sum (`SpliceIs`, `SumsRun`).

**`EstateProofs`** proves of `Crossing` `AnswersAreOfTheirQuestion` and, as an action
property, `ClosedStaysClosed`; neither needs an assumption. The invariant
`Looked` says of each record what the gate looked at when it let it in: a
hand-out sealed what its pack then showed (`SealsItsWorld`), an answer found the
pack as sealed and nothing its guard matches since (`FindsItsWorld`). Both speak
of a prefix, so appending keeps them (`AppendKeepsLooked`). That equal seals mean
equal values is `EqualContentsShowAlike`: a seal keeps the newest value of each
object, and the newest record of an object is one (`NewestIsOne`). The question
that stays closed is read off an append: no record but an answer, a closing or
word of a credential moves its state, and the gate admits none of these to it.

Of `Push` it proves `StandingIsDerived`, whose invariant `Derived` is about the
whole engine and not its report: the engine is `Derive(log)`, budget and
sessions included, and the worker's definition is the current one. A step keeps
it because the derivation of a longer record goes through that of its prefix
(`AlongIsOfItsPrefix`); a resync keeps it because the derivation arrives by
itself at the policy in force (`BudgetIsAlong`) and at the live sessions
(`SessionsAreAlong`), which is true only while no budget is undone and no closed
session returns. The derivation is a recursive function: that it is defined by
its equation (`SomeAlong`, `AlongIs`) and what holds along it are shown by least
counterexample (`LeastOf`), without an induction rule.

Of `Wake` it proves `BootIsHonest`, for two bodies and an absence (`None`) that
is no number. The invariant `Sound` says of each image that every mark is of a
seed whose public half an earlier row binds, that the seed in memory, and the
one of a ceremony past its bind, are such seeds (`SeedsAreBound`), and that what
a wake answered is on the record (`ToldIsRecorded`). A row has a mark exactly
while the rows before it bind a system key (`MarkedAt`): the latest bind or
rotation with no revocation after it. A revocation, which only the root's key is
leashed against, leaves everything after it unmarked. Excepted are the
ceremony's own rows and the attestation of a restart, which is the run
`unmarked_attest`. Of `Sealing` it proves
`RemovedReadersStayOut`: `Kept` adds to it that no account knows a key that was
not drawn. Of `Rebuild` it proves `UnionIsOfTheParent`: no segment carries the
parent's mark over content the parent did not record (`Marked`), so what is
rebuilt is the parent's; and a position one segment holds whole is there unless
a segment before it claimed the same and was refused, and is then named among the
refused: the first of a claim is the one considered, which is the segment itself
or that one.

Of `Border` it proves `CrossingsAreGrounded` (the property of that name of the
module, the border's part of the run's), under `NamesAreActors`: an entity is not
called SYSTEM. The invariant `Held` says of each row what the gate looked at when
it let it in, the tunnel its entity then had, the receipt of what it cites, and
that an adopted rule stands under one relation and one act.

**`Keeping`** ends with the proof of `NamesAreAnswered`: `EveryNameIsAnswered`
for any contents, fan-out directories, paths and number of stops and power cuts,
rot included. It holds because of more than it says. A recorded write has bytes
that are whole *and synced in their directory*, or has departed, or its removal
is past the point of taking the bytes (`WritesAreSafe`); and an act about to
append has such bytes (`ActHasItsBytes`). Excepted, until they are put again, are
the hashes in `cut`: a removal of their bytes was cut short, storage spoilt them,
the power took their fan-out directory, or a put of them was excused its sync by
a mark older than a removal. The last was found by the proof. It first rested on
every mark being of bytes that are synced, which no step of a removal keeps,
since `_remove_bytes` leaves the mark in place.

**`Constitution`** ends with the proofs of `RegistryReplays` and
`ProtectionStands`, whose conjunction with the types is inductive: a listener
replaces a handler by what the definition replays to, attaching a store takes no
handler away and only adds what was pending, and the guard refuses each
amendment of a protected thing. `Founded` says what the founding pack gives: each
operation a tier or none, and a fixed rule among the rules.

Of the properties a run checks in parts, these parts are proved: all of
`LawIsWhatIsRecorded` (`RegistryReplays`, `ProtectionStands`, `FoundingIsWhole`),
`SweepIsExact` (`SweepIsSound`, `SweepIsComplete`) and `AcceptedBytesStay`
(`AcceptedBytesAreKept`, `CommitsKeepOthers`); of `KeptInTrust` the write path,
the sealing and the salvage, of `CrossingsAreGrounded` the border, of `BodyKeepsItsOwn` the
frames and, of its disk, that extents stay apart, and of `PortsServeTheRecord` all
of the seam, and of the mount its tree, that a handle reaches its file and reads
its writes, and that locks do not conflict.

Only model-checked:

* the liveness properties (`CallersAreServed`, `RipeIsFired`, `RunnableGetsItsTurn`,
  `TimedWaitsEnd`), since fairness and ENABLED are out of the prover's reach;
* what a fold computes from a sequence (`ViewsAreTheRecord`, `RowsMeanTheRecord`,
  `BoardIsItsLog`): there is no induction rule to cite, and `SelectSeq`, in which
  most of them are written, is built into the prover without a fact about it.
  Least counterexample replaces the rule where a fold is a recursive function or `FoldLeft`, as for the seam;
* of the mount, that a node is its maker's and that an unlock gives up all it names;
* what a recursive definition decides (`DoorIsSound`, `RowsMeanWhatTheySay`,
  trees in `KeptInTrust`), for the same reason;
* that the disk keeps its bytes and the rest of `DiskIsSound`, the
  postman, the observer and the subsystems, and the runs that show a failure.

## Findings

Each is a run that TLC refutes, with the line of the repository that says
otherwise in `PROJECT.json`.

* `torn_tail` - a crash in the middle of a line leaves bytes with no newline.
  The loader copies them aside but leaves them in the file, and the next append
  continues that line: the commit mark of the new, durable record commits a line
  that cannot be parsed, and every later open refuses the file.
* `lock_race` - the lock is dropped before its path is unlinked. A process that
  had the old file open locks the old inode, the unlink takes its name, and a
  third process creates and locks a new one: two writers.
* `root_brake` - a brake is lifted only by a record of the root *as it is now*,
  so a handover freezes again every watcher the departed root had released.
* `root_key_leash` - a handover leaves the designation that named the new root
  standing, so the root is its own bound successor and its only key may go.
* `disk_overlap` - a blob is written before the superblock that claims its
  sectors. When power fails in between, the next boot finds the blob by name,
  answers a repeated write as done, and hands its sectors to the next file.
* `unmarked_attest` - a restart with a changed engine appends the attestation
  before the marking hook is attached, so a bound world holds an unmarked record.

## Observations

Seen while modelling; none is stated as a failing run, because the repository
does not promise the contrary in so many words, or because the damage needs a
caller that the code elsewhere rules out.

*Authority.*

* The grant fold is latest-wins per id and the leash checks only the cover a
  GRANT proposes, so minting a narrow grant under a live id ends a grant its
  minter could not have revoked (`authority.py:283`).
* Only `rotate` and `revoke` of the root key are leashed; a bind that supersedes
  it is not (`gate.py:534`).
* The system key is not leashed at all: whoever may call `key-revoke` revokes it,
  after which no record carries a mark (`compose.py:264`), and a rotation of it
  leaves the marks to the old seed, still in memory.
* CREATE-RULE's consistency check reads only the exclusive rules that already
  exist, so the order of two rules decides whether they may both stand.
* The guard that keeps the road open reads the shape of a don't: one over a
  field every CREATE-RULE carries, or with a negated pattern, closes it
  (`gate.py:708`, a hazard no property covers).
* A world whose founding was cut short and which is opened under a pack of
  another version is taken for complete (`founding/install.py:278`), and an unstamped complete
  world whose last record differs is founded twice. After a re-landing, the
  early actors stand outside the class domain.

*The door.*

* `obligation_ref` and parameters the shape does not declare are not checked, so
  a value that cannot be serialised fails in the append and poisons the store
  (`gate.py:1377`).
* A containment row recorded before its ends are accounts becomes an edge when
  they are created, unseen by the loop bar (`gate.py:901`).
* The census and the door differ on a `None` band or an empty cell; two claims
  of one name are compared only when bodies meet.
* A router may name a parameter the operation does not take.
* `slice_offline_decision` judges by the space of the cut where the gate uses
  the mother space, and under a must-not refuses with no refusing step.

*The write path.*

* A listener that raises reaches the caller of an append whose record stands:
  the act is answered as failed, and `AckedActIsWhole` holds.
* A record can be written after the store was poisoned; `LateRecordsNeverAcked`
  shows that nobody is told it was committed.
* A crash between a governed record and its second mirror leaves the two audit
  copies different for ever (`protection.py:168`).
* `verify_chain` counts the record before a broken link as verified, and that is
  the one that was altered (`store.py:1437`); a sequence number is minted from
  the count of what loaded (`store.py:1189`), which `SeqNamesOneRecord` watches.

*Views and reconcile.*

* `_old_relationships` gives founded relations the identity (None, None, None),
  so the last hides the others.
* CREATE-VIEW admits a cycle of derives, on which `execute_view` recurses for
  ever; redefining a derived view as plain leaves the old derive serving.
* The stamps a refused act queued are never retired; `unseen_rows` judges old
  rows by the policy of now; a required stamp that names a fold its class never
  touches makes that class unacceptable for ever.
* A handshake relation is withdrawn by anyone; a dispute filed again after its
  resolution never stands; `paper_tigers` clears by view name only.
* A question asked again later leaves out that law's overturns only, while the
  sweep's own list leaves out every standing overturn.
* An act decided before a late law stands, though the grant it rests on was
  decided after that law and fell to it. To an older late law it is then
  unlawful, and `pending` lists it as what that law would overturn, neither
  committed nor refused (`reconcile.py:616`, `reconcile.py:942`).
* A refusal made while the root was elsewhere is put forward again when the
  sweep overturned the handover, which is no law of its actor.
* `pending` asks the anchor about that law's acts alone (`reconcile.py:958`),
  and `run` about them with all that is overturned (`reconcile.py:902`), so the
  verdict shown of a refused sweep may differ from the one that refused it.
* A law that a sweep overturned is still law at the door: `views._active_rules`
  and the folds of keys and of the root read every row, and only the worlds of a
  sweep and the fold of the grants leave it out. `STATUS.md:106` promises one
  check for what grants and holds, and does not name the law.

*Push, crossing, border.*

* The push engine starts empty after a restart while `derive()` replays the
  record, so standing and derived state drift; an overturned policy stays in
  force until the next view definition (`push.py:318`).
* A closed session may be opened again, since SESSION-OPEN has no checks. The
  worker puts it behind the others (`push.py:197`) and the registry back in its
  old place (`reconcile.py:1104`), so after a resync under a cycle budget they
  serve sessions in different orders, against `push.py:37`.
* SYSTEM may submit for an established entity, so the courier census need not be
  empty; a crossing that another actor puts through its tunnel is listed as
  unbound; a submit repeated by another changes who willed it; `tunnels()` drops
  the `secret_hash`, so `secret_verify` cannot succeed through it;
  `through_the_window` shows the last refusal where `crossings` keeps the first.

*Bytes and files.*

* The name of a fan-out directory made by the first blob in it is never synced,
  as `blobs.py:42-47` says itself: a power loss may take a blob that a durable
  record names. `PowerCut` lets it happen, and `EveryNameIsAnswered` excepts it.
* The mark that a hash is synced outlives the removal of its bytes
  (`blobs.py:124`, `blobs.py:204`). Bytes handed over and put again by the same
  process, whose sync then fails, are taken for durable by the next put of them.
* `_close_burst` puts a burst back only for a refusal (`records_fs.py:926-952`,
  `records_fs.py:281-287`). A failed batch, a poisoned store or an error of the
  blob store escapes with the burst gone, and with it bytes whose write was
  answered as accepted.
* An unlock of part of a lock records the unlock and then locks the remainder
  again; where that is refused, the whole lock is gone (`records_fs.py:888-891`,
  not modelled).
* `reconstruct` passes over a segment that claims what an earlier one claimed,
  before it has verified the earlier (`reconstruct.py:153-162`): a forged or
  damaged segment listed first shuts out the genuine one. The claim is reported
  under the refused, and the position, if others around it are held, as a gap, of
  which `reconstruct.py:114-118` says that no child held it.
* A removal runs before the record that reports it: a stop in between leaves a
  record of bytes that are gone (`gate.py:1548`).
* A checkpoint is compared with a live head that may move before the splice
  (`checkpoint.py:211`).
* A swap by rename frees the old final name before the staging file takes it, so
  a power cut between the two sectors leaves the bytes under the staging name
  only (`bodyfs.c:409`); a record write is answered with its whole length even
  when the append was refused (`serve.c:2621`).
* The alias of an unlinked open file is kept under the path it was hidden at and
  is not moved when a directory above it is renamed, as libfuse's own path for
  the handle is (`records_fs.py:588`). From then on a write through that handle,
  and libfuse's unlink of the alias at the last close, are answered ENOENT, and
  the alias stays until the mount goes down. The comment at `records_fs.py:612`
  says that the port "can still reach the inode to serve the descriptor".
  `HandleReachesItsFile` excuses this case by name (`Strayed`), and only this one:
  the handle reaches nothing, never another file. The "nesting" part meets it.
* With two writers, a `stat` answers the size of the youngest burst only.
* `FilesView` is a third reading of the file records. Its `content_at` calls
  itself a projection of the custody fold, yet knows no rename and no second
  name, and after an unlink and a re-create answers the old content.

*Observers and tools.*

* A refused submission loses the rest of the window's batch (`m1_runner.py:101`).
  What vanished over a restart stays, `current` compares one field, a reused pid
  keeps its old start time, and a partial scan failure is recorded as closings.
* The postman is modelled with kills, not power loss. The same body to two
  addressees has one id; a bounced id is terminal; a turn rung before its receipt
  is rung again after a kill; the seen-window forgets after 5000.
* The board's echo of a DISAMBIGUATED says nothing moved though a pending ends;
  a glued line gives each event the effects of both; one refused line makes the
  whole log unreadable; a CORRECTED of what is not pending closes the only open
  pending; the stale report takes the date of the last line.

*The body.*

* BODYFS does not look at what `ata_write_sector` answers for the directory and
  the superblock, nor at any `ata_flush` (`bodyfs.c:128-138`, and at 174, 304,
  379, 483 and 649), which fail as data sectors do (`ata.c:137-162`): such an act
  is answered as done, and is undone by the next power cut.
* The kernel converts a `CLOCK_REALTIME` deadline in the caller's timespec, so
  two waiters that share one wait until different times (`MayShare`); the tick
  counter has 32 bits (`idt.c:178`).

## Not modelled

* **Functions of bytes**: canonical serialisation, hashing, signatures and key
  storage, the parsers of the enclosure loader. `Merkle`, `Sealing` and `Rebuild`
  assume injective forms and unforgeable seals where they say so.
* **Key-derived parameters**: `payload_derive` and `stamp_actor` over a
  `key_param`, and the row kinds no founded operation of the modelled subsystems
  uses.
* **Devices of the body**: registers, serial line, entropy, network driver; the
  stack's heap budget, the relay page and the socket relay, which converse with a
  host program outside the repository; reclaim of page tables; file-backed
  bytes of a map; the BRIDGE build's reuse of a frame after a dropped connection
  (`serve.c:383`).
* **What is only shown**: the dictionary, dispute and procedure checks, the
  relay page, the sight grants and the divergence view, the rendered pages of
  the board, `FilesView`.
* **Handshakes of two holders of a checkpoint.**
* **Samplers**: `UeventSource`, the availability and census of windows, and the
  process and resource watches the windows superseded.
* **Tables**: the syscall port and the interpreter host, which map names to
  operations that are modelled; the FUSE glue.
* **Tooling**: conformance, release, documentation and benchmark programs.
