# TLA+ models of OSLab-TraceBench

This directory holds TLA+ models of the programs in this repository, the TLC
configurations that check them on small instances, and TLAPS proofs of what
matters most for instances of every size. Paths below are relative to the
repository's root.

## 1. The system

The repository has four teaching programs under `basic/` and two tools under
`extension/`. They are separate processes; what they share is the operating
system (procfs, cgroups, signals), not memory.

| Part | State it keeps | Operations | Modules here |
|---|---|---|---|
| `basic/sync` program | the chosen problem, its exit status | reject or accept the command line, run, exit | `Sync` |
| `basic/sync` producer-consumer | ring buffer, two condition variables, totals, one mutex | insert, remove, leave, join, report | `ProducerConsumer` |
| `basic/sync` readers-writers | three counters, two condition variables, one mutex | enter, wait, access, leave | `ReadersWriters` |
| `basic/sync` philosophers | room counter with a condition variable, a mutex per chopstick | enter room, take and put chopsticks, leave room | `DiningPhilosophers` |
| `basic/filesystem` | node tree, block bitmap, block data | mkfs, mkdir, create, write, read, ls, delete, stat | `FileSystem` |
| `basic/memory` partitions | linked list of partitions | alloc (first/best fit), free with merging | `Partition`, `Memory` |
| `basic/memory` paging | frames with load and use stamps | one reference of the string (FIFO/LRU) | `Paging`, `Memory` |
| `basic/scheduler` | clock, remaining bursts, timeline, ready queue | one dispatch of FCFS/SJF/priority/RR, an idle step | `Scheduler` |
| `extension/tracebench` run | parent, workload child, start pipe, signal flags, run directory, output files | the steps of `tb_run_command` and of the child | `TraceBenchRun` |
| `extension/tracebench` cgroup tree | directories under `/sys/fs/cgroup/<name>`, their controllers and processes | create, join, remove a run; clean up the whole tree | `CgroupTree` |
| `extension/tracebench` sampler, summary, report | `samples.csv` and `summary.txt` of an output directory | print a row, flush, summarise; report at any time | `SampleFiles` |
| `extension/tracebench` command line, utilities | none | option checks, paths, reading of small files | none, see section 8 |
| `extension/oslab_monitor` module and `oslabctl` | four proc nodes, `target_pid` | insmod, rmmod, read and write of a node; the commands of `oslabctl` | `Monitor` |

How they interact:

- The threads of `basic/sync` share fields under one mutex, and condition
  variables. Every shared field is accessed under the mutex only, so a critical
  section is one action. Chopsticks are mutexes held across other steps, and
  each lock and unlock is an action of its own.
- The tracebench parent forks one workload child, moves it into a cgroup,
  releases it with one byte through a pipe, samples it, and waits for it. Signal
  handlers run between any two steps of the parent, the child inherits them, and
  `tracebench cleanup` of another shell works on the same directory tree.
- All runs and cleanups of one cgroup name share the root and profile directories.
  They take no lock: what protects them is that mkdir needs the parent and rmdir
  an empty directory.
- Runs into one output directory replace each other's `samples.csv` at once and
  `summary.txt` only at the end; a `report` reads `samples.csv` whenever it is called.
- `oslabctl` processes and plain shells use the module's nodes while another
  user may unload or reload it; all of them share one `target_pid`.
- The remaining programs are sequential: one command after the other on one data
  structure. What is hard about them is a long sequence of legal commands, and
  commands that fail halfway because memory runs out.

Hard behaviours, and where they bite (`PROJECT.json` lists each at its line with
the properties that watch it):

- signal instead of broadcast: `pthread_cond_signal` wakes one thread per item
  (`producer_consumer.c:32,58`), one writer (`readers_writers.c`), one
  philosopher (`dining_philosophers.c:31`); spurious wakeups come on top;
- an int product that wraps (`producer_consumer.c:103`), and an int sum
  (`filesystem.c:390`);
- signals between any two steps of `tb_run_command`, `waitpid` calls that are not
  retried, handlers inherited by the child, a pipe that both ends may close;
- directories that others make and remove between two system calls of a run or a
  cleanup, and kills that leave half of a path (`cgroup.c:126,273,313`);
- buffered rows whose write may fail, be cut or be read in the middle, and a summary
  that outlives the samples it was made of (`report.c:324,355,552`);
- nodes that appear and disappear one by one under the hands of their readers;
- writes that reuse the blocks they are about to release; merging of free
  partitions; stale time stamps; ties and arrivals at the end of a time slice.

## 2. The modules

`PthreadCond` defines `Signal` and `Broadcast` on the set of threads that wait
on a condition variable; the three problems of `basic/sync` extend it. It is a
model of the library as the code uses it: a signal wakes any one waiter, and it
is lost when there is none.

| Module | What it is |
|---|---|
| `BoundedQueue` | abstract: a FIFO queue that never holds more than `capacity` items |
| `ProducerConsumer` | threads of `producer_consumer.c`; implements `BoundedQueue` |
| `ReadersWriters` | threads of `readers_writers.c` |
| `DiningPhilosophers` | threads of `dining_philosophers.c` |
| `Sync`, `MCSync` | `main.c` of `basic/sync`: composes the three, of which a run chooses one |
| `FileStore` | abstract: paths with contents, and a capacity in blocks, no bitmap |
| `FileSystem`, `MCFileSystem` | `filesystem.c` with parser and main; implements `FileStore` |
| `MemoryMap` | abstract: a region of the memory per owner, and the holes between them |
| `Partition` | the list of `partition.c`; implements `MemoryMap` |
| `PageCache` | abstract: a queue of resident pages whose head is the next victim |
| `Paging`, `PagingPair` | `paging.c`; implements `PageCache`. The pair runs it on the same references with n and n + 1 frames |
| `Memory` | the program around both: command line, input, one of the two simulations, exit status |
| `Scheduler`, `MCScheduler` | `scheduler.c` |
| `TraceBenchRun` | `tb_run_command` and its child, with the run directory of the cgroup tree |
| `CgroupTree`, `MCCgroupTree` | `cgroup.c`: runs and cleanups on one tree |
| `SampleFiles`, `MCSampleFiles` | `sampler.c` and the folds and files of `report.c` |
| `Monitor` | `oslab_monitor.c` and `oslabctl.c` |
| `SyncProofs`, `FileSystemProofs`, `MemoryProofs`, `SchedulerProofs`, `TraceBenchRunProofs`, `CgroupTreeProofs`, `SampleFilesProofs`, `MonitorProofs` | theorems about the module they are named after and those it composes |

Conventions. Variables have the names of the C fields where there is one.
An action is named after the function or the branch it models. The definitions
whose comment says "mutant" are bugs somebody could write there; they are used
only to test that a property notices them, and no specification uses them.

### Correspondence of state and actions

**Sync.** `phase` follows `main`: the command line is rejected (`Reject`) or accepted,
the threads of the chosen `problem` run (`Buffer`, `ReadWrite` or `Dine` with a step of
that module), and the program exits when its main thread has reported (`Return`). The
variables of the problems not chosen are unused. `i` and `main`, the loop counters and
the main thread, are shared by the problems that have them.

**ProducerConsumer.** `items, head, tail, size, produced_total, consumed_total,
capacity, target_total` are the fields of the buffer; `not_full` and `not_empty`
are the sets of threads asleep on them; `i` is each producer's loop counter. An
action reaches from `pthread_mutex_lock` (or the return of `pthread_cond_wait`) to
the next wait or unlock: `ProducerWait`, `Produce`, `ConsumerWait`,
`ConsumerLeave`, `Consume`; main has `MainBroadcast` and `MainReport`. The
contents of an item are its producer and its number, so that loss, duplication and
reordering show. `ToInt` wraps the product of line 103 at `IntMod` values.

**ReadersWriters.** The counters are modelled beside the sets of threads that
really read, wait and write, so that "the counter is right" can be said. A
writer counts itself as waiting once per round, however often it sleeps.

**DiningPhilosophers.** `chopsticks[k]` is the owner of mutex `k`; `pc[p]` is the
place in `philosopher_thread`; `enter_room` is `WaitRoom` or `EnterRoom`,
`leave_room` is `LeaveRoom`.

**FileSystem.** A node is named by the names that lead to it, so the parent
pointer is a prefix and the sibling list is the set of extensions. `Mkfs`, `Mkdir`,
`Create`, `Write`, `Read`, `Ls`, `Delete` and `Stat` each have the failures of the
code in its order of checks, among them an allocation that fails (`OutOfMemory`;
for mkfs it leaves the file system unmounted). A line is a command or it is not;
characters are not modelled. `MaxInt` is the largest int. `RequiredBlocks` wraps the sum
of line 390 as the build does (`ToInt`; the overflow is undefined in C) and divides as C
does, so a write may need 0 or a negative number of blocks. A node keeps that number in
`block_count` beside the blocks it got, since `free_block_count` adds it later.

**Partition, Paging, Scheduler.** One action per call of the C function
(`Alloc`, `Free`), per reference (`Reference`), and per turn of the scheduler's
loop (`RunToEnd`, `Idle`, `Slice`, `RrIdle`). Each may end with a failed
allocation. In `Scheduler` the doubling array of the timeline is kept. The insertion
sort of `sort_by_arrival` is modelled by its result: `ArrivalRank` is the position of a
process in the order that `compare_arrival_order` defines, `ArrivalOrder` its inverse.
`Merged` is the one scan of `merge_free_partitions` over the list.

**Memory.** `phase` follows `main`: options and input are checked as a whole
(`Reject`, exit status 1, or `Accept`) before anything is executed, then the
simulation of `mode` runs and decides the status. The content of an accepted
input is chosen when it is executed, so every sequence of operations and every
reference string up to the bounds is one. Variables of the mode not chosen are unused.

**TraceBenchRun.** `pc` is the place in `tb_run_command`, with one value before
each system call whose outcome or whose position relative to a signal matters.
`pipe` is the start pipe: open, holding the byte, or closed. `child` is the
workload: before its start byte, on its way out with status 1, working, exited,
reaped. `SignalParent` runs the handler, delivers the signal to the child as well
when it comes from a terminal (`group`), kills while no handler is installed, and
may cut short a `waitpid` that is not retried (`cut`). `ParentKilled` and
`ChildKilled` are outright kills. `OtherCleanup` is `tracebench cleanup` elsewhere.
Time is left out: durations end at any moment.

**CgroupTree.** Every run walks down (`EnsureDir`, `EnableControllers`), joins its child
(`Join`), and walks up (`RunRmdir`), one system call a step; `RunKilled` may end it
anywhere. Any of their calls may also be refused for a reason outside the model. For
`enable_child_controllers`, which has no result, that is the silent branch of `Enable`:
the controller is not there and the run goes on. A cleanup is the recursion of
`cleanup_cgroup_children` with `at` as the directory of its innermost frame: `Open`, one
`Read` per entry, `Procs` (`cgroup_has_processes`), `CleanupRmdir`, and `Leave` back to
the frame above; stat, opendir and the reading of `cgroup.procs` may be refused
(`Refused`), and an entry whose stat is refused is skipped (`Skip`). `listing` and `met`
are what POSIX says of readdir: an entry there since opendir and not removed is met
before the end, a new one may be met. Of the kernel the module assumes that mkdir needs
the parent, that rmdir refuses a directory with entries or processes, that the cgroup
root offers the controllers to `<root>`, and that any other directory has those in
`subtree_control` of its parent. `old` (what a cleanup found and nobody has removed),
`alone` (no workload when it began, nobody else has changed the tree since, and none of
its own calls was refused), `undercut` (a run lost a directory above the one it was to
make, or did not manage to enable the controller) and `excused` (a kill, a wait cut
short or a refused call happened) are history variables. Of cpu, memory and io, memory
is modelled: without it the samples cannot be read. Two behaviours of the code show in
them: a disturbed run may work without controllers, since `enable_child_controllers` has
no result, and a disturbed cleanup may report failure although the tree is gone, since a
directory without `cgroup.procs` counts as busy.

**SampleFiles.** A line is the sequence of its fields, and of the columns that are
handled alike one or two are modelled. A round of reading `/proc`, the cgroup and
`overview` is a member of `Readings`: for each name a number or `NotFound`. `PrintRow`
is `write_sample_row` up to its fflush, `FlushRow` the fflush, `Cleanup` the fclose
and the removal of the cgroup, `WriteSummary` `tb_write_summary_file`. stdio is
modelled as the libraries do it: a flush that fails has written a prefix, drops the
rest and sets the error flag, which only the `ferror` of the next row looks at. A
reader may see the file before or in the middle of a write (`Views`), with a torn last
line (`Cuts`); what follows a torn line continues it (`Glue`). A run killed while it
writes `summary.txt` leaves it cut or whole (`Killed`). `Stats` is
`read_csv_summary`, the fold that both the summary and the report use. Runs follow
each other in the directory.

**Monitor.** `module` and `step` follow `oslab_monitor_init`, `_exit` and the
rollback; `entries` is the set of nodes in `/proc`. A client is an `oslabctl` (stat,
open, write, stat, open, read) or a shell that writes and reads the nodes without
stat. `pid_show` is three actions: copy `target_pid`, look its task up, print.
`since` is a history variable: the targets there have been since a client's write. The
code prints `task_pid_nr` of the task that it looked up by number in the caller's pid
namespace; the model prints the number looked up, which is the same with one namespace,
as in the documented virtual machine. `overview_show` and `tasks_show` only hold their
node (`Dump`): their walk of the task list, which takes no `rcu_read_lock`, is left out.

## 3. What TLC checks

`tlc -config X.cfg M` runs from this directory; every run ends within two minutes
on two workers.

| Run | Bounds | Question |
|---|---|---|
| `sync` (`MCSync`, `Sync.cfg`) | 3 + 3 producers and consumers, 3 readers and 2 writers, the 5 philosophers of the program; capacity 1..2, count 1..2 | FIFO refinement, ring, exclusion, writer priority, no circular wait, no lost wakeup, termination with the right totals |
| `producer_consumer_overflow` (`MCSync`, `SyncOverflow.cfg`) | 2 + 2 threads, an int of three bits | *violated*: see section 6 |
| `filesystem` (`MCFileSystem`) | 2 names, depth 2, contents of 1..3 bytes, an int of four bits (`MaxInt` 7); disks of 3 x 1, 2 x 2, 1 x 5 and 1 x 7 bytes | bitmap and files agree, the tree is connected, refinement of `FileStore` |
| `filesystem_overflow` (`MCFileSystem`, `FileSystemOverflow.cfg`) | the same with contents of up to 4 bytes, the disk of 1 x 7 | *violated*: see section 6 |
| `memory` | 3 owners, memory 1..6; 4 pages, 1..3 (and 2..4) frames, 7 references | types, tiling, refinement of `MemoryMap` and of `PageCache`, LRU inclusion |
| `scheduler` | 1..3 processes, arrivals 0, 2, 3, bursts 1, 5, two priorities, quantum 2 | chart and table agree, right choice, fair turns, termination |
| `tracebench_run` | 2 rows, 2 signals, all failures, both kills | load is measured, success is complete, nothing left behind, termination |
| `tracebench_stop` | 1 row, 1 signal | *violated*: see section 6 |
| `cgroup_tree` | 2 runs of one profile, 2 cleanups, kills and refused calls anywhere | last one cleans up, a successful cleanup is complete, a failed one had a cause, a workload has its controllers |
| `sample_files` | 2 runs, 3 and then 2 rows, 5 readings, failing and torn writes, kills | summary and report tell what was sampled, an old summary is betrayed |
| `sample_files_silent` (`SampleFilesSilent.cfg`) | the same | *violated*: see section 6 |
| `monitor` | an `oslabctl` and a shell, pids 1 and 2, 2 loads | initialisation is all or nothing, one target per report, termination |

What the properties say is in the comment above each of them. Those that took
more than one guard to get right:

- `BufferWakeups`: while consumers sleep there are as many
  runnable consumers as items, and the mirror image for producers. It is why one
  signal per item is enough, and the mutant that signals only when the buffer
  becomes nonempty breaks it.
- `SleepOnlyWhenFull`: of five philosophers only one can be outside a full room,
  so the one signal of `leave_room` finds it; a second sleeper would be lost.
- `ImplementsStore`: a write fails for lack of space exactly when the content
  does not fit beside the *other* files, and a failed command changes nothing. It speaks
  of disks on which no content wraps the sum of `fs_write` (`SumsFit`); the disk of
  1 x 5 bytes is at that limit, the one of 1 x 7 beyond it. What happens beyond is
  finding 3; the other properties of the run hold there as well.
- `SuccessIsComplete` and `NothingLeftBehind`: exit status 0 and "cleaned up"
  against every signal, failure and cleanup in between. `NothingLeftBehind` has to
  exempt runs in which a signal cut an unretried `waitpid` short (`cut`): there
  the code really leaves the child and its cgroup.
- `ShowsOneTarget`: what `oslabctl pid N` prints is about one process, and that is
  N or a target set later by somebody else. "It is N" would be false.
- `LastOneCleansUp`: a run whose own rmdir fails leaves the two directories above it
  alone, and the rmdir of another may have come too early, yet when all have gone
  (none killed, none cut short) nothing is left.
- `CleanupComplete` and `FailureHasCause`: the two directions of a cleanup's result.
  Success means that everything it found is gone, whoever removed it. "Failure means
  something is left" would be false: see `CgroupTree` above.
- `MeasuredUndisturbed`: the code does not promise a workload its controllers, since
  enabling them may fail unnoticed. It does promise that nobody else takes them away:
  they are there if the run itself enabled them and kept its directories while it did.
- `OldSummaryBetrayed`: the summary of an earlier run can lie beside newer samples,
  but never beside a run that has ended with status 0.
- `SummaryTellsSamples` and `ReportTellsSamples`: the fold over the text equals the
  statistics of the readings, which `StatsOf` says without files or folds. The first
  also says how far a summary can be off after the failed last write of finding 4: it
  lacks that row or the end of it, nothing else.
- `Inclusion`: with one frame more, LRU never faults more often. For FIFO this is
  false (Belady's anomaly), and it is stated for LRU only.

Why the bounds are enough to be interesting. Three threads of a kind are needed for
one to sleep, one to be signalled and one to overtake it; capacity 2 with six items
wraps the ring. Five philosophers is the program's own number. In three blocks a file
can be rewritten longer, shorter and with no room, and blocks become fragmented. Six
cells and three owners give a hole on both sides of a freed partition, and holes of
equal size. Seven references to four pages in three frames give hits on every position
and reloads. The scheduler's inputs have ties, gaps, an arrival at the end of a slice
(2 with quantum 2) and within one (3), and more segments than the timeline first has
room for. Two signals are an interruption while an interrupted run cleans up. Two runs
and two cleanups, symmetric among each other, are enough for a directory to be found
by one, removed by the second and made again by the third while a fourth walks. The
`VIEW` of that run (`MCCgroupTree`) leaves out history that no property asks for any
more: whether a run without a child was undercut, what a failed or finished cleanup once
found and whether it was alone. No guard reads any of it. Two
runs of an output directory are a summary and newer samples; three rows are a first, a
last and a maximum that may differ, and the readings rise, fall and lack one name
each. Two loads and two clients are a client that opened a node of an earlier load.

Deadlock is checked for `basic/sync` (whose program, once it has exited, takes the
explicit step `Finished`) and for the file system, which always has a next command.
The others do stop: the program `memory` exits, the last process is scheduled, the
loads of the monitor are used up, the runs and cleanups of tracebench have ended.
`producer_consumer_overflow` looks for its deadlock through `Termination`.

Type invariants that are proved (section 5) are not checked again by the runs, except
where the type says more than the shape of a value (`filesystem`, `memory`, `scheduler`).

## 4. Fairness

- `Sync`: weak fairness of each thread of the chosen problem and of main, before,
  beside and after the threads, which is what a preemptive scheduler gives a runnable
  thread. Nothing is assumed of spurious wakeups. A mutex may be taken by others
  repeatedly while a thread wants it; weak fairness is still enough because the rounds
  are finitely many.
- `Scheduler`: weak fairness of the only process there is.
- `TraceBenchRun`: weak fairness of the parent, and of the child's start and end
  (the workload's loop is bounded by its duration). Signals, kills and the other
  cleanup may or may not come.
- `Monitor`: weak fairness of the kernel's steps inside init and exit, and of
  each client. Nobody is obliged to call insmod or rmmod.
- `FileSystem`, `Memory`, `CgroupTree`, `SampleFiles`: no fairness, safety only.

## 5. What is proved

TLAPS proves the following for every value of the constants, from the assumption
named in the module, which TLC evaluates in the runs:

| Assumption | What it says, and why the code justifies it |
|---|---|
| `SyncAssumption` | the sets of threads are finite and the numbers positive, as the parser demands; the width of int may be any |
| `FSAssumption` | no name is empty (`valid_name`), a path is a nonempty sequence of components, a written content is not empty, its length is an int, and so are the two numbers of mkfs, which may be negative and as large as int allows |
| `MemoryAssumption` | a memory has a cell (`parser.c` refuses less), the name that marks a free block is no owner (the code has a field of its own for it), there is a frame and a reference |
| `SchedulerAssumption` | a workload is a nonempty sequence of records with arrival at least 0 and burst above 0, a quantum is above 0: what the parser accepts |
| `RunAssumption`, `TreeAssumption`, `MonitorAssumption` | numbers of rows, runs, signals and loads are natural numbers; pids are positive; names of directories at different depths are told apart |
| `SampleAssumption` | a reading has a number up to `MaxValue`, or none, for every name; printf writes different numbers differently and none like a word of the file; a row's index is a number that can be written (`MaxRows`) |

| Module | Theorems |
|---|---|
| `SyncProofs` | `TypeCorrect`; `RingAlwaysConsistent`, `NoWakeupOfTheBufferIsLost`, `ImplementsBoundedFifo`; `ReadersAndWritersExclude`, `NoWakeupOfReadersOrWritersIsLost`, `WritersGoFirst`; `NeighboursNeverEat`, `WaitIsNeverCircular`, `SleepersFaceAFullRoom` |
| `MemoryProofs` | `TypeCorrect`, `ListTiles`, `ListImplementsMap`, `StampsImplementQueue`, `LruFaultsLess` |
| `SchedulerProofs` | `TypeCorrect`, `ChartIsTable`, `RightProcess`, `TurnsAreFair`, `QueueSuffices` |
| `FileSystemProofs` | `TypeCorrect`, `BlocksAlwaysOwned`, `TreeAlwaysConnected`, `DiskImplementsStore` |
| `TraceBenchRunProofs` | `TypeCorrect`, `LoadAlwaysMeasured`, `SuccessAlwaysComplete`, `LeavesNothingBehind` |
| `CgroupTreeProofs` | `TypeCorrect`, `TreeClosed`, `LastOneCleans`, `CleanupCompletes`, `AloneSucceeds`, `Measured` |
| `SampleFilesProofs` | `TypeCorrect`, `OldSummaryAlwaysBetrayed`, `NoRowLost`, `SummaryAlwaysTells`, `ReportAlwaysTells` |
| `MonitorProofs` | `TypeCorrect`, `NodesAllOrNone`, `AlwaysOneTarget` |

The arguments:

- *Sync.* Each problem has an inductive invariant of its own (below); the steps of the
  others leave its variables alone.
- *Producer-consumer.* `TypeOK`, then `RingConsistent`, are inductive by
  themselves. `NoLostWakeup` is inductive beside them: a signal makes one more
  thread runnable for the one item or slot it adds, and nobody can leave while the
  target is not reached. For the refinement, the occupied window of the ring is
  the abstract queue: an insertion writes the slot after the window
  (`SlotAfterWindow`), a removal shifts the window by one (`SlotShift`), which is
  arithmetic modulo any capacity. The theorems hold for any `IntMod`, the wrapping
  product included: what wraps breaks termination, not safety.
- *Readers-writers.* The invariant is `TypeOK /\ CountersExact /\ Exclusion /\
  NoLostWakeup`. The counters have to be exact, since the guards read the counters
  and the properties speak of threads. `WriterPriority` is a property of steps and
  follows from the invariant.
- *Philosophers.* The invariant is `TypeOK /\ RoomLimit /\ OwesRound /\
  SleepOnlyWhenFull`. `RoomLimit` ties `in_room` to the number inside; `OwesRound`
  keeps `eat_count` within the target. That a sleeper is alone outside (`OneOutside`)
  makes one signal enough. `NoCircularWait` follows at tables of any size: if all
  inside wait, all of them hold their left chopstick, then the right neighbour of each
  is inside and waits too, hence everybody is inside (`AroundTheTable`, a
  least-element argument), and the room does not hold that many.
- *TraceBench run.* `Flags` (the Boolean variables) and `IInv`, a conjunction of
  where the parent can be for each state of the child and the pipe (`States`,
  `PipeInv`), what a parent past the reap knows (`CleanupInv`), and what a result of 0
  implies at each place (`SuccessInv`).
- *Cgroup tree.* `Closed` (every directory has its parent) comes first, since removal
  needs it. `Kept` says who is bound to remove a directory that exists: as long as
  nothing is excused, a run directory belongs to a run that is about to work or to
  remove it, and a profile or root directory to somebody at work who has still its
  rmdir to do, or to something below it that is kept. When all have gone nobody is
  bound, so nothing is there. `Sweep` describes a cleanup halfway: every directory
  that it found and that still exists is below or beside the place where it stands and
  will still be met (`listing`), unless it has already recorded a failure; and a
  cleanup that is alone has recorded none. Both directions of its result follow at the
  root. `Elsewhere` says once what the others can do to that. `Way` says which
  controllers a run that was not undercut has at each step down: a run that did not
  manage to enable one is undercut by definition, and the proof shows that neither
  another run's failure nor any removal takes from a run what it did enable.
- *File system.* The invariant is types, `TreeConnected` and `BlocksOwned` together. A
  write releases the file's own blocks first; `ReleasedFacts` says that the bitmap
  then shows exactly the blocks of the other files, and `FirstFitFacts` that the
  blocks it takes are different ones and none of those, so ownership is kept. `Pieces`
  is the arithmetic of cutting a content into blocks: every piece is nonempty and
  fits, so that a block has data exactly when it is in use. `FileFacts` is why a
  deletion cuts nothing off: nothing hangs from a file. For `FileStore` the invariant
  grows by `ContentsHeld`: every node holds a content that was written (`Holds`: its
  size, and in block i the i-th piece), and nobody's blocks are touched but those of
  the file of the command (`OthersKept`). Then `ContentIs`: reading block after block
  answers that content, since the pieces end where the next one begins and reach to
  the end (`PiecesCover`). For space, the pieces of the contents are matched one to
  one with the blocks in use (`PiecesOfBlocks`, by injectivity and disjointness from
  `BlocksOwned`), so that a write which the code refuses is one that does not fit
  beside the other files (`WrittenFits`), and stat counts what the contents need.
  Types, ownership and the tree hold on every disk that mkfs accepts, those included
  where the sum of line 390 wraps: a file then has as many blocks as its `block_count`
  says, none when that is negative. `ContentsHeld` and the refinement have the
  hypothesis `SumsFit`; a disk that satisfies it may come after others that do not.
- *Monitor.* `NodesKept` counts the nodes at each stage of init and exit. `Showing`:
  whoever is inside a show function keeps its node in `/proc`, because proc_remove
  waits, so a module that is out has no reader. `Told` says for each place of a client
  with a pid what it knows: until the copy the target is among those set since its
  write, afterwards the copy is.
- *Sample files.* `Summarised`: a run that is over with status 0 is the one the
  summary is of. Every other way to end sets the status to 1. `FileHolds`: without a
  failed write file and buffer together are the header and a line per reading,
  whichever part of them has been flushed; a kill that finds an empty buffer changes
  nothing, any other one counts as a failed write. `NoRowLost` follows where the
  buffer is empty. For the statistics, `ColumnIs` finds the column of each name in the
  header, `RowShows` says what a row has there, and `SummedIs` that the fold over a
  column is first, last and maximum of what was found (`Amount`; the loop is a
  function here, and a least counterexample replaces induction). So a file that
  `Holds` header and n rows tells `StatsOf(n)`, and one whose last row is torn
  (`TornTells`) fails, misses that row, or differs in its last column. `Pending` and
  `Clean` say what the buffer holds at a flush, at a look of the run and at its end:
  no more than header and first row, or one row, or nothing. `Torn` carries what a
  failed flush has left to the summary that is made of it.
- *Partitions.* The invariant `PartInv` says that the blocks are `Chained`: the first
  starts at 0, each starts where the one before it ends, all are nonempty; that the
  last ends at the end of the memory; that of two neighbours one is in use; and that
  no owner has two. An allocation takes a block whole or cuts it in two (`TakenKeeps`).
  A release can leave three free blocks in a row, so the merging scan is followed
  block by block (`MergedFacts`): what it has behind it is chained, separate, and
  covers the same cells and regions. Recursion is a function here (`IsScan`), its
  existence and its values are shown by a least counterexample. For `MemoryMap`, whose
  holes are maximal intervals of free cells, `BlockIsHole` and `HoleIsBlock` say that the
  free blocks of a chained and separate list are exactly the holes; first and best fit
  then choose the same on both sides.
- *Paging.* Stamps are distinct in the frames in use and lie before the clock
  (`Stamped`); so sorting the frames by stamp is a sequence (`QueueOf`), an access
  moves its page to the end (`QueueTouch`), and a load drops the head (`QueueFill`):
  one lemma each for both algorithms, whose counted stamp differs. For `Inclusion` the
  pair of runs is compared: every page of the smaller memory is in the larger with the
  same use stamp, and what is only in the larger was used before anything in the
  smaller when that is full (`Within`). A fault in the larger is then one in the
  smaller and evicts nothing that the smaller keeps.
- *Scheduler.* `Table` says, for each process, what its row of the table and its
  segments of the chart have in common at every moment: the time it has had is burst
  minus remaining, the start is that of its first segment, the finish the end of its
  last, and idle segments lie before its arrival or after its finish. Growing the
  chart by one segment (`TableIdle`, `TableRun`) is all that a step does to it.
  `RunsRight` remembers of every segment of a run to the end that no better process
  waited then; it is needed because the property speaks of all segments and the code
  chooses once. Round robin needs more: `Admits` says that the queue has each process
  that has arrived and is unfinished exactly once, hence fits into an array of `count`
  (`QueueSuffices`). `Closed` is the property for pairs of turns that are over; `Open`
  is what becomes of it: since the last turn of `p`, whoever waits has had one turn if
  it stands behind `p` in the queue and none if it stands before it. `NextListed` says
  that admitting arrivals before the requeued process keeps that order.

Model-checked only: `Termination`, in the four passing runs that check it, since
fairness and ENABLED are out of reach of the prover. Every other property of a passing
run is a theorem.

## 6. Where code and documents disagree

1. `producer_consumer_overflow`. `producers * count` is an int
   (`producer_consumer.c:103`), and both options go up to 1000000. With a negative
   product the consumers leave at once and the producers block for ever, while
   `docs/PRD.md:180` says that a finite workload ends without deadlock. The run uses
   an int of three bits, so that 2 x 2 wraps. The passing run has an int that is
   wide enough.
2. `tracebench_stop`. `report.c:384` and `docs/TECHv2.md:159` say that an interrupted
   run stops its child. The child keeps the parent's handler, which sets a flag no
   workload reads, so SIGTERM does not stop it, and the cleanup waits until the
   duration is over. `TraceBenchRun` models the inherited handler, and therefore
   `Termination` relies on the end of the duration, not on the signal.
3. `filesystem_overflow`. `required_blocks` is an int sum divided by the block size
   (`filesystem.c:390`), and mkfs accepts every positive block size that divides the
   disk. Close to `INT_MAX` the sum wraps, the write needs no block, succeeds, and its
   content is lost, while `docs/PRD.md:212` and `docs/TECH.md:143` promise that a write
   replaces the content. The built program shows it: after `mkfs 2147483647 2147483647`,
   `create /a` and `write /a hello`, `read /a` answers nothing and `ls /` shows five
   bytes. The run uses an int of four bits. `ImplementsStore` is stated, checked and
   proved for disks without such a block size (`SumsFit`).
4. `sample_files_silent`. The results of fflush and fclose (`report.c:355` and `544`)
   are not looked at, and the `ferror` of the next row comes too late for the last one:
   a run whose last write failed prints no error and ends with status 0, with a summary
   that lacks the row or its end. `docs/TECHv2.md:248` and `docs/PRDv2.md:100` say that
   every failure prints `error:` and returns nonzero. `SummaryTellsSamples` of the
   passing run bounds the damage.

Two disagreements have no run of their own, since a property of a passing run
already states them as its exception:

- `docs/TECHv2.md:159-161` lists reaping the child and removing its cgroup as steps of
  every run. A signal, of an interrupted run the second one, may cut an unretried
  `waitpid` (`report.c:465`, `472`, `540`) short, and the run then ends with a live
  child in a cgroup it could not remove (`cut` in `NothingLeftBehind`).
- `enable_child_controllers` (`cgroup.c:36-72`) prints nothing when it fails, against
  `docs/TECHv2.md:248` as well (`undercut` in `MeasuredUndisturbed`). What follows is
  noticed for memory, whose files the first sample cannot read.

## 7. Hazards without a property

`PROJECT.json` gives the reason for each: characters of command lines, the width of the
scheduler's clock, reuse of process numbers, and the kernel's task list under the walk
of `overview` and `tasks`.

## 8. What is not modelled

- Option parsers and printing of the programs, and the path and file utilities of
  tracebench (`args.c`, `util.c`): sequential code without state. The ranges they
  accept are constants of the models. Of `basic/memory` the order "parse all, then
  execute" and the exit status are.
- The text of `/proc`, `overview` and cgroup files: a reading is the numbers found in it.
  Columns handled exactly like a modelled one, the deltas between first and last row,
  and the wording of summary and report.
- A report that has `samples.csv` open while a new run truncates it, and two runs at the
  same time in one output directory: the code has no provision for either.
- The load of the workload profiles; time.
- Pthread calls that fail: their results are not looked at, and what follows is
  undefined.
- What `overview` and `tasks` print: values of the kernel, read in a walk of its task
  list that takes no `rcu_read_lock` (`oslab_monitor.c:125` and `167`).
- Scripts, tests and build files.

## 9. What could follow

1. The part of termination that needs no fairness: that at every state short of the end
   somebody's guard is true, and a measure that every step decreases.
2. The int width of the scheduler's clock.
3. Process numbers that are given away again, for the late signals of `report.c:539`.
