# A verification of CS360

This directory holds TLA+ models of the programs of this repository, the TLC
configurations that check them on small instances, and theorems about them whose
proofs TLAPS checks. The repository is four course assignments in C: four programs
that share no code with one another except the two copies of `csapp.c`.

## 1. Inventory

| Part | Source | State | Operations | Modelled in |
|---|---|---|---|---|
| CPU scheduling simulator | `assignment-2/scheduler.c` | `process_list` (status, five counters, quantum), ready and blocked queue, `runningProcess`, `current_cycle`, `total_finished_processes`, `TOTAL_NUMBER_OF_CYCLES_SPENT_BLOCKED` | one loop per algorithm, four steps per simulated cycle, a report per algorithm | `Scheduler` |
| Kernel module | `assignment-3/kmlab.c`, `kmlab_given.h` | `my_list` of registered PIDs with CPU times, `sp_lock`, `my_timer`, the proc file | `procfile_read`, `procfile_write`, the timer callback with `work_function`, `kmlab_init`, `kmlab_exit` | `Kmlab` (without `kmlab_init`) |
| User program, test script | `assignment-3/userapp.c`, `kmlab_test.sh` | the life of a process | register, burn CPU, exit; `cat`; `rmmod` | `Kmlab`, as the environment of the module |
| Rio package | `assignment-4/csapp.c`, `tiny/csapp.c` | `rio_t`: a buffer, the bytes unread in it, where they start | `rio_read`, `rio_readlineb`, `rio_writen` | `Relay` |
| Proxy: accept loop | `assignment-4/proxy.c` | sockets, `buffer`, `method`, `uri` (which outlive a connection) | accept, read and parse a request line, connect, send, relay, close | `Proxy` |
| Proxy: relay loop | `assignment-4/proxy.c` 143-151 | `response`, two `rio_t` | read a line, write a line, until end of file | `Relay` |
| Other wrappers of `csapp.c` | same | none | one system call, exit on error | the error actions of `Proxy`, `Relay` and `Tiny` |
| Tiny web server, `adder` | `assignment-4/tiny/` | sockets, one child per CGI request | read request and headers, `stat`, serve a file, fork a CGI program and wait | `Tiny` |
| File system tree simulator | `assignment-1/lab1_devito.c` | nodes with child, sibling and parent pointers, `cwd` | `mkdir`, `rmdir`, `creat`, `rm`, `cd`, `ls`, `pwd`, `save`, `reload`, `quit` | `Fssim`, `FsTree` |
| Linked list sample | `assignment-3/ll.c`, `ll.h` | an array-backed list | add, delete, print | no |
| Build files, kernel build output, data, handouts | | | | no |

(`assignment-N` stands for `src/assignment-N-aanthoonyy-main`.)

How the parts interact:

* The **scheduler** is one sequential program. Its difficulty is that three loops
  share one set of processes, queues and counters, that a process's status, the
  queues and `runningProcess` are three records of the same fact written by
  different statements, and that the counters are unsigned words some of which wrap.
  It is correct if those records agree, processes run in the order the algorithm
  says, no process is lost, the counters add up, and the simulation ends.
* The **kernel module** is called by several tasks at once (`write` and `read` on
  `/proc/kmlab/status`), by a timer in softirq context and by `rmmod`. They share
  a linked list. The two file handlers take a spin lock with interrupts off; the
  timer callback and `kmlab_exit` do not. The processes whose PIDs are in the list
  come and go on their own. It is correct if nobody dereferences an entry that
  another has freed, no entry is lost or leaked, exactly the dead processes are
  removed, and nothing is left running after an unload.
* The **proxy** serves one connection at a time; clients and servers fail, stall and
  leave as they like. It relies on Rio for the splitting and joining of bytes, and
  on wrappers that end the program at the first error. It is correct if clients are
  served in order with their own response, every path closes what it opened, and
  the response arrives as it was sent.
* **Tiny** is the same shape of server, with a child process per dynamic request that
  shares the client's socket, and files that others change between its system
  calls. It is correct if clients are served in order, each hears one complete answer
  to its own request, and no child outlives the request it was forked for.
* The **file system simulator** is sequential; what is hard about it is that its
  pointer structure must remain a tree under every sequence of commands, and that
  `save` and `reload` go through a text file that names nodes by name only and may
  have been cut off. It is correct if the pointers implement directory listings,
  nothing reachable is freed, and a saved tree can be had back.

The hazards of this code, each at its line and with the properties that would
catch it, are listed in `PROJECT.json`.

## 2. The modules

### Scheduler

`Scheduler.tla` is `main` from line 348 on. The input is chosen in `Init`: any
function from process numbers to an `A`, a `B` and a `C`. One iteration of a `while`
loop is the sequence

    BeginCycle, Arrive (once per process), Dispatch,
    Idle | Finish | Block | Compute, Update (once per process), EndCycle

which are the code's steps 1 to 4; `pc` and `i` say where the program is. When the
loop's condition is false, `Report` prints, breaks out of the `switch` and moves on
to the next algorithm. The three loops differ in a few lines; the actions name the
algorithm where it matters. Everything stays as it is in the code: the process just
marked blocked remains the running process (the assignment at line 408 is commented
out), `IOBurst` counts down from 0 and wraps (line 415), round robin advances
the clock twice when a process ends (line 580), FCFS computes a finishing time from
the other counters after taking one off the waiting time (lines 390-394), and no
process, queue or clock is reset between the algorithms (line 349). The one thing that
is reset, after each report, is `TOTAL_NUMBER_OF_CYCLES_SPENT_BLOCKED` (lines 444, 536,
622), here `blockedCycles`; it counts the passages of lines 404 and 496, where the comment
at line 42 says cycles. `figures` is what the functions behind a report read, and `printed` the
reports so far. Counters are modulo `Word`.

Abstractions: `sortQueue`'s bubble sort is stated by what it does (a stable sort by
`B`). `CPUBurst` and `currentBurst` are written and never read, so they and the
random numbers behind them are left out. `B = 0` is excluded by the assumption on
the constants, because the division at line 82 ends the program while the input is
still being read. The allocation of `process_list` (three entries) is not modelled.
The wrap of a `uint32_t` is at 2^32 in the program and at `Word` here; the theorems
hold for every `Word > 2`.

### Kmlab

`Kmlab.tla` has one action per step of a handler at which another actor may
come in between: the allocation, the parse, the lock, the list operation and
the unlock of `procfile_write`; the lock, each line, the unlock and the copy of
`procfile_read`; the start of the timer callback, each turn of the loop in
`work_function`, and `mod_timer`; the calls of `kmlab_exit` in their order. The list is
the code's: `next` and `prev`, poisoned by `list_del`. `list_for_each_entry_safe` keeps
two cursors and so do the timer and `cleanup_list` here.

`list_add` and `list_del` are single steps where nobody can come in between on one
processor: under the lock, with interrupts off, and in the softirq. `cleanup_list` is
neither; there every load and store of `list_del` is an action (`CleanupLoadPrev`,
`CleanupLoadNext`, `CleanupSetPrev`, `CleanupSetNext`), and so are the free and the
advance of the loop. A writer that adds an entry, or a timer that removes one, between two of
them has its change undone by what was loaded before: an entry may be lost from the list, or
the list be linked to itself.

`Smp` says whether there is a second processor. Without one, interrupts being off
in a critical section keep the timer and all tasks away, and a running softirq keeps
all tasks away (`TaskMayRun`, `SoftirqMayRun`). With one, only the lock orders
anything, and only between those who take it. A dereference of an entry that is no
longer in the list leads to `mod = "crashed"`, from where nothing happens.

The environment is part of the model: a process uses CPU time (`UseCpu`), exits
(`Exit`), and its PID may be given to a new one (`Fork`); a `cat` reads until a read
returns 0 or fails, and as the file offset never moves (line 130 is commented out)
that can take long; `copy_to_user` may fail. The early return for a positive offset (line 109)
is left out: no program of the repository seeks, and the call changes nothing.

Abstractions: with a second processor the single steps of `list_add` and `list_del` are
coarser than the machine, so `KmlabSmp` shows fewer behaviours than there are; a failing
`kmalloc` changes nothing and is not an action; `MayUnload` says whether `rmmod` is called
at all, which the liveness run has no use for; the second `kmalloc` of each handler lives and
dies within it; the work queue is created and destroyed and nothing is ever queued
on it; a buffer's contents are its length. The linux functions are external code,
modelled from how `kmlab.c` uses them. `MCKmlab.tla` declares the symmetry of tasks,
PIDs and entries.

### LineCopy and Relay

`LineCopy.tla` is the abstract specification of copying lines from one connection to
another: a line is taken in one piece and put out in parts of any size; a line
ends at a newline, at the end of the input, or where the buffer is full.

`Relay.tla` is the loop of `proxy.c` 145-147 with `rio_readlineb`, `rio_read` and
`rio_writen` under it. One action is one system call or one byte taken from
`rio_buf`. A `read` returns any part of what is left, a `write` takes any part of what
it is given, either may be interrupted (`EINTR`) or fail; an error ends the program,
as the wrappers do. `Lines == INSTANCE LineCopy WITH line <- ..., status <- ...`
says how the abstract line is represented: by `nleft` bytes of `response` from `bufp`.

### IterativeServer and Proxy

`IterativeServer.tla` is the abstract specification of a server that handles one
connection at a time: arrivals queue up, the first is accepted when nobody is being
served, only the one being served hears anything, a closed connection stays closed.
The server may end at any time.

`Proxy.tla` is `main` and `parse_uri` of `proxy.c`, one action per call that can
block, fail or be seen from outside: `Accept`, `ReadRequest` (read a line, `sscanf`,
`parse_uri`, the tests of lines 108 and 124), `OpenClientfd`, `WriteRequest`,
`RelayLine`, `EndOfResponse`. For each call whose wrapper ends the program there is
an action that does. `buffer`, `method` and `uri` are variables of the model
because the code never clears them: a client that sends nothing, an empty line or a
single word is answered with what an earlier client has asked for. Clients
connect, send any line of `Requests` and leave at any time; servers accept, refuse,
answer, reset or close. A URI that names the proxy's own address makes it connect to
itself; that connection (`Loop`) joins its backlog.

Abstractions: texts are sequences of tokens, so `"a:8080"` is `<<"a", "8080">>` and
`parse_uri`'s choice between host, port and path is a choice between tokens. Words
are taken to fit in their arrays. The uninitialised `buffer` is any request line.
`version` is never read and left out. The headers of a request are not read by
the code and not sent here. The bytes of a line are `Relay`'s business.

The two models meet at `RelayLine`/`EndOfResponse`: `Relay` refines what happens
between the accept loop's `pc = "relay"` and the close of both sockets.

### Tiny

`Tiny.tla` is `main`, `doit` and all that `doit` calls, one action per system call
that can block, fail or be seen by a client: `Accept`, `Getnameinfo`, `ReadRequest`,
`ReadHeader`, `Stat`, `Write` (once per `Rio_writen`), `Open`, `Mmap`, `Body`, `Fork`,
`Wait`, `Close`; and of the child `Dup2`, `Execve` and the CGI program `Adder`. `out`
holds what the current function has yet to write and `then` where it goes on after
that. For each wrapper that ends the process there is an action that does. The
child is a process of its own: its steps interleave with everything but the
parent, which waits.

Files belong to others. What `stat`, `open` and `execve` find is any file, whatever the
call before has found; a page that `stat` has seen may be gone, shorter, or have a
mode that lets its owner read it and the server not.

`sscanf` leaves `method` and `uri` as they are when a line has fewer words, and the
buffer of `read_requesthdrs` is not initialised: the model takes any value for them.
At the end of the file `Rio_readlineb` leaves the buffer as it is, so the header loop
(line 108) spins unless the buffer happens to hold the blank line (`HeadersEnd`).

Abstractions: a text is one item of an answer (`Item`), the five writes of an error
page's body are one; a URI is the file it leads to and whether its arguments have
the `&` the CGI program looks for. `get_filetype`, addresses and logging are left out,
but for the log text that a child whose `Execve` fails flushes to the client.
`Send` makes a client send its request line, then header lines, then the blank
one; nothing is in flight between a `close` and the client.

### FsTree and Fssim

`FsTree.tla` is the abstract specification: each directory has a listing, new entries
come first in the current one, restored ones last in theirs, a removal takes one
entry out of one listing (`Without`) and leaves the others in order.

`Fssim.tla` is `lab1_devito.c`: `child`, `sibling` and `parent` of every node, one action
per command, and for `reload` one per line of the file (`ReloadSkip`, `ReloadLine`,
`ReloadCut`). Functions that walk along pointers are stated by what they find:
`After` and `Reach` are the smallest sets closed under the pointers, `SearchTree`
gives the first node of a name in the order of the code's visit, children before
siblings. `Ls`, `Pwd` and `Saved` are recursive functions along the pointers (`Chain`, `Way`,
`Written`), as their loops and recursion are; `Path` goes up from the current directory
(`Up`). The program's own oddities are kept: the type tested by `cd` is that of the
first entry (line 74), `mkdir` and `creat` search the first entry and below (line 275),
`pwd` follows first entries (line 136), `rm` does not look at `child`.

A command that dereferences `NULL` ends the program (`Crash`), as do an interrupt and
`quit`; `Start` runs it again, with the file as the only thing left. `SaveInterrupted`
leaves any prefix of the lines and perhaps part of one more, because `fopen` with
`w+` truncates first.

Abstractions: names are model values, without `/`, `..` and commas, that fit the 63
characters of the array; `malloc` does not fail; a part of a line that is cut off in the
middle of a word is left out, the whole parts before it are kept. At the end of
standard input `fgets` leaves the line as it is and `strtok` has cut off its
argument, so the command is repeated without one: those are commands too. The fields
of a freed node are those of a blank one; `TreeIntact` says nobody looks at them.
`FsTree`'s `Blank'` step is a crash or an end of the program.

## 3. The runs

| Run | Module | Instance | What it shows |
|---|---|---|---|
| `Scheduler` | `Scheduler` | three jobs, A in {0,2}, B in {1,2}, C in {0,1,5}, `Word = 8` | safety, finishing times, `RunToCompletion`, `Terminates` for every such input |
| `SchedulerAlternates` | `Scheduler` | the jobs of `sample_io/input/input-2` | violated: under FCFS they do not alternate |
| `Kmlab` | `MCKmlab` | one processor, two tasks, two entries, two PIDs, one PID reuse, an unload (6.1 million states, the longest run: about two minutes) | list, cursors, ownership, read lengths, unload, exactness of a timer pass |
| `KmlabLive` | `Kmlab` | one processor, two PIDs, two entries, two tasks, no unload | dead entries are purged, `cat` ends |
| `KmlabSmp` | `MCKmlab` | as `Kmlab`, two processors | violated: the timer frees the entry a reader stands on |
| `KmlabUnload` | `MCKmlab` | as `Kmlab` | violated: the timer frees an entry `cleanup_list` is about to dereference |
| `Relay` | `Relay` | every response of up to 5 bytes over {a, newline, NUL}, `rio_buf` of 4, `response` of 3 | transparency, refinement of `LineCopy`, the loop ends |
| `Proxy` | `MCProxy` | two clients, nine request lines over six kinds of URI, two servers and itself | no leak, own answers, refinement of `IterativeServer`, everyone is served |
| `ProxyMalformed` | `MCProxy` | one client | violated: one bad request line ends the proxy |
| `Tiny` | `MCTiny` | two clients, a page, a program, every kind of request line, up to three lines | complete answers to their own requests, children reaped, refinement of `IterativeServer`, everyone is served |
| `Fssim` | `MCFssim` | three addresses, two names, any sequence of commands, ends and restarts | the pointers stay a tree, refinement of `FsTree`, what `save` and `reload` keep, when `pwd` is right |
| `FssimDuplicates` | `MCFssim` | the same | violated: three commands give a directory two entries of one name |

The properties, and what in the code could break them:

* `PlacesAgree`, which is `QueueMatchesStatus` and `SoleRunner`: status, queues and
  `runningProcess` are written apart from each other, with line 422 moving one process for
  another's sake.
* `FcfsOrder`, `IdleOnlyBeforeArrivals`, `RunToCompletion`: the order of execution
  that results, no idle cycle while there is work, no process put back once started.
* `TimeAccounting`: the counters of an unfinished process account for every cycle
  since it arrived, with the one cycle too many that line 403 adds for each burst.
* `FinishingTimes`: what line 394 stores is the clock less the arrival, plus the time blocked,
  plus one for each burst; the decrement of line 393 keeps the sum right, wrapped or not.
* `ReportsRepeat`: the second and third report repeat the first, but for the I/O utilisation:
  the total behind it is 0 in them.
* `ListIntact`, `CursorsLive`, `EntriesOwned`: no reader, writer or timer pass finds the
  list broken, its cursor dangling, or an entry without an owner. The first two hold until the
  module is unloaded and promise nothing after that, because during `cleanup_list` they
  are false. `EntriesOwned` holds throughout; an entry that `cleanup_list` misses counts
  as linked and stays allocated, so it does not say that an unload frees everything.
* `PassIsExact`, `RegistrationsKept`, `DeadPurged`: what the list says about processes, until
  the unload.
* `ReadOvershoot`: how far the count a read returns can exceed the length asked for. Where
  `snprintf` writes is not modelled.
* `QuietWhenGone`: after an unload no handler, timer or lock is active.
* `CatEnds`: although the offset never moves, until the unload. A reader of a list that
  `cleanup_list` has left linked to itself may go round for ever, with the lock held.
* `Transparent`, `LinesSpec`, `Relayed`: the bytes, the lines, the end.
* `NoDescriptorLeak`, `OwnAnswer`, `ServerSpec`, `EachServed` of the proxy: what a path
  through the loop leaves open, whose request is answered, in which order, and that it is.
* `ChildReaped`, `OwnAnswerComplete`, `ServerSpec`, `EachServed` of Tiny: the child
  against the connection it writes to; the announced length against what is sent
  although the file has changed; the header loop that can spin.
* `TreeIntact`, `FsSpec`, `LostByRmOnly`: a pointer left behind by an insertion or a
  removal, in one directory or in another; memory that can no longer be reached.
* `RoundTrip`, `ReloadAdds`: what a file gives back, in which order, and that a reload,
  even of a file that was cut off, only adds.
* `PwdOfFirstEntries`: the exact condition under which `pwd` prints the path.

**Bounds.** Three jobs are the least with a first, a middle and a last in a queue,
and the arrival times make any of them early, late or simultaneous. With `C = 5`
and 3-bit words a simulation of three jobs runs past the wrap of the clock, and
`C = 0` makes `currentCPUTimeRun` run through it; `B` in {1,2} gives jobs that
always and that sometimes block. Two entries are the least with an entry before and
behind a cursor or a list head between two; two tasks the least that compete for the
lock; `MaxTime` and `MaxForks` of 1 let a CPU time be stale and a PID be reused; `KmlabLive`, where
CPU times play no part, has a `MaxTime` of 0.
`Cap = 1` and `LineLen = 2` make a second line exceed `PROCFS_MAX_SIZE`. Five bytes over a
`response` that holds two and a `rio_buf` that holds four give lines that
are cut, that span two refills, that share one, and a last line without newline; a
NUL among them shows that nothing treats it as an end. Two clients are the least of which one
is served while the other waits and inherits the first's `method` and `uri`; two
lines of a response are the least that can be interrupted. With three clients
`Proxy` has more than 1.5 million states and takes too long to be run often; for more of
everything there are the theorems below. `Tiny` has two clients for the same reason; three
lines are a request, a header and the blank line, and sizes of 0 and 1 are a
page that cannot be mapped and one that can. Three nodes are the least with a first, a middle and
a last entry, and with an entry of an entry beside another; two names are
the least that can be equal and not. `Fssim`'s runs have no bound on the number
of commands: a file has as many lines as the tree has nodes.

**Deadlock.** The other runs have `CHECK_DEADLOCK FALSE` because these models may stop for
good: a simulation ends, a module is unloaded or crashes, the relay closes, the
proxy exits or waits for itself, Tiny exits or spins. (`Fssim` and, without an unload, `Kmlab` never do: the runs `Fssim` and `KmlabLive`
check for deadlock.) That they do not stop *elsewhere* is what
`Terminates`, `DeadPurged`, `CatEnds`, `Relayed` and `EachServed` say.

**Fairness.** `Scheduler`: `WF(Next)`, one sequential program that nothing preempts
for ever. `Kmlab`: strong fairness of the timer and of each call under way. Weak fairness would not do, as each of them is disabled again and
again by others' critical sections; strong fairness says that the scheduler and the
interrupt controller do not pass over one for ever. Nobody is assumed to start a
call, an unload or an exit. `Relay`: weak fairness of the steps that make progress:
the origin sends its response and closes, the client reads, and `EINTR` does not
come for ever. `Proxy`: the proxy runs (`WF(Serve \/ Error)`), a server that has
accepted closes in the end (`WF(EndOfResponse)`), and a client that has connected
sends a line or leaves. The last two are assumptions about others; the code has no
timeout, and without them one silent client or server holds up all the rest. `Tiny`:
the server and its child run (`WF(Serve)`), and a client that stays sends the lines
of its request (`WF(Send(c))`); nobody has to connect or leave, and no error has to occur.
A CGI program ends (`Adder` is part of `Serve`), which is true of the one there is. `Fssim` has
no liveness property: the user need not type anything.

## 4. The theorems

| Module | Theorem | Of | From |
|---|---|---|---|
| `SchedulerProofs` | `TypeCorrect`, `PlacesCorrect`, `FirstComeFirstServed`, `WorkConserving`, `SameReports`, `NeverPreempted`, `TimeAccounted`, `FinishingTimesTold` | every number of jobs, every input with `B > 0`, every word size above 2 | `InputAssumption` |
| `KmlabProofs` | `LockExcludes`, `Overshoot` | any number of processors, tasks, entries, PIDs | `KmlabAssumption` |
| `KmlabProofs` | `TypeCorrect`, `CursorsStayLive`, `NoLeak`, `ListStaysIntact`, `PassesAreExact`, `Quiescence`, `Registered` | one processor (`~Smp`), any number of the rest | `KmlabAssumption` |
| `RelayProofs` | `TypeCorrect`, `Transparency`, `RefinesLines` | every response, every size of the two buffers | `RelayAssumption` |
| `ProxyProofs` | `TypeCorrect`, `NoLeak`, `OwnAnswers`, `RefinesServer` | any number of clients, any requests, any servers | `ProxyAssumption` |
| `TinyProofs` | `TypeCorrect`, `ChildrenReaped`, `OwnAnswersComplete`, `RefinesServer` | any number of clients, any requests, files of any size | `TinyAssumption` |
| `FssimProofs` | `TreeStaysIntact`, `OnlyRmLoses` | any number of nodes and names, any sequence of commands, any file | `FssimAssumption` |
| `FssimWalks` | `ForestInvariance`, `FssimTypes`, `RefinesTree`, `ReloadOnlyAdds`, `PwdIsPath`, `FilesComeBack` | the same | `FssimAssumption` |

`QueueLemmas` holds the lemmas about queues that `ProxyProofs` and `TinyProofs` share.

Each component has an inductive invariant with a lemma per action, and the theorems follow
from it. Where a theorem needs more than the rest of them do, that is an invariant of
its own on top (`Counters` in `SchedulerProofs`, `Visited` in `KmlabProofs`).

**Scheduler.** The properties are not inductive by themselves. `QueueMatchesStatus`
depends on line 418 never being true: a process moved by line 422 could be another
one than the one made ready. That line 418 is never true is arithmetic over the whole
run: `IOBurst` is the two's complement of the time blocked (`IoCountdown`), the
time blocked stays behind the CPU time (`IoBehindCpu`), and the CPU time stays below
`C` or, for `C = 0`, wraps to it (`CpuBound`), so a process terminates before
`IOBurst` has come round to 0. `Arrivals` and `ArrivalOrder` carry the order of arrival
from the clock into the queue; `OnlyFcfs` and `Reporting` say that the later loops
are not entered, and `Reporting` also that the total behind the I/O utilisation, reset with the
first report, stays 0. `TimeAccounting` speaks of the end of a cycle only; `Counters` says at
every step up to which cycle a process has been counted (`CountedUpTo`): one that has the
CPU after step 3, one that is ready after its turn in step 4. The rest is arithmetic of quotients
and remainders (`DivisionOfSuccessor`) and that a sum modulo `Word` does not mind one of
its summands wrapping (`WordSums`). `FinishingTimes` follows from what `Counters` says of the process
that has the CPU at the moment it finishes (`FinishFigures`).

**Kmlab.** `LockExcludes` needs only that the holder of the lock is the task in a
critical section. On one processor the invariant `UInv` adds the doubly linked list,
who owns which entry, that nobody stands on an entry while another may change
the list, and how far an unload is. That a walk from the head meets every entry is
stated without a walk: every set that holds the head and the successors of its
members holds the list (`AllReached`). An insertion or a removal turns such a set of the
new list into one of the old. All of that (`Sound`) is claimed while the module is loaded: the
first stores of `cleanup_list` break the ring, its cursors may dangle, which is the
violation `KmlabUnload` shows, and a list it has left behind may be linked in any way.
What outlives it is that every pointer that is not poison is an address (`Addressed`), that
an entry is poisoned when it is freed and not before, so that nothing is freed twice, and
that `cleanup_list` is at an entry, not at the head, between the steps of one turn
(`CleanupOnEntry`). `EntriesOwned`, `QuietWhenGone` and type correctness rest on these. For `PassIsExact`, `Visited` says that what the cursor of a
timer pass has behind it is exact already, nothing else having run since the pass began.

**Relay.** `Accounted` says that every byte read is in `output`, in `response` or in
`rio_buf`, in that order; `BufferHolds` and `NoNewlineYet` say what the last two
contain. `RefinesLines` maps every step to `GetLine`, `PutSome`, `Close`, `Break` or a
stutter; the four ways in which `rio_readlineb` can return have a lemma each.

**Proxy.** `Parsed` relates `method` and `uri` to the line the client being served has
sent, if it has sent enough of one; `Queued` keeps a connection in the backlog once
and the proxy's connection to itself there until the proxy ends; `Silent` says that
nobody has heard anything before. The refinement needs them to show that an
arriving connection is new, and that `Accept` never takes the connection to itself.

**Tiny.** `SoFar` is the heart: at each point of the program, what the client being
served has heard together with what is still to be written (`out`) is one of the answers to
its request. `Asked` ties `uri` to the request line although the server has long
forgotten it, `Stage` says which kind of file is being served and that a child exists
exactly while the server waits, `Silent` that the others have heard nothing. A client that
has left is let off: its answer may be cut short.

**Fssim.** `Tree` is defined as the smallest set closed under the pointers, so the proof that a
node is not in it is a closed set without the node, and no induction along
pointers is needed. The invariant says that pointers have one source, that parents agree
and that everything reachable is allocated (`SinglePointers`, `Parents`, `Allocated`); a
lemma per way of changing pointers (`AddedInFront`, `AddedBehind`, `TakenFirst`,
`TakenBehind`) says what becomes of `Tree`. The file is not part of it: these two theorems hold
whatever `reload` reads. `LostByRmOnly` comes out of the same lemmas, since they
say which nodes leave the tree.

**Fssim, what is listed, printed and saved.** `ls`, `pwd`, `save` and the path of a node are
recursions along pointers, so what they return can only be said once the pointers are
known to lead somewhere. The invariant `FInv` adds `Forest` to that of `FssimProofs`, for
*all* nodes, as a lost one still has pointers: one pointer at most leads to a node,
`parent` agrees with them, and every set of nodes has one that both its pointers leave
(`Ends`). The last says, without induction, that no walk goes on for ever: to prove a
claim about all nodes, take the set of those for which it is wrong; one of them is left
by both of its pointers, so the claim is right behind it, and one step of the recursion
contradicts it. `RecursionExists` shows in this way that a recursion along two pointers
has a value, and the functions satisfy their equations. `FInv` also has the labels and the
file: it is made of lines, complete or cut off behind a part.

* `RefinesTree`: a new node in front or behind changes the `Chain` of one directory at
  that end (`ListedInFront`, `ListedBehind`), a removal drops one position of one listing
  (`TakenFromListing`), all others keep theirs. The step of each command then is a step of
  `FsTree`; `ReloadOnlyAdds` needs the same lemmas.
* `PwdIsPath`: `pwd` walks down from the root, the path is built up from the current
  directory. If each directory is the first entry of the one above, the way down retraces the
  way up; if `pwd` prints the path, what it walks along are first entries.
* `FilesComeBack`: `RoundTrip` is not inductive, because where the next line goes depends on the
  order of the lines in the file. `WalkFile` adds that every file was written by a walk of some
  tree, perhaps cut off (`IsWalk`): there is a map from each line to that of its parent
  such that whatever stands between the two is below that parent. Of the lines read so far,
  those below which the next one may go are therefore *open* (`OpenLine`): all lines behind are
  below them. In the tree, a node behind an open directory or behind one above it would have a
  line (`HasLine`) behind those of all that is below the directory (`BelowFirst`), which
  contradicts that (`OpenIsLast`); so the entry added is the last one that
  `save` would write (`SavedAppended`). No line is left out: names in the tree are those of
  the lines read (`FoundInFile`).

`FssimAssumption` asks for distinct addresses, that no user types "/" as a name, and that `NULL`
is not a pair of a name and a type (it stands for the missing label of a node). Nothing
is assumed about how many nodes or names there are.

**Only model-checked:** liveness (`Terminates`, `DeadPurged`, `CatEnds`, `Relayed`,
`EachServed`), which the prover does not do under fairness. Every other property of a passing
run is a theorem; those of `Kmlab` for one processor, as in its runs. The violations are, by
their nature, behaviours of small instances.

## 5. What the checks found

* `SchedulerAlternates`: `sample_io/input/input-2:1` says two jobs "should alternate
  with FCFS". With line 408 commented out a blocked process keeps the CPU, and
  they run one after the other.
* `Scheduler`, `ReportsRepeat` (which holds): the simulations announced at
  `scheduler.c:450` and `:541` never take place, as line 349 is outside the loop. Their reports
  are those of FCFS with an I/O utilisation of 0.
* `KmlabSmp`: the handout (page 6, step 8) asks for locks around the list; lines 71
  and 73 of `kmlab.c` are commented out, and with a second processor a reader that
  holds the lock loses the entry it stands on.
* `KmlabUnload`: the handout (page 6, step 9) asks to stop asynchronous activity
  before memory is freed; `kmlab_exit` frees the list first (line 232). For the same
  reason a writer can lose an entry to `cleanup_list`, or leave one behind it.
* `ProxyMalformed`: the handout (page 3) says the proxy should not abort on a malformed
  request; a request without `//` passes the test of line 124, which compares with
  `'0'` and not `'\0'`, and `Open_clientfd` ends the program.
* `FssimDuplicates`: the handout of assignment 1 (page 3) wants an error for a name that is
  there already; `creat a`, `creat b`, `creat a` gives two entries `a`, because the search
  for the name visits the first entry and what is below it, and none of its siblings.
* `Fssim`, `ReloadAdds` (which holds): the handout says that `reload` re-initialises the tree; it
  adds to the one that is there, and leaves out every name that occurs anywhere in it.
* `Fssim`, `PwdOfFirstEntries` (which holds): the handout says that `pwd` prints the path of the
  current directory; it does exactly where each directory on the path is the first entry
  of the one above.

Seen on the way, without a statement in the repository to hold against them: Tiny spins for
ever on a client that leaves between its request line and the blank line (`tiny.c:108`,
the exception in `EachServed`); a page of size 0 ends the server, because `mmap` refuses a
length of 0 (`MmapError`); `doit` tests the owner's permission bits, so a file that is
the owner's and not the server's ends it in `Open`; when `Execve` fails the client hears the
server's buffered log (`<<"log">>` in `CgiAnswers`, which the properties admit); a request line of one word is
answered with whatever the stack holds. In the simulator `rm` of a file that was entered
by `cd` and given entries loses them (the exception in `LostByRmOnly`).

## 6. Not modelled, and why

* `kmlab_init`: behaviours start when `insmod` has returned, as in `kmlab_test.sh`. It creates
  the file before it initialises the list head; a use of the file in between
  dereferences a zeroed head. That can be read off the code (lines 201 and 215) and is listed as a
  hazard without a property.
* `rio_readn`, `rio_readnb` and the wrappers of `csapp.c` for semaphores, signal sets and
  process groups: no program of the repository calls them. The wrappers the programs do
  call are the error actions of `Proxy`, `Relay` and `Tiny`.
* `ll.c`, `ll.h`: sample code that no build includes and no program calls.
* Memory layout: overlong words in `sscanf`, `strcpy` and `parse_uri`, the three
  entries allocated for `process_list`, a failing `malloc`.
* Formatting: the reports of the scheduler, the lines of the proc file, the texts of error
  pages, `get_filetype`.
* Data in flight between a `close` and the peer, and with it the reset that a socket closed
  with unread headers may send (`proxy.c:98`).
* Build files, generated kernel files, scripts that pick a port, handouts.

## 7. Plan

Done, in this order, each with its abstract specification where it has one: `Scheduler`,
`Kmlab`, `LineCopy` and `Relay`, `IterativeServer` and `Proxy`, `FsTree` and `Fssim`, `Tiny`, and a
proof module for each component.

What could be added:

1. `kmlab_init`, with tasks that use the file before `insmod` has returned.
2. Data in flight: a network between the servers and their clients in which a reset can
   overtake data.
