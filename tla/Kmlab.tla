-------------------------------- MODULE Kmlab --------------------------------
(***************************************************************************)
(* The kernel module of assignment 3 (kmlab.c): /proc/kmlab/status.        *)
(*                                                                         *)
(* A process registers its PID by writing it to the file; a timer keeps    *)
(* the list of registered PIDs up to date; reading the file prints the     *)
(* list.  The actors are the tasks in procfile_read and procfile_write,    *)
(* the timer's softirq, the task that unloads the module, and the          *)
(* processes that register and exit.                                       *)
(*                                                                         *)
(* The read and write handlers take a spin lock with interrupts off; the   *)
(* timer callback and kmlab_exit take no lock.  Smp says whether there is  *)
(* a second processor.  Without one, interrupts being off keeps every      *)
(* other actor away, and so does a running softirq: there an operation on  *)
(* the list is one step.  cleanup_list is a task with interrupts on: every *)
(* load and store of its list_del is a step, and anything may come between *)
(* two of them.                                                            *)
(*                                                                         *)
(* The behaviour starts when insmod has returned, as kmlab_test.sh starts  *)
(* its clients.  The work queue is created and destroyed and never used:   *)
(* the callback calls work_function itself (line 85).                      *)
(***************************************************************************)
EXTENDS Integers, FiniteSets

CONSTANTS Tasks,       (* tasks that read and write the file               *)
          Pids,        (* process identifiers                              *)
          Entries,     (* addresses kmalloc can give to an ll_struct       *)
          None,        (* no task, no entry                                *)
          Head,        (* the address of my_list                           *)
          Poison,      (* what list_del leaves in an entry's pointers      *)
          Smp,         (* is there more than one processor?                *)
          MayUnload,   (* bound: does anybody unload the module?           *)
          ReadSizes,   (* buffer lengths user programs read with           *)
          Cap,         (* PROCFS_MAX_SIZE                                  *)
          LineLen,     (* the length of a line of the file                 *)
          MaxTime,     (* bound: CPU time a process uses                   *)
          MaxForks     (* bound: PIDs given to a new process               *)

ASSUME KmlabAssumption ==
    /\ Smp \in BOOLEAN /\ MayUnload \in BOOLEAN
    /\ ReadSizes \subseteq Nat \ {0}
    /\ Cap \in Nat /\ LineLen \in Nat \ {0} /\ MaxTime \in Nat /\ MaxForks \in Nat
    /\ Head \notin Entries /\ Poison \notin Entries /\ Head # Poison
    /\ Pids # {}
    /\ None \notin Tasks /\ None \notin Entries

Nodes == Entries \cup {Head}

VARIABLES
    next, prev,      \* the pointers of my_list and of the list_head of each entry
    alloc,           \* the entries kmalloc has given out
    PID, cpuTime,    \* the fields of each entry
    lock,            \* the task that holds the spin lock, or None
    pc,              \* where each task is in procfile_read or procfile_write
    new,             \* the entry procfile_write is about to add
    entry,           \* the cursor of procfile_read
    size,            \* buffer_length of a read
    got,             \* buf_size of a read
    cat,             \* the task is a cat that has not met the end of the file
    armed,           \* my_timer is pending
    tpc, tcur, ttmp, \* work_function in the softirq: running?, entry and temp
    mod,             \* how far kmlab_exit is; "crashed" after a bad dereference
    ccur, ctmp,      \* entry and tmp of cleanup_list
    cpc,             \* how far the body of its loop is
    cprev, cnext,    \* what its list_del has loaded from entry
    procFile,        \* /proc/kmlab/status exists
    alive,           \* the processes that exist
    utime,           \* utime of each of them
    forks            \* how many PIDs have been reused

listVars  == <<next, prev, alloc, PID, cpuTime>>
taskVars  == <<pc, new, entry, size, got, cat>>
timerVars == <<armed, tpc, tcur, ttmp>>
cleanVars == <<ccur, ctmp, cpc, cprev, cnext>>
modVars   == <<mod, cleanVars, procFile>>
procVars  == <<alive, utime, forks>>
vars == <<listVars, lock, taskVars, timerVars, modVars, procVars>>

InWrite == {"write_parse", "write_lock", "write_add", "write_unlock"}
InRead  == {"read_lock", "read_iter", "read_unlock", "read_copy"}

\* Between spin_lock_irqsave and spin_unlock_irqrestore.
Critical == {"write_add", "write_unlock", "read_iter", "read_unlock"}

Linked == {e \in Entries : next[e] # Poison}

\* An address that may be dereferenced as a member of the list.
Live(n) == n \in Linked \cup {Head}

-----------------------------------------------------------------------------
(* linux/list.h and linux/slab.h. *)

\* list_add: right behind the head.
ListAdd(e) ==
    /\ next' = [next EXCEPT ![Head] = e, ![e] = next[Head]]
    /\ prev' = [prev EXCEPT ![next[Head]] = e, ![e] = Head]

ListDel(e) ==
    /\ next' = [next EXCEPT ![prev[e]] = next[e], ![e] = Poison]
    /\ prev' = [prev EXCEPT ![next[e]] = prev[e], ![e] = Poison]

Kfree(e) == alloc' = alloc \ {e}

-----------------------------------------------------------------------------
(* Who may run. *)

Running == mod # "crashed"

\* A task, or the processor for user mode code when t is None.
TaskMayRun(t) ==
    /\ Running
    /\ Smp \/ (tpc = "idle" /\ lock \in {None, t})

SoftirqMayRun ==
    /\ Running
    /\ Smp \/ lock = None

\* A dereference of an unlinked or freed entry: nothing is known from there on.
Crash ==
    /\ mod' = "crashed"
    /\ UNCHANGED <<listVars, lock, taskVars, timerVars, cleanVars, procFile, procVars>>

-----------------------------------------------------------------------------
\* A variable of a call, a loop or a process that has ended is reset: it is dead.
Init ==
    /\ next = [n \in Nodes |-> IF n = Head THEN Head ELSE Poison]
    /\ prev = [n \in Nodes |-> IF n = Head THEN Head ELSE Poison]
    /\ alloc = {}
    /\ PID = [e \in Entries |-> CHOOSE p \in Pids : TRUE]
    /\ cpuTime = [e \in Entries |-> 0]
    /\ lock = None
    /\ pc = [t \in Tasks |-> "user"]
    /\ new = [t \in Tasks |-> None]
    /\ entry = [t \in Tasks |-> Head]
    /\ size = [t \in Tasks |-> 0]
    /\ got = [t \in Tasks |-> 0]
    /\ cat = [t \in Tasks |-> FALSE]
    /\ armed = TRUE
    /\ tpc = "idle" /\ tcur = Head /\ ttmp = Head
    /\ mod = "loaded"
    /\ ccur = Head /\ ctmp = Head /\ cpc = "turn" /\ cprev = Head /\ cnext = Head
    /\ procFile = TRUE
    /\ alive = Pids
    /\ utime = [p \in Pids |-> 0]
    /\ forks = 0

(* procfile_write *)

\* kmalloc of the entry (and of the string).  When it fails nothing changes.
WriteEnter(t) ==
    /\ TaskMayRun(t)
    /\ pc[t] = "user" /\ ~cat[t] /\ procFile
    /\ \E e \in Entries \ alloc :
          /\ alloc' = alloc \cup {e}
          /\ new' = [new EXCEPT ![t] = e]
    /\ pc' = [pc EXCEPT ![t] = "write_parse"]
    /\ UNCHANGED <<next, prev, PID, cpuTime, lock, entry, size, got, cat, timerVars,
                   modVars, procVars>>

\* Fault: the error path does not free the entry.
WriteRejectLeaks(t) ==
    /\ TaskMayRun(t)
    /\ pc[t] = "write_parse"
    /\ new' = [new EXCEPT ![t] = None]
    /\ pc' = [pc EXCEPT ![t] = "user"]
    /\ UNCHANGED <<listVars, lock, entry, size, got, cat, timerVars, modVars, procVars>>

\* The text cannot be copied or holds no number.
WriteReject(t) ==
    /\ TaskMayRun(t)
    /\ pc[t] = "write_parse"
    /\ Kfree(new[t])
    /\ new' = [new EXCEPT ![t] = None]
    /\ pc' = [pc EXCEPT ![t] = "user"]
    /\ UNCHANGED <<next, prev, PID, cpuTime, lock, entry, size, got, cat, timerVars,
                   modVars, procVars>>

WriteParse(t) ==
    /\ TaskMayRun(t)
    /\ pc[t] = "write_parse"
    /\ \E p \in Pids : PID' = [PID EXCEPT ![new[t]] = p]
    /\ cpuTime' = [cpuTime EXCEPT ![new[t]] = 0]
    /\ pc' = [pc EXCEPT ![t] = "write_lock"]
    /\ UNCHANGED <<next, prev, alloc, lock, new, entry, size, got, cat, timerVars,
                   modVars, procVars>>

WriteLock(t) ==
    /\ TaskMayRun(t)
    /\ pc[t] = "write_lock"
    /\ lock = None
    /\ lock' = t
    /\ pc' = [pc EXCEPT ![t] = "write_add"]
    /\ UNCHANGED <<listVars, new, entry, size, got, cat, timerVars, modVars, procVars>>

WriteAdd(t) ==
    /\ TaskMayRun(t)
    /\ pc[t] = "write_add"
    /\ IF ~Live(next[Head])
         THEN Crash
         ELSE /\ ListAdd(new[t])
              /\ new' = [new EXCEPT ![t] = None]
              /\ pc' = [pc EXCEPT ![t] = "write_unlock"]
              /\ UNCHANGED <<alloc, PID, cpuTime, lock, entry, size, got, cat, timerVars,
                             modVars, procVars>>

WriteUnlock(t) ==
    /\ TaskMayRun(t)
    /\ pc[t] = "write_unlock"
    /\ lock' = None
    /\ pc' = [pc EXCEPT ![t] = "user"]
    /\ UNCHANGED <<listVars, new, entry, size, got, cat, timerVars, modVars, procVars>>

(* procfile_read, and the cat that calls it until it returns 0 or an error.  The
   file offset never moves (line 130 is commented out): only a program that seeks
   or reads at an offset of its own meets the early return for *offset > 0 (line
   109), a call that changes nothing and returns 0. *)

ReadEnter(t) ==
    /\ TaskMayRun(t)
    /\ pc[t] = "user" /\ procFile
    /\ cat' = [cat EXCEPT ![t] = TRUE]
    /\ \E s \in IF cat[t] THEN {size[t]} ELSE ReadSizes : size' = [size EXCEPT ![t] = s]
    /\ got' = [got EXCEPT ![t] = 0]
    /\ pc' = [pc EXCEPT ![t] = "read_lock"]
    /\ UNCHANGED <<listVars, lock, new, entry, timerVars, modVars, procVars>>

\* Fault: the list is read without the lock.
ReadUnlocked(t) ==
    /\ TaskMayRun(t)
    /\ pc[t] = "read_lock"
    /\ entry' = [entry EXCEPT ![t] = next[Head]]
    /\ pc' = [pc EXCEPT ![t] = "read_iter"]
    /\ UNCHANGED <<listVars, lock, new, size, got, cat, timerVars, modVars, procVars>>

ReadLock(t) ==
    /\ TaskMayRun(t)
    /\ pc[t] = "read_lock"
    /\ lock = None
    /\ lock' = t
    /\ entry' = [entry EXCEPT ![t] = next[Head]]
    /\ pc' = [pc EXCEPT ![t] = "read_iter"]
    /\ UNCHANGED <<listVars, new, size, got, cat, timerVars, modVars, procVars>>

\* Fault: the line is written in full wherever the buffer ends.
Sprintf(n) == n + LineLen

\* buf_size after one more snprintf: the length of the line even when it did not
\* fit, and 0 more once the room left, PROCFS_MAX_SIZE - buf_size, has wrapped.
Snprintf(n) == IF n <= Cap THEN n + LineLen ELSE n

ReadLine(t) ==
    /\ TaskMayRun(t)
    /\ pc[t] = "read_iter"
    /\ entry[t] # Head /\ got[t] < size[t]
    /\ IF ~Live(entry[t])
         THEN Crash
         ELSE /\ got' = [got EXCEPT ![t] = Snprintf(@)]
              /\ entry' = [entry EXCEPT ![t] = next[@]]
              /\ UNCHANGED <<listVars, lock, pc, new, size, cat, timerVars, modVars,
                             procVars>>

ReadUnlock(t) ==
    /\ TaskMayRun(t)
    /\ pc[t] = "read_iter"
    /\ entry[t] = Head \/ got[t] >= size[t]
    /\ lock' = None
    /\ entry' = [entry EXCEPT ![t] = Head]
    /\ pc' = [pc EXCEPT ![t] = "read_copy"]
    /\ UNCHANGED <<listVars, new, size, got, cat, timerVars, modVars, procVars>>

\* copy_to_user succeeds or not; cat stops at an error and at the end of file.
ReadReturn(t) ==
    /\ TaskMayRun(t)
    /\ pc[t] = "read_copy"
    /\ \E copied \in BOOLEAN : cat' = [cat EXCEPT ![t] = copied /\ got[t] > 0]
    /\ size' = [size EXCEPT ![t] = IF cat'[t] THEN @ ELSE 0]
    /\ got' = [got EXCEPT ![t] = 0]
    /\ pc' = [pc EXCEPT ![t] = "user"]
    /\ UNCHANGED <<listVars, lock, new, entry, timerVars, modVars, procVars>>

\* A read of a file that is gone fails.
ReadGone(t) ==
    /\ TaskMayRun(t)
    /\ pc[t] = "user" /\ cat[t] /\ ~procFile
    /\ cat' = [cat EXCEPT ![t] = FALSE]
    /\ size' = [size EXCEPT ![t] = 0]
    /\ UNCHANGED <<listVars, lock, pc, new, entry, got, timerVars, modVars, procVars>>

(* my_timer_callback and work_function *)

\* Fault: a stale answer for a process that has exited.
AlwaysExists(p) == TRUE

\* Fault: a process that has used no CPU time is taken for one that has exited.
HasRun(p) == p \in alive /\ utime[p] > 0

\* get_cpu_use returns 0.
Exists(p) == p \in alive

TimerFire ==
    /\ SoftirqMayRun
    /\ tpc = "idle" /\ armed
    /\ IF ~Live(next[Head])
         THEN Crash
         ELSE /\ armed' = FALSE
              /\ tpc' = "work"
              /\ tcur' = next[Head]
              /\ ttmp' = next[next[Head]]
              /\ UNCHANGED <<listVars, lock, taskVars, modVars, procVars>>

\* Fault: list_for_each_entry, which goes on from the entry just removed.
WorkEntryUnsafe ==
    /\ SoftirqMayRun
    /\ tpc = "work" /\ tcur # Head
    /\ IF Exists(PID[tcur])
         THEN /\ cpuTime' = [cpuTime EXCEPT ![tcur] = utime[PID[tcur]]]
              /\ UNCHANGED <<next, prev, alloc>>
         ELSE /\ ListDel(tcur)
              /\ Kfree(tcur)
              /\ UNCHANGED cpuTime
    /\ tcur' = next'[tcur]
    /\ UNCHANGED <<PID, lock, taskVars, armed, tpc, ttmp, modVars, procVars>>

\* What list_del of an entry dereferences, and what must then be left for n.
CanDel(e, n) == Live(e) /\ Live(prev[e]) /\ Live(next[e]) /\ n # e

\* Fault: the entry is freed and left in the list.
WorkEntryFreesOnly ==
    /\ SoftirqMayRun
    /\ tpc = "work" /\ tcur # Head
    /\ IF Exists(PID[tcur])
         THEN /\ cpuTime' = [cpuTime EXCEPT ![tcur] = utime[PID[tcur]]]
              /\ UNCHANGED alloc
         ELSE /\ Kfree(tcur)
              /\ UNCHANGED cpuTime
    /\ tcur' = ttmp
    /\ ttmp' = next[ttmp]
    /\ UNCHANGED <<next, prev, PID, lock, taskVars, armed, tpc, modVars, procVars>>

\* One turn of list_for_each_entry_safe: the CPU time of a process that exists is
\* stored, the entry of one that does not is removed; then on to temp, whose
\* pointer is read for the turn after.
WorkEntry ==
    /\ SoftirqMayRun
    /\ tpc = "work" /\ tcur # Head
    /\ IF ~Live(tcur) \/ ~Live(ttmp) \/ (~Exists(PID[tcur]) /\ ~CanDel(tcur, ttmp))
         THEN Crash
         ELSE /\ IF Exists(PID[tcur])
                   THEN /\ cpuTime' = [cpuTime EXCEPT ![tcur] = utime[PID[tcur]]]
                        /\ UNCHANGED <<next, prev, alloc>>
                   ELSE /\ ListDel(tcur)
                        /\ Kfree(tcur)
                        /\ UNCHANGED cpuTime
              /\ tcur' = ttmp
              /\ ttmp' = next'[ttmp]
              /\ UNCHANGED <<PID, lock, taskVars, armed, tpc, modVars, procVars>>

\* Fault: the timer is not started again.
WorkDoneOnce ==
    /\ SoftirqMayRun
    /\ tpc = "work" /\ tcur = Head
    /\ tpc' = "idle"
    /\ ttmp' = Head
    /\ UNCHANGED <<listVars, lock, taskVars, armed, tcur, modVars, procVars>>

\* mod_timer
WorkDone ==
    /\ SoftirqMayRun
    /\ tpc = "work" /\ tcur = Head
    /\ armed' = TRUE
    /\ tpc' = "idle"
    /\ ttmp' = Head
    /\ UNCHANGED <<listVars, lock, taskVars, tcur, modVars, procVars>>

(* kmlab_exit, in the order of its calls *)

Rmmod ==
    /\ TaskMayRun(None)
    /\ MayUnload /\ mod = "loaded"
    /\ mod' = "cleanup_list"
    /\ ctmp' = next[Head] /\ cpc' = "advance"
    /\ UNCHANGED <<listVars, lock, taskVars, timerVars, ccur, cprev, cnext, procFile,
                   procVars>>

\* The node that the loop of cleanup_list dereferences next.
CleanupUses ==
    CASE cpc \in {"turn", "load_next", "free"} -> ccur
      [] cpc = "set_prev"                      -> cnext
      [] cpc = "set_next"                      -> cprev
      [] cpc = "advance"                       -> ctmp

\* One step of the loop, with interrupts on and no lock held.
CleanupStep(from, to) ==
    /\ TaskMayRun(None)
    /\ mod = "cleanup_list" /\ cpc = from
    /\ Live(CleanupUses)
    /\ cpc' = to
    /\ UNCHANGED <<PID, cpuTime, lock, taskVars, timerVars, mod, procFile, procVars>>

\* __list_del(entry->prev, entry->next): the arguments are loaded, ...
CleanupLoadPrev ==
    /\ CleanupStep("turn", "load_next")
    /\ ccur # Head
    /\ cprev' = prev[ccur]
    /\ UNCHANGED <<next, prev, alloc, ccur, ctmp, cnext>>

CleanupLoadNext ==
    /\ CleanupStep("load_next", "set_prev")
    /\ cnext' = next[ccur]
    /\ UNCHANGED <<next, prev, alloc, ccur, ctmp, cprev>>

\* ... next->prev = prev, ...
CleanupSetPrev ==
    /\ CleanupStep("set_prev", "set_next")
    /\ prev' = [prev EXCEPT ![cnext] = cprev]
    /\ UNCHANGED <<next, alloc, ccur, ctmp, cprev, cnext>>

\* ... and prev->next = next, with what was loaded.
CleanupSetNext ==
    /\ CleanupStep("set_next", "free")
    /\ next' = [next EXCEPT ![cprev] = cnext]
    /\ cprev' = Head /\ cnext' = Head
    /\ UNCHANGED <<prev, alloc, ccur, ctmp>>

\* The pointers of the entry are poisoned, and it is freed.
CleanupFree ==
    /\ CleanupStep("free", "advance")
    /\ next' = [next EXCEPT ![ccur] = Poison]
    /\ prev' = [prev EXCEPT ![ccur] = Poison]
    /\ Kfree(ccur)
    /\ UNCHANGED <<ccur, ctmp, cprev, cnext>>

\* The first turn, or the next one: on to tmp, whose pointer is read for the turn
\* after.
CleanupAdvance ==
    /\ CleanupStep("advance", "turn")
    /\ ccur' = ctmp /\ ctmp' = next[ctmp]
    /\ UNCHANGED <<next, prev, alloc, cprev, cnext>>

\* A step that meets an entry the timer has freed.
CleanupCrash ==
    /\ TaskMayRun(None)
    /\ mod = "cleanup_list" /\ ~Live(CleanupUses)
    /\ Crash

CleanupDone ==
    /\ TaskMayRun(None)
    /\ mod = "cleanup_list" /\ cpc = "turn" /\ ccur = Head
    /\ mod' = "proc_remove"
    /\ ctmp' = Head
    /\ UNCHANGED <<listVars, lock, taskVars, timerVars, ccur, cpc, cprev, cnext,
                   procFile, procVars>>

\* proc_remove stops new calls of the handlers, then waits for those under way.
ProcRemove ==
    /\ TaskMayRun(None)
    /\ mod = "proc_remove" /\ procFile
    /\ procFile' = FALSE
    /\ UNCHANGED <<listVars, lock, taskVars, timerVars, mod, cleanVars, procVars>>

ProcDrained ==
    /\ TaskMayRun(None)
    /\ mod = "proc_remove" /\ ~procFile
    /\ \A t \in Tasks : pc[t] = "user"
    /\ mod' = "del_timer"
    /\ UNCHANGED <<listVars, lock, taskVars, timerVars, cleanVars, procFile, procVars>>

\* Fault: the timer is left pending.
ForgetTimer ==
    /\ TaskMayRun(None)
    /\ mod = "del_timer"
    /\ mod' = "gone"
    /\ UNCHANGED <<listVars, lock, taskVars, timerVars, cleanVars, procFile, procVars>>

\* del_timer does not wait for a callback that is running.  Nothing was ever
\* queued, so flush_workqueue and destroy_workqueue return.
DelTimer ==
    /\ TaskMayRun(None)
    /\ mod = "del_timer"
    /\ armed' = FALSE
    /\ mod' = "gone"
    /\ UNCHANGED <<listVars, lock, taskVars, tpc, tcur, ttmp, cleanVars, procFile,
                   procVars>>

(* The processes whose PIDs are registered *)

UseCpu(p) ==
    /\ TaskMayRun(None)
    /\ p \in alive /\ utime[p] < MaxTime
    /\ utime' = [utime EXCEPT ![p] = @ + 1]
    /\ UNCHANGED <<listVars, lock, taskVars, timerVars, modVars, alive, forks>>

Exit(p) ==
    /\ TaskMayRun(None)
    /\ p \in alive
    /\ alive' = alive \ {p}
    /\ utime' = [utime EXCEPT ![p] = 0]
    /\ UNCHANGED <<listVars, lock, taskVars, timerVars, modVars, forks>>

\* A new process gets the PID of one that has exited; it has used no CPU time yet.
Fork(p) ==
    /\ TaskMayRun(None)
    /\ p \notin alive /\ forks < MaxForks
    /\ alive' = alive \cup {p}
    /\ forks' = forks + 1
    /\ UNCHANGED <<listVars, lock, taskVars, timerVars, modVars, utime>>

-----------------------------------------------------------------------------
Write(t) == WriteEnter(t) \/ WriteReject(t) \/ WriteParse(t) \/ WriteLock(t)
              \/ WriteAdd(t) \/ WriteUnlock(t)
Read(t)  == ReadEnter(t) \/ ReadLock(t) \/ ReadLine(t) \/ ReadUnlock(t)
              \/ ReadReturn(t) \/ ReadGone(t)
Timer    == TimerFire \/ WorkEntry \/ WorkDone
Cleanup  == CleanupLoadPrev \/ CleanupLoadNext \/ CleanupSetPrev \/ CleanupSetNext
              \/ CleanupFree \/ CleanupAdvance \/ CleanupCrash \/ CleanupDone
Unload   == Rmmod \/ Cleanup \/ ProcRemove \/ ProcDrained \/ DelTimer
Process  == \E p \in Pids : UseCpu(p) \/ Exit(p) \/ Fork(p)

Next == (\E t \in Tasks : Write(t) \/ Read(t)) \/ Timer \/ Unload \/ Process

Spec == Init /\ [][Next]_vars

\* What is under way goes on.  A task waits only for a critical section or a
\* softirq, and those end; the scheduler and the interrupt controller do not pass
\* over one that can run again and again, which is what strong fairness says.
\* Nobody has to write, to read, to unload the module, to go on unloading it, or to
\* exit: a cat goes on, though.
TaskStep(t) ==
    \/ (pc[t] # "user" \/ cat[t]) /\ (Write(t) \/ Read(t))

FairSpec ==
    /\ Spec
    /\ SF_vars(Timer)
    /\ \A t \in Tasks : SF_vars(TaskStep(t))

-----------------------------------------------------------------------------
(* Properties. *)

TypeOK ==
    /\ next \in [Nodes -> Nodes \cup {Poison}]
    /\ prev \in [Nodes -> Nodes \cup {Poison}]
    /\ alloc \subseteq Entries
    /\ PID \in [Entries -> Pids]
    /\ cpuTime \in [Entries -> 0 .. MaxTime]
    /\ lock \in Tasks \cup {None}
    /\ pc \in [Tasks -> {"user"} \cup InWrite \cup InRead]
    /\ new \in [Tasks -> Entries \cup {None}]
    /\ entry \in [Tasks -> Nodes]
    /\ size \in [Tasks -> ReadSizes \cup {0}]
    /\ got \in [Tasks -> Nat]
    /\ cat \in [Tasks -> BOOLEAN]
    /\ armed \in BOOLEAN
    /\ tpc \in {"idle", "work"}
    /\ tcur \in Nodes /\ ttmp \in Nodes
    /\ mod \in {"loaded", "cleanup_list", "proc_remove", "del_timer", "gone", "crashed"}
    /\ ccur \in Nodes /\ ctmp \in Nodes
    /\ cpc \in {"turn", "load_next", "set_prev", "set_next", "free", "advance"}
    /\ cprev \in Nodes /\ cnext \in Nodes
    /\ procFile \in BOOLEAN
    /\ alive \subseteq Pids
    /\ utime \in [Pids -> 0 .. MaxTime]
    /\ forks \in 0 .. MaxForks

\* The pointers of the list agree in both directions.
DoublyLinked ==
    \A n \in Linked \cup {Head} :
        /\ Live(next[n]) /\ Live(prev[n])
        /\ prev[next[n]] = n /\ next[prev[n]] = n

\* A walk along next from my_list meets every linked entry: whatever holds my_list
\* and all that follows what it holds, holds them.
AllReached ==
    \A S \in SUBSET Nodes :
        Head \in S /\ (\A n \in S : next[n] \in S) => Linked \subseteq S

\* Until the module is unloaded the list is a ring through my_list in both
\* directions: no entry is lost, no cycle avoids the head, nothing linked has been
\* freed.  No longer than that: cleanup_list stores pointers it loaded earlier, and
\* an entry that a writer has added since then, or a removal by the timer, is undone.
ListIntact ==
    mod = "loaded" => DoublyLinked /\ AllReached /\ Linked \subseteq alloc

\* Until the module is unloaded the cursors of a reader and of work_function point
\* into the list: no step of another actor unlinks or frees the entry they are going
\* to dereference.
CursorsLive ==
    mod = "loaded" =>
        /\ \A t \in Tasks : pc[t] = "read_iter" => Live(entry[t])
        /\ tpc = "work" => Live(tcur) /\ Live(ttmp)

\* The reader alone, and no unload to disturb it.
ReaderCursorLive ==
    mod = "loaded" => \A t \in Tasks : pc[t] = "read_iter" => Live(entry[t])

\* The same for cleanup_list while the module is unloaded: what it dereferences next
\* has not been freed, be it a cursor or a pointer its list_del has loaded.
CleanupCursorsLive == mod = "cleanup_list" => Live(CleanupUses)

\* Every entry kmalloc has given out has been linked, and not freed, or is in the
\* hands of one procfile_write: none leaks on an error path, none is freed or added
\* twice.  What cleanup_list misses, because it was added later or its links were
\* overwritten, counts as linked: it stays allocated after the unload.
EntriesOwned ==
    /\ alloc = Linked \cup {new[t] : t \in {u \in Tasks : new[u] # None}}
    /\ \A t, u \in Tasks : new[t] # None =>
          new[t] \notin Linked /\ (new[t] = new[u] => t = u)

\* A read returns at most one line more than it was asked for, and at most one
\* line more than PROCFS_MAX_SIZE (the test at line 120 is made before the line
\* is written, and not against the size of buf).
ReadOvershoot ==
    \A t \in Tasks : pc[t] \in InRead =>
        got[t] < size[t] + LineLen /\ got[t] <= Cap + LineLen

\* Once the module is unloaded nothing of it is left to run: no handler, no lock
\* held, no softirq, no pending timer.
QuietWhenGone ==
    mod = "gone" =>
        /\ lock = None /\ tpc = "idle" /\ ~armed
        /\ \A t \in Tasks : pc[t] = "user"

\* When work_function returns, the list holds processes that exist only, each with
\* the CPU time it has at that moment, as long as the module is not being unloaded.
PassIsExact ==
    [][mod = "loaded" /\ WorkDone =>
          \A e \in Linked : PID[e] \in alive /\ cpuTime[e] = utime[PID[e]]]_vars

\* While the module is loaded, an entry is removed only if its process is gone.
RegistrationsKept ==
    [][mod = "loaded" =>
          \A e \in Linked : e \in Linked' \/ PID[e] \notin alive]_vars

\* The entry of a process that has exited goes, unless its PID is used again or
\* the module is unloaded.
DeadPurged ==
    \A e \in Entries :
        (e \in Linked /\ PID[e] \notin alive)
            ~> (e \notin Linked \/ PID[e] \in alive \/ mod # "loaded")

\* cat comes to an end if the registered processes and the registrations do, or the
\* module is unloaded: the offset never moves, so only an empty list, an error or the
\* removal of the file ends it.  Nothing is promised of a list that cleanup_list has
\* left linked to itself: a reader that holds the lock may follow it for ever.
CatEnds ==
    <>[](alive = {} /\ \A t \in Tasks : pc[t] \notin InWrite) =>
        \A t \in Tasks : cat[t] ~> (~cat[t] \/ mod # "loaded")
=============================================================================
