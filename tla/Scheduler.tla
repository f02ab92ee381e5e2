------------------------------ MODULE Scheduler ------------------------------
(***************************************************************************)
(* The CPU scheduling simulator of assignment 2 (scheduler.c).             *)
(*                                                                         *)
(* One sequential program: it reads N jobs, then for each of the three     *)
(* scheduling algorithms enters a loop that simulates one CPU cycle per    *)
(* iteration.  All three loops work on the same process_list, the same     *)
(* queues and the same counters.  An iteration has four steps, and every   *)
(* pass of a `for' loop over process_list is one action here, so that the  *)
(* order in which processes are visited is that of the code.               *)
(*                                                                         *)
(* The loop bodies of the three algorithms differ in a few lines only; the *)
(* actions below are shared and name the algorithm where it matters.       *)
(* CPUBurst and currentBurst are left out: they are written (lines 335,    *)
(* 380, 429, 430) and no branch of the program reads them.                 *)
(***************************************************************************)
EXTENDS Integers, Sequences, FiniteSets, SequencesExt

CONSTANTS N,             (* total_num_of_process; process_list holds 3     *)
          Word,          (* uint32_t arithmetic is modulo Word             *)
          ArrivalTimes,  (* the values of A a job may have                 *)
          BurstBounds,   (* the values of B a job may have                 *)
          CpuTimes       (* the values of C a job may have                 *)

\* The input: every field is an unsigned word.  B = 0 never reaches the loops:
\* randomOS divides by it while the input is still being parsed (line 82).
ASSUME InputAssumption ==
    /\ N \in Nat
    /\ Word \in Nat /\ Word > 2
    /\ ArrivalTimes \subseteq 0 .. Word - 1
    /\ BurstBounds  \subseteq 1 .. Word - 1
    /\ CpuTimes     \subseteq 0 .. Word - 1

Procs == 0 .. N - 1

\* A NULL _process pointer.
Null == -1

\* scheduling_algorithm: the cases of the switch, in the order they run.
FCFS == 0
SJF  == 1
RR   == 2

Statuses == {"unstarted", "ready", "running", "blocked", "terminated"}

VARIABLES
    job,             \* A, B and C of each process, fixed once parsed
    status,          \* status of each process
    finishingTime,   \* finishingTime, an int32_t that starts at -1
    cpuRun,          \* currentCPUTimeRun
    ioTime,          \* currentIOBlockedTime
    waitTime,        \* currentWaitingTime
    ioBurst,         \* IOBurst
    quantum,         \* quantum, an int32_t that starts at -1
    readyQueue,      \* readyQueueHead
    blockedQueue,    \* blockedQueueHead
    runningProcess,  \* runningProcess, or Null
    cycle,           \* current_cycle
    finished,        \* total_finished_processes
    blockedCycles,   \* TOTAL_NUMBER_OF_CYCLES_SPENT_BLOCKED
    algorithm,       \* scheduling_algorithm; 3 once the for loop has ended
    printed,         \* what each algorithm's report printed, oldest first
    pc,              \* where the program is
    i                \* index of the for loop that is running

jobState == <<status, finishingTime, cpuRun, ioTime, waitTime, ioBurst, quantum>>
queues   == <<readyQueue, blockedQueue, runningProcess>>
\* What printProcessSpecifics and printSummaryData read.
figures  == [finishingTime |-> finishingTime, cpuRun |-> cpuRun, ioTime |-> ioTime,
             waitTime |-> waitTime, cycle |-> cycle, blockedCycles |-> blockedCycles]
vars     == <<job, jobState, queues, cycle, finished, blockedCycles, algorithm, printed,
              pc, i>>

-----------------------------------------------------------------------------
(* Unsigned and signed 32-bit arithmetic. *)

\* Fault: the counters are plain signed integers.
DecSigned(x) == x - 1

Inc(x) == IF x = Word - 1 THEN 0 ELSE x + 1
Dec(x) == IF x = 0 THEN Word - 1 ELSE x - 1

\* The value an int32_t has after a uint32_t is stored in it.
ToSigned(x) == IF x >= Word \div 2 THEN x - Word ELSE x

-----------------------------------------------------------------------------
(* The queues: enqueue at the rear, dequeue at the front. *)

\* Fault: the new node becomes the front.
EnqueueAtFront(q, p) == <<p>> \o q

Enqueue(q, p) == Append(q, p)

\* Fault: the front is read and left in the queue.
Peek(q) == q

\* dequeue returns NULL, and changes nothing, when the queue is empty.
FrontOf(q) == IF q = <<>> THEN Null ELSE Head(q)
Dequeue(q) == IF q = <<>> THEN q ELSE Tail(q)

\* sortQueue: bubble sort with a strict comparison of B, so equal keys keep
\* their order; written as the insertion of each element after its equals.
SortQueue(q) ==
    LET Insert(s, p) ==
          SelectSeq(s, LAMBDA x : job[x].B <= job[p].B) \o <<p>>
            \o SelectSeq(s, LAMBDA x : job[x].B > job[p].B)
    IN  FoldLeft(Insert, <<>>, q)

-----------------------------------------------------------------------------
Init ==
    /\ job \in [Procs -> [A : ArrivalTimes, B : BurstBounds, C : CpuTimes]]
    /\ status = [p \in Procs |-> "unstarted"]
    /\ finishingTime = [p \in Procs |-> -1]
    /\ cpuRun   = [p \in Procs |-> 0]
    /\ ioTime   = [p \in Procs |-> 0]
    /\ waitTime = [p \in Procs |-> 0]
    /\ ioBurst  = [p \in Procs |-> 0]
    /\ quantum  = [p \in Procs |-> -1]
    /\ readyQueue = <<>>
    /\ blockedQueue = <<>>
    /\ runningProcess = Null
    /\ cycle = 0
    /\ finished = 0
    /\ blockedCycles = 0
    /\ algorithm = FCFS
    /\ printed = <<>>
    /\ pc = "loop"
    /\ i = 0

\* Fault: the loop asks for one process too many.
OneMoreToDo == finished <= N

\* The condition of the three while loops.
MoreToDo == finished < N

\* while (total_finished_processes < total_num_of_process) { ...
BeginCycle ==
    /\ pc = "loop"
    /\ algorithm <= RR
    /\ MoreToDo
    /\ pc' = "arrivals"
    /\ i' = 0
    /\ UNCHANGED <<job, jobState, queues, cycle, finished, blockedCycles, algorithm,
                   printed>>

\* Step 1, one process: it becomes ready in the cycle equal to its A.
Arrive ==
    /\ pc = "arrivals"
    /\ i < N
    /\ IF job[i].A = cycle /\ status[i] = "unstarted"
         THEN /\ status' = [status EXCEPT ![i] = "ready"]
              /\ readyQueue' = Enqueue(readyQueue, i)
         ELSE UNCHANGED <<status, readyQueue>>
    /\ i' = i + 1
    /\ UNCHANGED <<job, finishingTime, cpuRun, ioTime, waitTime, ioBurst, quantum,
                   blockedQueue, runningProcess, cycle, finished, blockedCycles,
                   algorithm, printed, pc>>

\* Step 2: with no running process, the front of the ready queue runs.  SJF
\* sorts the queue first; RR hands out a fresh quantum.
Dispatch ==
    LET q == IF algorithm = SJF THEN SortQueue(readyQueue) ELSE readyQueue
        p == FrontOf(q)
    IN  /\ pc = "arrivals"
        /\ i = N
        /\ IF runningProcess = Null /\ p # Null
             THEN /\ runningProcess' = p
                  /\ readyQueue' = Dequeue(q)
                  /\ status' = [status EXCEPT ![p] = "running"]
                  /\ quantum' = IF algorithm = RR
                                  THEN [quantum EXCEPT ![p] = 2]
                                  ELSE quantum
             ELSE /\ readyQueue' = q
                  /\ UNCHANGED <<runningProcess, status, quantum>>
        /\ pc' = "run"
        /\ UNCHANGED <<job, finishingTime, cpuRun, ioTime, waitTime, ioBurst,
                       blockedQueue, cycle, finished, blockedCycles, algorithm,
                       printed, i>>

(* Step 3: what the running process does with this cycle. *)

\* No process is running.
Idle ==
    /\ pc = "run"
    /\ runningProcess = Null
    /\ pc' = "updates"
    /\ i' = 0
    /\ UNCHANGED <<job, jobState, queues, cycle, finished, blockedCycles, algorithm,
                   printed>>

\* currentCPUTimeRun++ (and, under RR, quantum--), common to the three outcomes.
UseCpu(p) ==
    /\ pc = "run"
    /\ runningProcess = p
    /\ cpuRun' = [cpuRun EXCEPT ![p] = Inc(@)]
    /\ quantum' = IF algorithm = RR THEN [quantum EXCEPT ![p] = @ - 1] ELSE quantum
    /\ pc' = "updates"
    /\ i' = 0
    /\ UNCHANGED <<job, ioTime, ioBurst, algorithm, printed>>

\* The process has run for C cycles.  FCFS computes the finishing time from the
\* other counters, after taking one off the waiting time; SJF and RR take it
\* from the clock, and RR advances the clock a second time.
FcfsFinishingTime(p, waited) ==
    ToSigned((job[p].C + ioTime[p] + waited) % Word)

\* Fault: `currentWaitingTime--' is forgotten.
FinishKeepsWaiting(p) ==
    /\ UseCpu(p)
    /\ cpuRun'[p] = job[p].C
    /\ status' = [status EXCEPT ![p] = "terminated"]
    /\ finishingTime' = [finishingTime EXCEPT ![p] = FcfsFinishingTime(p, waitTime[p])]
    /\ finished' = finished + 1
    /\ runningProcess' = Null
    /\ UNCHANGED <<waitTime, readyQueue, blockedQueue, cycle, blockedCycles>>

Finish(p) ==
    /\ UseCpu(p)
    /\ cpuRun'[p] = job[p].C
    /\ status' = [status EXCEPT ![p] = "terminated"]
    /\ IF algorithm = FCFS
         THEN /\ waitTime' = [waitTime EXCEPT ![p] = Dec(@)]
              /\ finishingTime' =
                   [finishingTime EXCEPT ![p] = FcfsFinishingTime(p, Dec(waitTime[p]))]
         ELSE /\ finishingTime' = [finishingTime EXCEPT ![p] = ToSigned(Inc(cycle))]
              /\ UNCHANGED waitTime
    /\ cycle' = IF algorithm = RR THEN Inc(cycle) ELSE cycle
    /\ finished' = finished + 1
    /\ runningProcess' = Null
    /\ UNCHANGED <<readyQueue, blockedQueue, blockedCycles>>

\* Fault: the commented out `runningProcess = NULL' of line 408 is restored.
BlockYields(p) ==
    /\ UseCpu(p)
    /\ algorithm # RR
    /\ cpuRun'[p] # job[p].C
    /\ cpuRun'[p] % job[p].B = 0
    /\ status' = [status EXCEPT ![p] = "blocked"]
    /\ waitTime' = [waitTime EXCEPT ![p] = Inc(@)]
    /\ blockedCycles' = Inc(blockedCycles)
    /\ blockedQueue' = Enqueue(blockedQueue, p)
    /\ runningProcess' = Null
    /\ UNCHANGED <<finishingTime, readyQueue, cycle, finished>>

\* Fault: the cycle spent blocked is not added to the waiting time.
BlockUncounted(p) ==
    /\ UseCpu(p)
    /\ algorithm # RR
    /\ cpuRun'[p] # job[p].C
    /\ cpuRun'[p] % job[p].B = 0
    /\ status' = [status EXCEPT ![p] = "blocked"]
    /\ blockedCycles' = Inc(blockedCycles)
    /\ blockedQueue' = Enqueue(blockedQueue, p)
    /\ UNCHANGED <<finishingTime, waitTime, readyQueue, runningProcess, cycle, finished>>

\* FCFS and SJF: a multiple of B cycles has been used.  The process is marked
\* blocked and queued, and stays the running process.  The total counts this
\* passage, not the cycles that follow.
Block(p) ==
    /\ UseCpu(p)
    /\ algorithm # RR
    /\ cpuRun'[p] # job[p].C
    /\ cpuRun'[p] % job[p].B = 0
    /\ status' = [status EXCEPT ![p] = "blocked"]
    /\ waitTime' = [waitTime EXCEPT ![p] = Inc(@)]
    /\ blockedCycles' = Inc(blockedCycles)
    /\ blockedQueue' = Enqueue(blockedQueue, p)
    /\ UNCHANGED <<finishingTime, readyQueue, runningProcess, cycle, finished>>

\* Neither; under RR a used up quantum sends the process back to the ready queue.
Compute(p) ==
    /\ UseCpu(p)
    /\ cpuRun'[p] # job[p].C
    /\ algorithm = RR \/ cpuRun'[p] % job[p].B # 0
    /\ IF algorithm = RR /\ quantum'[p] = 0
         THEN /\ status' = [status EXCEPT ![p] = "ready"]
              /\ readyQueue' = Enqueue(readyQueue, p)
              /\ runningProcess' = Null
         ELSE UNCHANGED <<status, readyQueue, runningProcess>>
    /\ UNCHANGED <<finishingTime, waitTime, blockedQueue, cycle, finished,
                   blockedCycles>>

\* Step 4, one process: a blocked process uses up one cycle of its I/O burst and
\* becomes ready when none is left; a ready process waits one more cycle.
\* Fault: IOBurst-- is tested before it counts down.
IoCompletesLate(p) == status[p] = "blocked" /\ ioBurst[p] = 0

IoCompletes(p) == status[p] = "blocked" /\ Dec(ioBurst[p]) = 0

Update ==
    /\ pc = "updates"
    /\ i < N
    /\ IF status[i] = "blocked"
         THEN /\ ioBurst' = [ioBurst EXCEPT ![i] = Dec(@)]
              /\ ioTime' = [ioTime EXCEPT ![i] = Inc(@)]
         ELSE UNCHANGED <<ioBurst, ioTime>>
    /\ IF IoCompletes(i)
         THEN /\ status' = [status EXCEPT ![i] = "ready"]
              /\ readyQueue' = Enqueue(readyQueue, FrontOf(blockedQueue))
              /\ blockedQueue' = Dequeue(blockedQueue)
         ELSE UNCHANGED <<status, readyQueue, blockedQueue>>
    /\ waitTime' = IF status'[i] = "ready"
                     THEN [waitTime EXCEPT ![i] = Inc(@)]
                     ELSE waitTime
    /\ i' = i + 1
    /\ UNCHANGED <<job, finishingTime, cpuRun, quantum, runningProcess, cycle,
                   finished, blockedCycles, algorithm, printed, pc>>

\* current_cycle++ at the end of the loop body.
EndCycle ==
    /\ pc = "updates"
    /\ i = N
    /\ cycle' = Inc(cycle)
    /\ pc' = "loop"
    /\ UNCHANGED <<job, jobState, queues, finished, blockedCycles, algorithm, printed, i>>

\* Fault: the finished count is reset, as a restart for the next algorithm needs,
\* but the processes are not.
ReportResets ==
    /\ pc = "loop"
    /\ algorithm <= RR
    /\ ~MoreToDo
    /\ printed' = Append(printed, figures)
    /\ blockedCycles' = 0
    /\ algorithm' = algorithm + 1
    /\ finished' = 0
    /\ pc' = IF algorithm = RR THEN "done" ELSE "loop"
    /\ UNCHANGED <<job, jobState, queues, cycle, i>>

\* The loop has ended: print the report, break, and go on to the next algorithm.
\* Nothing but TOTAL_NUMBER_OF_CYCLES_SPENT_BLOCKED is reset.
Report ==
    /\ pc = "loop"
    /\ algorithm <= RR
    /\ ~MoreToDo
    /\ printed' = Append(printed, figures)
    /\ blockedCycles' = 0
    /\ algorithm' = algorithm + 1
    /\ pc' = IF algorithm = RR THEN "done" ELSE "loop"
    /\ UNCHANGED <<job, jobState, queues, cycle, finished, i>>

Next ==
    \/ BeginCycle
    \/ Arrive
    \/ Dispatch
    \/ Idle
    \/ \E p \in Procs : Finish(p)
    \/ \E p \in Procs : Block(p)
    \/ \E p \in Procs : Compute(p)
    \/ Update
    \/ EndCycle
    \/ Report

Spec == Init /\ [][Next]_vars

\* One sequential program that nothing preempts for ever.
FairSpec == Spec /\ WF_vars(Next)

-----------------------------------------------------------------------------
(* Properties. *)

TypeOK ==
    /\ job \in [Procs -> [A : ArrivalTimes, B : BurstBounds, C : CpuTimes]]
    /\ status \in [Procs -> Statuses]
    /\ finishingTime \in [Procs -> Int]
    /\ cpuRun \in [Procs -> 0 .. Word - 1]
    /\ ioTime \in [Procs -> 0 .. Word - 1]
    /\ waitTime \in [Procs -> 0 .. Word - 1]
    /\ ioBurst \in [Procs -> 0 .. Word - 1]
    /\ quantum \in [Procs -> Int]
    /\ readyQueue \in Seq(Procs)
    /\ blockedQueue \in Seq(Procs)
    /\ runningProcess \in Procs \cup {Null}
    /\ cycle \in 0 .. Word - 1
    /\ finished \in Nat
    /\ blockedCycles \in 0 .. Word - 1
    /\ algorithm \in 0 .. 3
    /\ pc \in {"loop", "arrivals", "run", "updates", "done"}
    /\ i \in 0 .. N

\* The ready queue holds exactly the processes whose status says ready, each
\* once: status and queue are written by different statements (lines 366-367,
\* 377-381, 419-422) and nothing in the program compares them.
QueueMatchesStatus ==
    /\ {readyQueue[k] : k \in DOMAIN readyQueue} = {p \in Procs : status[p] = "ready"}
    /\ \A k, l \in DOMAIN readyQueue : readyQueue[k] = readyQueue[l] => k = l

\* A process that runs or is blocked is the one runningProcess points to: the
\* dereference at line 429 never meets NULL, and a process is not executed
\* twice in a cycle.
SoleRunner ==
    \A p \in Procs : (status[p] \in {"running", "blocked"}) <=> (runningProcess = p)

\* The status of a process, the ready queue and runningProcess agree about where it
\* is; they are written by different statements of different steps.
PlacesAgree == QueueMatchesStatus /\ SoleRunner

\* The order of arrival; processes that arrive together are queued by index.
ArrivesBefore(p, q) ==
    \/ job[p].A < job[q].A
    \/ job[p].A = job[q].A /\ p < q

\* First come, first served: a process is started only when every process that
\* arrived before it has terminated.
FcfsOrder ==
    \A p, q \in Procs :
        ArrivesBefore(p, q) /\ status[q] \in {"running", "blocked", "terminated"}
            => status[p] = "terminated"

\* The CPU is left idle only when no process can use it: those that have not
\* terminated have not arrived.  A process dropped from the queues (line 422
\* moves one queue's front for another process's sake) would break this.
IdleOnlyBeforeArrivals ==
    pc = "run" /\ runningProcess = Null
        => \A p \in Procs : status[p] \in {"unstarted", "terminated"}

\* The counters of an unfinished process account for every cycle since its
\* arrival: a ready process has only waited; a started one has waited or
\* computed, except that each passage through line 403 adds a cycle of waiting
\* that never took place.  Modulo Word, as the counters are.
TimeAccounting ==
    pc = "loop" =>
        \A p \in Procs :
            /\ status[p] = "ready" =>
                  (job[p].A + waitTime[p]) % Word = cycle
            /\ status[p] \in {"running", "blocked"} =>
                  (job[p].A + waitTime[p] + cpuRun[p] - cpuRun[p] \div job[p].B) % Word
                      = cycle

\* A process that finishes gets the clock as its finishing time, but less its arrival
\* time (line 394 adds up the time since then), plus a cycle for every cycle spent
\* blocked, which is a cycle of computing as well, plus one for each of its bursts
\* (line 403): the decrement of line 393 keeps the sum right, wrapped or not, for a
\* process that has never waited too.
FinishingTimes ==
    [][\A p \in Procs :
          status[p] # "terminated" /\ status'[p] = "terminated" =>
              finishingTime'[p] =
                  ToSigned((cycle - job[p].A + ioTime[p] + Dec(job[p].C) \div job[p].B)
                               % Word)]_vars

\* The SJF and RR reports repeat the FCFS figures, because total_finished_processes
\* is not reset between the algorithms (line 349) and their loops do not run, but for
\* the I/O utilisation: TOTAL_NUMBER_OF_CYCLES_SPENT_BLOCKED is reset after every
\* report and is 0 in theirs.
ReportsRepeat ==
    \A k \in DOMAIN printed :
        printed[k] = [figures EXCEPT
                         !.blockedCycles = IF k = 1 THEN printed[1].blockedCycles ELSE 0]

\* Once started, a process is never put back in the ready queue, whatever the
\* algorithm: IOBurst counts down from 0 and wraps (line 415), so line 418 is
\* never true, and a blocked process keeps the CPU to its end.
RunToCompletion ==
    [][\A p \in Procs :
          status[p] \in {"running", "blocked"}
              => status'[p] \in {"running", "blocked", "terminated"}]_vars

\* The simulation ends, for every input, including C = 0 and counters that wrap.
Terminates == <>(pc = "done")

\* Two equal jobs of one-cycle bursts take the CPU in turn, as the sample input
\* sample_io/input/input-2 says they should under FCFS.
Alternates ==
    \A p, q \in Procs :
        job[p] = job[q] /\ job[p].B = 1 => cpuRun[p] - cpuRun[q] \in -1 .. 1
=============================================================================
