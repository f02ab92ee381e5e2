--------------------------- MODULE SchedulerProofs ---------------------------
(***************************************************************************)
(* Theorems about Scheduler, for every number of jobs, every input and     *)
(* every word size.  All of them follow from one inductive invariant,      *)
(* IInv, whose parts are named for what they say; the accounting of time   *)
(* needs a second one, Counters, on top of it.                             *)
(***************************************************************************)
EXTENDS Scheduler, TLAPS

Started(p) == status[p] # "unstarted"
OnCpu(p)   == status[p] \in {"running", "blocked"}

\* The loops of SJF and RR are never entered: by then every job is finished.
OnlyFcfs ==
    algorithm # FCFS => ~MoreToDo /\ pc \in {"loop", "done"}

\* What a report can print with the counters as they are: whatever is in them, and
\* any total.
Reports == {[figures EXCEPT !.blockedCycles = n] : n \in 0 .. Word - 1}

\* The first report ends FCFS and resets the total.
Reporting ==
    /\ printed \in Seq(Reports)
    /\ ReportsRepeat
    /\ algorithm = FCFS => printed = <<>>
    /\ algorithm # FCFS => blockedCycles = 0

\* No unfinished job has counted past its C.  With C = 0 the counter has to wrap
\* to reach it.
CpuBound ==
    \A p \in Procs : status[p] # "terminated" => job[p].C = 0 \/ cpuRun[p] < job[p].C

\* IOBurst runs down from 0, so it is the two's complement of the time blocked.
IoCountdown ==
    \A p \in Procs : ioBurst[p] = IF ioTime[p] = 0 THEN 0 ELSE Word - ioTime[p]

\* A process blocks only after computing and computes in every cycle in which it
\* is blocked, so its I/O time stays behind its CPU time and IOBurst behind the
\* wrap to 0.
IoBehindCpu ==
    \A p \in Procs :
        /\ status[p] \in {"unstarted", "ready", "running"} => ioTime[p] = 0
        /\ status[p] = "blocked" => ioTime[p] <= cpuRun[p]
        /\ status[p] = "blocked" /\ pc = "updates" /\ i <= p => ioTime[p] < cpuRun[p]

\* Which arrival times a process that has not arrived can still have.
Arrivals ==
    \A p \in Procs : status[p] = "unstarted" =>
        \/ job[p].A > cycle
        \/ job[p].A = cycle /\ pc \in {"loop", "done"}
        \/ job[p].A = cycle /\ pc = "arrivals" /\ i <= p

\* The order of arrival: of the queue, and between those in and those to come.
ArrivalOrder ==
    /\ \A p, q \in Procs : Started(p) /\ ~Started(q) => ArrivesBefore(p, q)
    /\ \A k, l \in DOMAIN readyQueue :
          k < l => ArrivesBefore(readyQueue[k], readyQueue[l])

\* Step 2 leaves the CPU idle only with an empty ready queue.
EmptyWhenIdle == pc = "run" /\ runningProcess = Null => readyQueue = <<>>

IInv ==
    /\ TypeOK
    /\ OnlyFcfs
    /\ Reporting
    /\ CpuBound
    /\ IoCountdown
    /\ IoBehindCpu
    /\ QueueMatchesStatus
    /\ SoleRunner
    /\ Arrivals
    /\ ArrivalOrder
    /\ FcfsOrder
    /\ EmptyWhenIdle

-----------------------------------------------------------------------------
(* Facts about the words of the program. *)

\* Counting up and down stays within a word, and Dec undoes Inc.
LEMMA WordArithmetic ==
    ASSUME NEW x \in 0 .. Word - 1
    PROVE  /\ Inc(x) \in 0 .. Word - 1
           /\ Dec(x) \in 0 .. Word - 1
           /\ x < Word - 1 => Inc(x) = x + 1
           /\ x > 0 => Dec(x) = x - 1
  BY InputAssumption DEF Inc, Dec

\* Inputs are words, and a burst bound is positive.
LEMMA JobType ==
    ASSUME TypeOK, NEW p \in Procs
    PROVE  /\ job[p].A \in 0 .. Word - 1
           /\ job[p].B \in 1 .. Word - 1
           /\ job[p].C \in 0 .. Word - 1
  BY InputAssumption DEF TypeOK

\* A finishing time is an integer, whatever the counters it is computed from.
LEMMA FinishingTimeType ==
    ASSUME TypeOK, NEW p \in Procs, NEW w \in 0 .. Word - 1
    PROVE  FcfsFinishingTime(p, w) \in Int
<1> DEFINE sum == job[p].C + ioTime[p] + w
<1>1. job[p].C \in Int /\ ioTime[p] \in Int
  BY JobType, InputAssumption DEF TypeOK
<1>2. sum \in Int /\ sum % Word \in Int
  BY <1>1, InputAssumption
<1>3. QED
  BY <1>2, InputAssumption DEF FcfsFinishingTime, ToSigned

\* Quotient and remainder.
LEMMA Division ==
    ASSUME NEW n \in Int, NEW w \in Nat, w > 0
    PROVE  /\ n \div w \in Int /\ n % w \in 0 .. w - 1
           /\ n = w * (n \div w) + (n % w)
  BY SMT

\* They are the only ones.
LEMMA DivisionUnique ==
    ASSUME NEW n \in Int, NEW w \in Nat, w > 0, NEW q \in Int, NEW r \in 0 .. w - 1,
           n = w * q + r
    PROVE  n \div w = q /\ n % w = r
<1> DEFINE p == n \div w
           s == n % w
<1>1. p \in Int /\ s \in 0 .. w - 1 /\ w * q + r = w * p + s
  BY Division
<1> HIDE DEF p, s
<1>2. q = p /\ r = s
  BY <1>1, SMT
<1>3. QED
  BY <1>2 DEF p, s

\* Counting up carries where the remainder is at its largest.
LEMMA DivisionOfSuccessor ==
    ASSUME NEW n \in Int, NEW w \in Nat, w > 0
    PROVE  /\ (n + 1) % w = IF n % w = w - 1 THEN 0 ELSE (n % w) + 1
           /\ (n + 1) \div w = IF n % w = w - 1 THEN (n \div w) + 1 ELSE n \div w
<1> DEFINE q == n \div w
           r == n % w
<1>1. q \in Int /\ r \in 0 .. w - 1 /\ n = w * q + r
  BY Division
<1> HIDE DEF q, r
<1>2. CASE r = w - 1
  <2>1. n + 1 = w * (q + 1) + 0 /\ q + 1 \in Int /\ 0 \in 0 .. w - 1
    BY <1>1, <1>2, SMT
  <2>2. (n + 1) \div w = q + 1 /\ (n + 1) % w = 0
    BY <2>1, <1>1, DivisionUnique
  <2>3. QED
    BY <2>2, <1>2 DEF q, r
<1>3. CASE r # w - 1
  <2>1. n + 1 = w * q + (r + 1) /\ r + 1 \in 0 .. w - 1
    BY <1>1, <1>3, SMT
  <2>2. (n + 1) \div w = q /\ (n + 1) % w = r + 1
    BY <2>1, <1>1, DivisionUnique
  <2>3. QED
    BY <2>2, <1>3 DEF q, r
<1>4. QED
  BY <1>2, <1>3

\* A word is its own remainder, and adding to a sum modulo Word may as well be
\* adding to one of its words: counters may wrap where the sum does not.
LEMMA WordSums ==
    ASSUME NEW m \in Int, NEW x \in 0 .. Word - 1
    PROVE  /\ x % Word = x
           /\ (m + 1) % Word = Inc(m % Word)
           /\ (m + Inc(x)) % Word = Inc((m + x) % Word)
<1>0. Word \in Nat /\ Word > 0 /\ x \in Int
  BY InputAssumption
<1>1. x % Word = x
  <2>1. x = Word * 0 + x
    BY <1>0, SMT
  <2>2. QED
    BY <2>1, <1>0, DivisionUnique
<1>2. \A k \in Int : (k + 1) % Word = Inc(k % Word)
  BY <1>0, DivisionOfSuccessor DEF Inc
<1>3. CASE x # Word - 1
  <2>1. Inc(x) = x + 1 /\ m + x \in Int /\ m + (x + 1) = (m + x) + 1
    BY <1>0, <1>3 DEF Inc
  <2>2. QED
    BY <1>1, <1>2, <2>1
<1>4. CASE x = Word - 1
  <2> DEFINE q == m \div Word
             r == m % Word
  <2>1. q \in Int /\ r \in 0 .. Word - 1 /\ m = Word * q + r
    BY <1>0, Division
  <2> HIDE DEF q, r
  <2>2. (m + x) + 1 = Word * (q + 1) + r /\ q + 1 \in Int /\ m + x \in Int
    BY <1>0, <1>4, <2>1, SMT
  <2>3. ((m + x) + 1) % Word = r
    BY <1>0, <2>1, <2>2, DivisionUnique
  <2>4. m + Inc(x) = m
    BY <1>4 DEF Inc
  <2>5. QED
    BY <1>1, <1>2, <2>2, <2>3, <2>4 DEF r
<1>5. QED
  BY <1>3, <1>4

-----------------------------------------------------------------------------
(* The invariant holds initially, and every action preserves it. *)

\* The initial states satisfy the invariant.
LEMMA InitIInv == Init => IInv
<1> SUFFICES ASSUME Init PROVE IInv
  OBVIOUS
<1>1. TypeOK
  BY InputAssumption DEF Init, TypeOK, Procs, Statuses, Null, FCFS
<1>2. OnlyFcfs /\ Reporting /\ EmptyWhenIdle
  BY DEF Init, OnlyFcfs, Reporting, ReportsRepeat, EmptyWhenIdle, FCFS
<1>3. CpuBound /\ IoCountdown /\ IoBehindCpu
  BY <1>1, JobType, InputAssumption DEF Init, CpuBound, IoCountdown, IoBehindCpu
<1>4. QueueMatchesStatus /\ SoleRunner
  BY DEF Init, QueueMatchesStatus, SoleRunner, Null, Procs
<1>5. Arrivals /\ ArrivalOrder /\ FcfsOrder
  BY <1>1, JobType, InputAssumption
     DEF Init, Arrivals, ArrivalOrder, FcfsOrder, Started
<1>6. QED
  BY <1>1, <1>2, <1>3, <1>4, <1>5 DEF IInv

\* Steps that leave processes and queues as they are.
LEMMA BeginCycleIInv == IInv /\ BeginCycle => IInv'
<1> SUFFICES ASSUME IInv, BeginCycle PROVE IInv'
  OBVIOUS
<1> USE DEF IInv, BeginCycle, jobState, queues
<1>0. TypeOK'
  BY InputAssumption DEF TypeOK
<1>1. SoleRunner' /\ QueueMatchesStatus' /\ FcfsOrder'
  BY DEF SoleRunner, QueueMatchesStatus, FcfsOrder, ArrivesBefore
<1>2. OnlyFcfs' /\ Reporting' /\ EmptyWhenIdle'
  BY DEF OnlyFcfs, Reporting, ReportsRepeat, EmptyWhenIdle, MoreToDo
<1>3. CpuBound' /\ IoCountdown' /\ IoBehindCpu'
  BY DEF CpuBound, IoCountdown, IoBehindCpu
<1>4. Arrivals' /\ ArrivalOrder'
  BY DEF Arrivals, ArrivalOrder, Started, ArrivesBefore, Procs, TypeOK
<1>5. QED
  BY <1>0, <1>1, <1>2, <1>3, <1>4

\* A cycle without a running process changes nothing but the program counter.
LEMMA IdleIInv == IInv /\ Idle => IInv'
<1> SUFFICES ASSUME IInv, Idle PROVE IInv'
  OBVIOUS
<1> USE DEF IInv, Idle, jobState, queues
<1>0. TypeOK'
  BY InputAssumption DEF TypeOK
<1>1. SoleRunner' /\ QueueMatchesStatus' /\ FcfsOrder'
  BY DEF SoleRunner, QueueMatchesStatus, FcfsOrder, ArrivesBefore
<1>2. OnlyFcfs' /\ Reporting' /\ EmptyWhenIdle'
  BY DEF OnlyFcfs, Reporting, ReportsRepeat, EmptyWhenIdle, MoreToDo
<1>3. CpuBound' /\ IoCountdown'
  BY DEF CpuBound, IoCountdown
<1>4. IoBehindCpu'
  BY DEF IoBehindCpu, SoleRunner, TypeOK, Null, Procs
<1>5. Arrivals' /\ ArrivalOrder'
  BY DEF Arrivals, ArrivalOrder, Started, ArrivesBefore
<1>6. QED
  BY <1>0, <1>1, <1>2, <1>3, <1>4, <1>5

\* The clock moves on.  When it wraps, no arrival is left to come.
LEMMA EndCycleIInv == IInv /\ EndCycle => IInv'
<1> SUFFICES ASSUME IInv, EndCycle PROVE IInv'
  OBVIOUS
<1> USE DEF IInv, EndCycle, jobState, queues
<1>1. cycle' \in 0 .. Word - 1
  BY WordArithmetic DEF TypeOK
<1>0. TypeOK'
  BY <1>1, InputAssumption DEF TypeOK
<1>2. SoleRunner' /\ QueueMatchesStatus' /\ FcfsOrder'
  BY DEF SoleRunner, QueueMatchesStatus, FcfsOrder, ArrivesBefore
<1>3. OnlyFcfs' /\ EmptyWhenIdle'
  BY DEF OnlyFcfs, EmptyWhenIdle, MoreToDo
<1>4. Reporting'
  BY DEF Reporting, ReportsRepeat, OnlyFcfs, TypeOK
<1>5. CpuBound' /\ IoCountdown' /\ IoBehindCpu'
  BY DEF CpuBound, IoCountdown, IoBehindCpu
<1>6. Arrivals'
  <2> SUFFICES ASSUME NEW p \in Procs, status[p] = "unstarted"
               PROVE  job[p].A > cycle' \/ job[p].A = cycle'
    BY DEF Arrivals
  <2>1. job[p].A > cycle
    BY DEF Arrivals
  <2>2. job[p].A \in 0 .. Word - 1
    BY JobType
  <2>3. QED
    BY <2>1, <2>2, InputAssumption DEF TypeOK, Inc
<1>7. ArrivalOrder'
  BY DEF ArrivalOrder, Started, ArrivesBefore
<1>8. QED
  BY <1>0, <1>2, <1>3, <1>4, <1>5, <1>6, <1>7

\* A report adds one more copy of the figures and leaves them alone, the total apart.
LEMMA ReportIInv == IInv /\ Report => IInv'
<1> SUFFICES ASSUME IInv, Report PROVE IInv'
  OBVIOUS
<1> USE DEF IInv, Report, jobState, queues
<1>0. TypeOK'
  BY InputAssumption DEF TypeOK, RR
<1>1. SoleRunner' /\ QueueMatchesStatus' /\ FcfsOrder'
  BY DEF SoleRunner, QueueMatchesStatus, FcfsOrder, ArrivesBefore
<1>2. OnlyFcfs' /\ EmptyWhenIdle'
  BY DEF OnlyFcfs, EmptyWhenIdle, MoreToDo
<1>3. Reporting'
  <2>1. figures' = [figures EXCEPT !.blockedCycles = 0]
    BY DEF figures
  <2>2. Reports' = Reports
    BY <2>1 DEF Reports, figures
  <2>3. figures \in Reports /\ printed \in Seq(Reports)
    BY DEF Reporting, Reports, figures, TypeOK
  <2>4. printed' \in Seq(Reports)'
    BY <2>2, <2>3
  <2>5. ReportsRepeat'
    <3>1. printed # <<>> => figures.blockedCycles = 0
      BY DEF Reporting, figures
    <3>2. ASSUME NEW k \in DOMAIN printed' PROVE
             printed'[k] = [figures EXCEPT !.blockedCycles =
                               IF k = 1 THEN printed'[1].blockedCycles ELSE 0]
      <4>1. CASE k \in DOMAIN printed
        <5>1. printed'[k] = printed[k] /\ printed'[1] = printed[1]
          BY <2>3, <4>1
        <5>2. QED
          BY <4>1, <5>1 DEF Reporting, ReportsRepeat
      <4>2. CASE k \notin DOMAIN printed
        <5>1. printed'[k] = figures /\ (k # 1 => printed # <<>>)
          BY <2>3, <3>2, <4>2
        <5>2. QED
          BY <3>1, <5>1 DEF figures
      <4>3. QED
        BY <4>1, <4>2
    <3>3. \A n : [figures' EXCEPT !.blockedCycles = n] = [figures EXCEPT !.blockedCycles = n]
      BY <2>1 DEF figures
    <3>4. QED
      BY <3>2, <3>3 DEF ReportsRepeat
  <2>6. algorithm' # FCFS
    BY DEF TypeOK, FCFS
  <2>7. QED
    BY <2>4, <2>5, <2>6 DEF Reporting
<1>4. CpuBound' /\ IoCountdown' /\ IoBehindCpu'
  BY DEF CpuBound, IoCountdown, IoBehindCpu
<1>5. Arrivals' /\ ArrivalOrder'
  BY DEF Arrivals, ArrivalOrder, Started, ArrivesBefore
<1>6. QED
  BY <1>0, <1>1, <1>2, <1>3, <1>4, <1>5

\* Step 1.  The arriving process joins behind all that came before it, which is
\* where the order of arrival of the queue comes from.
LEMMA ArriveIInv == IInv /\ Arrive => IInv'
<1> SUFFICES ASSUME IInv, Arrive PROVE IInv'
  OBVIOUS
<1> USE DEF IInv
<1>0. /\ i \in Procs /\ pc = "arrivals" /\ i' = i + 1 /\ pc' = pc
      /\ UNCHANGED <<job, finishingTime, cpuRun, ioTime, waitTime, ioBurst, quantum,
                     blockedQueue, runningProcess, cycle, finished, blockedCycles,
                     algorithm, printed>>
  BY InputAssumption DEF Arrive, TypeOK, Procs
<1>6. i' \in 0 .. N
  BY <1>0, InputAssumption DEF Procs
<1>1. algorithm = FCFS
  BY <1>0 DEF OnlyFcfs
<1>2. Reporting' /\ OnlyFcfs' /\ EmptyWhenIdle'
  BY <1>0, <1>1 DEF Reporting, ReportsRepeat, OnlyFcfs, EmptyWhenIdle
<1>3. CASE ~(job[i].A = cycle /\ status[i] = "unstarted")
  <2>1. UNCHANGED <<status, readyQueue>>
    BY <1>3 DEF Arrive
  <2>2. TypeOK'
    BY <1>0, <1>6, <2>1 DEF TypeOK
  <2>3. CpuBound' /\ IoCountdown' /\ IoBehindCpu'
    BY <1>0, <2>1 DEF CpuBound, IoCountdown, IoBehindCpu
  <2>4. SoleRunner' /\ QueueMatchesStatus' /\ FcfsOrder' /\ ArrivalOrder'
    BY <1>0, <2>1 DEF SoleRunner, QueueMatchesStatus, FcfsOrder, ArrivesBefore,
                      ArrivalOrder, Started
  <2>5. Arrivals'
    BY <1>0, <1>3, <2>1, InputAssumption DEF Arrivals, Procs
  <2>6. QED
    BY <1>2, <2>2, <2>3, <2>4, <2>5
<1>4. CASE job[i].A = cycle /\ status[i] = "unstarted"
  <2>1. status' = [status EXCEPT ![i] = "ready"] /\ readyQueue' = Append(readyQueue, i)
    BY <1>4 DEF Arrive, Enqueue
  <2> USE <1>0, <1>4, <2>1
  <2>2. TypeOK'
    <3>1. status' \in [Procs -> Statuses]
      BY DEF TypeOK, Statuses
    <3>2. readyQueue' \in Seq(Procs)
      BY DEF TypeOK
    <3>3. QED
      BY <1>6, <3>1, <3>2 DEF TypeOK
  <2>3. CpuBound' /\ IoCountdown' /\ IoBehindCpu'
    BY DEF CpuBound, IoCountdown, IoBehindCpu, TypeOK
  <2>10. SoleRunner' /\ FcfsOrder'
    BY DEF SoleRunner, FcfsOrder, ArrivesBefore, TypeOK
  <2>4. /\ Len(readyQueue') = Len(readyQueue) + 1
        /\ \A k \in DOMAIN readyQueue' :
              readyQueue'[k] = IF k \in DOMAIN readyQueue THEN readyQueue[k] ELSE i
        /\ DOMAIN readyQueue' = 1 .. Len(readyQueue) + 1
        /\ DOMAIN readyQueue = 1 .. Len(readyQueue)
        /\ Len(readyQueue) \in Nat
    BY DEF TypeOK
  <2>5. \A k \in DOMAIN readyQueue : status[readyQueue[k]] = "ready"
    BY DEF QueueMatchesStatus
  <2>6. QueueMatchesStatus'
    BY <2>4, <2>5 DEF QueueMatchesStatus, TypeOK
  <2>7. Arrivals'
    BY InputAssumption DEF Arrivals, Procs, TypeOK
  <2>8. ArrivalOrder'
    <3>1. ASSUME NEW q \in Procs, status[q] = "unstarted", q # i
          PROVE  ArrivesBefore(i, q)
      <4>1. job[q].A > cycle \/ (job[q].A = cycle /\ i <= q)
        BY <3>1 DEF Arrivals
      <4>2. job[q].A \in Int
        BY JobType, InputAssumption
      <4>3. i \in Int /\ q \in Int
        BY DEF Procs
      <4>4. QED
        BY <3>1, <4>1, <4>2, <4>3 DEF ArrivesBefore
    <3>2. ASSUME NEW p \in Procs, NEW q \in Procs, Started(p)', ~Started(q)'
          PROVE  ArrivesBefore(p, q)
      <4>1. status[q] = "unstarted" /\ q # i
        BY <3>2 DEF Started, TypeOK
      <4>2. p # i => Started(p)
        BY <3>2 DEF Started, TypeOK
      <4>3. QED
        BY <3>1, <4>1, <4>2 DEF ArrivalOrder, Started
    <3>4. \A k \in DOMAIN readyQueue : ArrivesBefore(readyQueue[k], i)
      <4>1. \A k \in DOMAIN readyQueue : readyQueue[k] \in Procs
        BY DEF TypeOK
      <4>2. QED
        BY <2>5, <4>1 DEF ArrivalOrder, Started
    <3>3. QED
      BY <2>4, <3>2, <3>4 DEF ArrivalOrder, ArrivesBefore
  <2>9. QED
    BY <1>2, <2>2, <2>3, <2>10, <2>6, <2>7, <2>8
<1>5. QED
  BY <1>3, <1>4

\* Step 2.  The process at the front is the earliest of those that have not been
\* started, and with no process running the earlier ones have all terminated.
LEMMA DispatchIInv == IInv /\ Dispatch => IInv'
<1> SUFFICES ASSUME IInv, Dispatch PROVE IInv'
  OBVIOUS
<1> USE DEF IInv
<1>0. /\ pc = "arrivals" /\ i = N /\ i' = i /\ pc' = "run"
      /\ UNCHANGED <<job, finishingTime, cpuRun, ioTime, waitTime, ioBurst,
                     blockedQueue, cycle, finished, blockedCycles,
                     algorithm, printed>>
  BY DEF Dispatch
<1>1. algorithm = FCFS
  BY <1>0 DEF OnlyFcfs
<1>2. Reporting' /\ OnlyFcfs'
  BY <1>0, <1>1 DEF Reporting, ReportsRepeat, OnlyFcfs
<1>3. CASE runningProcess = Null /\ readyQueue # <<>>
  <2> DEFINE p == Head(readyQueue)
  <2>1. /\ readyQueue \in Seq(Procs) /\ p \in Procs /\ p = readyQueue[1]
        /\ 1 \in DOMAIN readyQueue
    BY <1>3 DEF TypeOK
  <2>2. /\ runningProcess' = p
        /\ readyQueue' = Tail(readyQueue)
        /\ status' = [status EXCEPT ![p] = "running"]
        /\ quantum' = quantum
    BY <1>1, <1>3, <2>1
       DEF Dispatch, FrontOf, Dequeue, FCFS, SJF, RR, Null, Procs
  <2>3. /\ DOMAIN readyQueue' = 1 .. Len(readyQueue) - 1
        /\ DOMAIN readyQueue = 1 .. Len(readyQueue)
        /\ Len(readyQueue) \in Nat
        /\ \A k \in DOMAIN readyQueue' : readyQueue'[k] = readyQueue[k + 1]
    BY <2>1, <2>2, <1>3
  <2>4. status[p] = "ready"
    BY <2>1 DEF QueueMatchesStatus
  <2> HIDE DEF p
  <2> USE <1>0
  <2>5. TypeOK'
    <3>1. status' \in [Procs -> Statuses]
      BY <2>1, <2>2 DEF TypeOK, Statuses
    <3>2. readyQueue' \in Seq(Procs)
      BY <2>1, <2>2, <1>3
    <3>3. QED
      BY <2>1, <2>2, <3>1, <3>2 DEF TypeOK
  <2>6. CpuBound' /\ IoCountdown'
    BY <2>2, <2>4, <2>1 DEF CpuBound, IoCountdown
  <2>14. IoBehindCpu'
    BY <2>2, <2>4, <2>1 DEF IoBehindCpu, TypeOK
  <2>7. SoleRunner'
    <3> SUFFICES ASSUME NEW q \in Procs
                 PROVE  (status'[q] \in {"running", "blocked"}) <=> p = q
      BY <2>2 DEF SoleRunner
    <3>1. status[q] \notin {"running", "blocked"}
      BY <1>3 DEF SoleRunner, Null, Procs
    <3>2. QED
      BY <3>1, <2>1, <2>2 DEF TypeOK
  <2>8. QueueMatchesStatus'
    <3>1. \A k \in DOMAIN readyQueue' : readyQueue'[k] # p
      BY <2>1, <2>3 DEF QueueMatchesStatus
    <3>2. ASSUME NEW r \in Procs, status'[r] = "ready"
          PROVE  \E k \in DOMAIN readyQueue' : readyQueue'[k] = r
      <4>1. status[r] = "ready" /\ r # p
        BY <3>2, <2>1, <2>2 DEF TypeOK
      <4>2. PICK k \in DOMAIN readyQueue : readyQueue[k] = r
        BY <4>1 DEF QueueMatchesStatus
      <4>3. k - 1 \in DOMAIN readyQueue' /\ readyQueue'[k - 1] = r
        BY <4>1, <4>2, <2>1, <2>3
      <4>4. QED
        BY <4>3
    <3>3. ASSUME NEW k \in DOMAIN readyQueue'
          PROVE  readyQueue'[k] \in Procs /\ status'[readyQueue'[k]] = "ready"
      <4>1. k + 1 \in DOMAIN readyQueue /\ readyQueue'[k] = readyQueue[k + 1]
        BY <2>3
      <4>2. readyQueue[k + 1] \in Procs /\ status[readyQueue[k + 1]] = "ready"
        BY <4>1 DEF QueueMatchesStatus
      <4>3. QED
        BY <4>1, <4>2, <3>1, <2>2 DEF TypeOK
    <3>4. \A k, l \in DOMAIN readyQueue' : readyQueue'[k] = readyQueue'[l] => k = l
      BY <2>3 DEF QueueMatchesStatus
    <3>5. QED
      BY <3>2, <3>3, <3>4 DEF QueueMatchesStatus
  <2>9. Arrivals'
    BY <2>1, <2>2 DEF Arrivals, TypeOK, Procs
  <2>10. ArrivalOrder'
    <3>1. \A r, q \in Procs : Started(r)' /\ ~Started(q)' => ArrivesBefore(r, q)'
      BY <2>1, <2>2, <2>4 DEF ArrivalOrder, Started, ArrivesBefore, TypeOK
    <3>2. \A k, l \in DOMAIN readyQueue' :
             k < l => ArrivesBefore(readyQueue'[k], readyQueue'[l])
      BY <2>3 DEF ArrivalOrder, ArrivesBefore
    <3>3. QED
      BY <3>1, <3>2 DEF ArrivalOrder, ArrivesBefore
  <2>11. FcfsOrder'
    <3>1. ASSUME NEW r \in Procs, ArrivesBefore(r, p) PROVE status[r] = "terminated"
      <4>1. ~ArrivesBefore(p, r)
        BY <3>1, <2>1, JobType DEF ArrivesBefore, Procs
      <4>2. status[r] # "unstarted"
        BY <4>1, <2>1, <2>4 DEF ArrivalOrder, Started
      <4>3. status[r] # "ready"
        <5> SUFFICES ASSUME status[r] = "ready" PROVE FALSE
          OBVIOUS
        <5>1. PICK k \in DOMAIN readyQueue : readyQueue[k] = r
          BY DEF QueueMatchesStatus
        <5>2. k = 1
          BY <5>1, <4>1, <2>1, <2>3 DEF ArrivalOrder
        <5>3. QED
          BY <5>1, <5>2, <3>1, <4>1, <2>1
      <4>4. status[r] \notin {"running", "blocked"}
        BY <1>3 DEF SoleRunner, Null, Procs
      <4>5. QED
        BY <4>2, <4>3, <4>4 DEF TypeOK, Statuses
    <3>2. QED
      BY <3>1, <2>1, <2>2, <2>4 DEF FcfsOrder, ArrivesBefore, TypeOK
  <2>12. EmptyWhenIdle'
    BY <2>1, <2>2 DEF EmptyWhenIdle, Null, Procs
  <2>13. QED
    BY <1>2, <2>5, <2>6, <2>14, <2>7, <2>8, <2>9, <2>10, <2>11, <2>12
<1>4. CASE ~(runningProcess = Null /\ readyQueue # <<>>)
  <2>1. UNCHANGED <<runningProcess, readyQueue, status, quantum>>
    <3>1. readyQueue # <<>> => Head(readyQueue) \in Procs
      BY DEF TypeOK
    <3>2. QED
      BY <1>1, <1>4, <3>1 DEF Dispatch, FrontOf, Dequeue, FCFS, SJF, RR, Null, Procs
  <2> USE <1>0, <2>1
  <2>2. TypeOK'
    BY DEF TypeOK
  <2>3. CpuBound' /\ IoCountdown' /\ IoBehindCpu'
    BY DEF CpuBound, IoCountdown, IoBehindCpu
  <2>4. SoleRunner' /\ QueueMatchesStatus' /\ FcfsOrder' /\ ArrivalOrder'
    BY DEF SoleRunner, QueueMatchesStatus, FcfsOrder, ArrivesBefore, ArrivalOrder,
           Started
  <2>5. Arrivals' /\ EmptyWhenIdle'
    BY <1>4 DEF Arrivals, EmptyWhenIdle, Procs, TypeOK
  <2>6. QED
    BY <1>2, <2>2, <2>3, <2>4, <2>5
<1>5. QED
  BY <1>3, <1>4

(* Step 3.  What the three outcomes of a cycle have in common. *)

\* What the three outcomes of step 3 have in common.
LEMMA UseCpuFacts ==
    ASSUME IInv, NEW p \in Procs, UseCpu(p)
    PROVE  /\ algorithm = FCFS
           /\ status[p] \in {"running", "blocked"}
           /\ \A q \in Procs : q # p => status[q] \notin {"running", "blocked"}
           /\ cpuRun' = [cpuRun EXCEPT ![p] = Inc(cpuRun[p])]
           /\ cpuRun' \in [Procs -> 0 .. Word - 1]
           /\ quantum' = quantum
           /\ pc = "run" /\ pc' = "updates" /\ i' = 0 /\ i' \in 0 .. N
           /\ UNCHANGED <<job, ioTime, ioBurst, algorithm, printed>>
<1> USE DEF IInv, UseCpu
<1>1. algorithm = FCFS
  BY DEF OnlyFcfs
<1>2. quantum' = quantum
  BY <1>1 DEF FCFS, RR
<1>3. cpuRun[p] \in 0 .. Word - 1
  BY DEF TypeOK
<1>4. Inc(cpuRun[p]) \in 0 .. Word - 1
  BY <1>3, WordArithmetic
<1>5. cpuRun' \in [Procs -> 0 .. Word - 1]
  BY <1>4 DEF TypeOK
<1>6. \A q \in Procs : (status[q] \in {"running", "blocked"}) <=> q = p
  BY DEF SoleRunner
<1>7. i' \in 0 .. N
  BY InputAssumption
<1>8. QED
  BY <1>1, <1>2, <1>5, <1>6, <1>7

\* The counter of a process that does not finish has not wrapped.
LEMMA CpuRunAdvances ==
    ASSUME IInv, NEW p \in Procs, UseCpu(p), cpuRun'[p] # job[p].C
    PROVE  /\ cpuRun'[p] = cpuRun[p] + 1
           /\ job[p].C = 0 \/ cpuRun'[p] < job[p].C
<1>1. cpuRun'[p] = Inc(cpuRun[p]) /\ cpuRun[p] \in 0 .. Word - 1
  BY UseCpuFacts DEF IInv, TypeOK
<1>2. job[p].C = 0 \/ cpuRun[p] < job[p].C
  BY UseCpuFacts DEF IInv, CpuBound
<1>3. job[p].C \in 0 .. Word - 1
  BY JobType DEF IInv
<1>4. QED
  BY <1>1, <1>2, <1>3, InputAssumption DEF Inc

\* The process that has the CPU is still behind with its I/O.
LEMMA IoOfCpuOwner ==
    ASSUME IInv, NEW p \in Procs, UseCpu(p), cpuRun'[p] # job[p].C
    PROVE  ioTime[p] < cpuRun'[p] /\ ioTime[p] <= cpuRun'[p]
<1>1. cpuRun'[p] = cpuRun[p] + 1
  BY CpuRunAdvances
<1>2. ioTime[p] \in 0 .. Word - 1 /\ cpuRun[p] \in 0 .. Word - 1
  BY DEF IInv, TypeOK
<1>3. status[p] \in {"running", "blocked"}
  BY UseCpuFacts
<1>4. ioTime[p] = 0 \/ ioTime[p] <= cpuRun[p]
  BY <1>3 DEF IInv, IoBehindCpu
<1>5. QED
  BY <1>1, <1>2, <1>4, InputAssumption

\* What the steps of the CPU do to the arrival order: nothing, as long as a
\* process that was in stays in and the ready queue is the same.
LEMMA ArrivalsKept ==
    ASSUME IInv, pc = "run", pc' = "updates",
           UNCHANGED <<job, readyQueue, cycle>>,
           \A q \in Procs : (status'[q] = "unstarted") <=> (status[q] = "unstarted")
    PROVE  Arrivals' /\ ArrivalOrder' /\ EmptyWhenIdle'
<1>1. Arrivals'
  BY DEF IInv, Arrivals
<1>2. ArrivalOrder'
  BY DEF IInv, ArrivalOrder, Started, ArrivesBefore
<1>3. EmptyWhenIdle'
  BY DEF EmptyWhenIdle
<1>4. QED
  BY <1>1, <1>2, <1>3

\* The termination of the running process.
LEMMA FinishIInv == \A p \in Procs : IInv /\ Finish(p) => IInv'
<1> SUFFICES ASSUME IInv, NEW p \in Procs, Finish(p) PROVE IInv'
  OBVIOUS
<1>0. UseCpu(p)
  BY DEF Finish
<1> USE DEF IInv
<1>1. /\ status' = [status EXCEPT ![p] = "terminated"]
      /\ waitTime' = [waitTime EXCEPT ![p] = Dec(waitTime[p])]
      /\ finishingTime' =
            [finishingTime EXCEPT ![p] = FcfsFinishingTime(p, Dec(waitTime[p]))]
      /\ cycle' = cycle
      /\ finished' = finished + 1
      /\ runningProcess' = Null
      /\ UNCHANGED <<readyQueue, blockedQueue, blockedCycles>>
  BY <1>0, UseCpuFacts DEF Finish, FCFS, RR
<1>2. TypeOK'
  <2>1. status' \in [Procs -> Statuses]
    BY <1>1 DEF TypeOK, Statuses
  <2>2. waitTime[p] \in 0 .. Word - 1
    BY DEF TypeOK
  <2>3. Dec(waitTime[p]) \in 0 .. Word - 1
    BY <2>2, WordArithmetic
  <2>4. FcfsFinishingTime(p, Dec(waitTime[p])) \in Int
    BY <2>3, FinishingTimeType
  <2>5. waitTime' \in [Procs -> 0 .. Word - 1] /\ finishingTime' \in [Procs -> Int]
    BY <1>1, <2>3, <2>4 DEF TypeOK
  <2>6. finished' \in Nat /\ runningProcess' \in Procs \cup {Null}
    BY <1>1 DEF TypeOK
  <2>7. UNCHANGED <<job, ioTime, ioBurst, quantum, readyQueue, blockedQueue, cycle,
                    blockedCycles, algorithm>>
    BY <1>0, <1>1, UseCpuFacts
  <2>8. cpuRun' \in [Procs -> 0 .. Word - 1] /\ pc' = "updates" /\ i' \in 0 .. N
    BY <1>0, UseCpuFacts
  <2>9. QED
    BY <2>1, <2>5, <2>6, <2>7, <2>8 DEF TypeOK
<1>3. OnlyFcfs' /\ Reporting'
  BY <1>0, UseCpuFacts DEF OnlyFcfs, Reporting, ReportsRepeat
<1>4. \A q \in Procs : q # p => status'[q] = status[q] /\ cpuRun'[q] = cpuRun[q]
  BY <1>0, <1>1, UseCpuFacts DEF TypeOK
<1>5. status'[p] = "terminated"
  BY <1>1 DEF TypeOK
<1>6. CpuBound' /\ IoCountdown' /\ IoBehindCpu'
  BY <1>0, <1>4, <1>5, UseCpuFacts DEF CpuBound, IoCountdown, IoBehindCpu
<1>7. SoleRunner'
  BY <1>0, <1>1, <1>4, <1>5, UseCpuFacts DEF SoleRunner, Null, Procs
<1>8. QueueMatchesStatus'
  BY <1>0, <1>1, <1>4, <1>5, UseCpuFacts DEF QueueMatchesStatus
<1>9. Arrivals' /\ ArrivalOrder' /\ EmptyWhenIdle'
  <2>1. \A q \in Procs : (status'[q] = "unstarted") <=> (status[q] = "unstarted")
    BY <1>0, <1>4, <1>5, UseCpuFacts
  <2>2. QED
    BY <1>0, <1>1, <2>1, UseCpuFacts, ArrivalsKept
<1>10. FcfsOrder'
  BY <1>0, <1>4, <1>5, UseCpuFacts DEF FcfsOrder, ArrivesBefore
<1>11. QED
  BY <1>2, <1>3, <1>6, <1>7, <1>8, <1>9, <1>10

\* The running process is marked blocked and keeps the CPU.
LEMMA BlockIInv == \A p \in Procs : IInv /\ Block(p) => IInv'
<1> SUFFICES ASSUME IInv, NEW p \in Procs, Block(p) PROVE IInv'
  OBVIOUS
<1>0. UseCpu(p) /\ cpuRun'[p] # job[p].C
  BY DEF Block
<1> USE DEF IInv
<1>1. /\ status' = [status EXCEPT ![p] = "blocked"]
      /\ waitTime' = [waitTime EXCEPT ![p] = Inc(waitTime[p])]
      /\ blockedCycles' = Inc(blockedCycles)
      /\ blockedQueue' = Append(blockedQueue, p)
      /\ UNCHANGED <<finishingTime, readyQueue, runningProcess, cycle, finished>>
  BY DEF Block, Enqueue
<1>2. TypeOK'
  <2>1. status' \in [Procs -> Statuses]
    BY <1>1 DEF TypeOK, Statuses
  <2>2. waitTime[p] \in 0 .. Word - 1 /\ blockedCycles \in 0 .. Word - 1
    BY DEF TypeOK
  <2>3. Inc(waitTime[p]) \in 0 .. Word - 1 /\ Inc(blockedCycles) \in 0 .. Word - 1
    BY <2>2, WordArithmetic
  <2>4. waitTime' \in [Procs -> 0 .. Word - 1] /\ blockedQueue' \in Seq(Procs)
    BY <1>1, <2>3 DEF TypeOK
  <2>5. QED
    BY <1>0, <1>1, <2>1, <2>3, <2>4, UseCpuFacts DEF TypeOK
<1>3. OnlyFcfs' /\ Reporting'
  BY <1>0, UseCpuFacts DEF OnlyFcfs, Reporting, ReportsRepeat
<1>4. \A q \in Procs : q # p => status'[q] = status[q] /\ cpuRun'[q] = cpuRun[q]
  BY <1>0, <1>1, UseCpuFacts DEF TypeOK
<1>5. status'[p] = "blocked"
  BY <1>1 DEF TypeOK
<1>6. CpuBound' /\ IoCountdown'
  BY <1>0, <1>4, <1>5, UseCpuFacts, CpuRunAdvances DEF CpuBound, IoCountdown
<1>7. IoBehindCpu'
  <2>1. cpuRun'[p] = cpuRun[p] + 1 /\ ioTime' = ioTime
    BY <1>0, UseCpuFacts, CpuRunAdvances
  <2>2. ioTime[p] < cpuRun'[p] /\ ioTime[p] <= cpuRun'[p]
    BY <1>0, <2>1, IoOfCpuOwner
  <2>3. QED
    BY <1>0, <1>4, <1>5, <2>1, <2>2, UseCpuFacts DEF IoBehindCpu
<1>8. SoleRunner' /\ QueueMatchesStatus'
  BY <1>0, <1>1, <1>4, <1>5, UseCpuFacts DEF SoleRunner, QueueMatchesStatus, UseCpu
<1>9. Arrivals' /\ ArrivalOrder' /\ EmptyWhenIdle'
  <2>1. \A q \in Procs : (status'[q] = "unstarted") <=> (status[q] = "unstarted")
    BY <1>0, <1>4, <1>5, UseCpuFacts
  <2>2. QED
    BY <1>0, <1>1, <2>1, UseCpuFacts, ArrivalsKept
<1>10. FcfsOrder'
  BY <1>0, <1>4, <1>5, UseCpuFacts DEF FcfsOrder, ArrivesBefore
<1>11. QED
  BY <1>2, <1>3, <1>6, <1>7, <1>8, <1>9, <1>10

\* A cycle of computation that ends neither the process nor its burst.
LEMMA ComputeIInv == \A p \in Procs : IInv /\ Compute(p) => IInv'
<1> SUFFICES ASSUME IInv, NEW p \in Procs, Compute(p) PROVE IInv'
  OBVIOUS
<1>0. UseCpu(p) /\ cpuRun'[p] # job[p].C
  BY DEF Compute
<1> USE DEF IInv
<1>1. UNCHANGED <<status, finishingTime, waitTime, readyQueue, blockedQueue,
                  runningProcess, cycle, finished, blockedCycles>>
  BY <1>0, UseCpuFacts DEF Compute, FCFS, RR
<1>2. TypeOK'
  BY <1>0, <1>1, UseCpuFacts DEF TypeOK
<1>3. OnlyFcfs' /\ Reporting'
  BY <1>0, UseCpuFacts DEF OnlyFcfs, Reporting, ReportsRepeat
<1>4. \A q \in Procs : q # p => cpuRun'[q] = cpuRun[q]
  BY <1>0, <1>1, UseCpuFacts DEF TypeOK
<1>5. CpuBound' /\ IoCountdown'
  BY <1>0, <1>1, <1>4, UseCpuFacts, CpuRunAdvances DEF CpuBound, IoCountdown
<1>6. IoBehindCpu'
  <2>1. cpuRun'[p] = cpuRun[p] + 1 /\ ioTime' = ioTime
    BY <1>0, UseCpuFacts, CpuRunAdvances
  <2>2. ioTime[p] < cpuRun'[p] /\ ioTime[p] <= cpuRun'[p]
    BY <1>0, <2>1, IoOfCpuOwner
  <2>3. QED
    BY <1>0, <1>1, <1>4, <2>1, <2>2, UseCpuFacts DEF IoBehindCpu
<1>7. SoleRunner' /\ QueueMatchesStatus' /\ FcfsOrder'
  BY <1>0, <1>1, UseCpuFacts
     DEF SoleRunner, QueueMatchesStatus, FcfsOrder, ArrivesBefore
<1>8. Arrivals' /\ ArrivalOrder' /\ EmptyWhenIdle'
  BY <1>0, <1>1, UseCpuFacts, ArrivalsKept
<1>9. QED
  BY <1>2, <1>3, <1>5, <1>6, <1>7, <1>8

\* Step 4.  No I/O burst ever completes: a blocked process has been blocked for
\* less than Word - 1 cycles, so IOBurst does not count down to 0.
LEMMA NoIoCompletes == IInv /\ Update => ~IoCompletes(i)
<1> SUFFICES ASSUME IInv, Update, status[i] = "blocked" PROVE Dec(ioBurst[i]) # 0
  BY DEF IoCompletes
<1> USE DEF IInv
<1>1. i \in Procs /\ pc = "updates" /\ i \in Int
  BY InputAssumption DEF Update, TypeOK, Procs
<1>2. ioTime[i] < cpuRun[i]
  BY <1>1 DEF IoBehindCpu
<1>3. ioTime[i] \in 0 .. Word - 1 /\ cpuRun[i] \in 0 .. Word - 1
  BY <1>1 DEF TypeOK
<1>4. ioBurst[i] = IF ioTime[i] = 0 THEN 0 ELSE Word - ioTime[i]
  BY <1>1 DEF IoCountdown
<1>5. QED
  BY <1>2, <1>3, <1>4, InputAssumption DEF Dec

\* One process of step 4: counters move, no status does.
LEMMA UpdateIInv == IInv /\ Update => IInv'
<1> SUFFICES ASSUME IInv, Update PROVE IInv'
  OBVIOUS
<1> USE DEF IInv
<1>0. /\ i \in Procs /\ pc = "updates" /\ i' = i + 1 /\ pc' = pc
      /\ UNCHANGED <<job, finishingTime, cpuRun, quantum, runningProcess, cycle,
                     finished, blockedCycles, algorithm, printed>>
  BY InputAssumption DEF Update, TypeOK, Procs
<1>1. UNCHANGED <<status, readyQueue, blockedQueue>>
  BY NoIoCompletes DEF Update
<1>2. algorithm = FCFS
  BY <1>0 DEF OnlyFcfs
<1>3. i' \in 0 .. N /\ i \in Int
  BY <1>0, InputAssumption DEF Procs
<1>4. /\ ioTime[i] \in 0 .. Word - 1 /\ ioBurst[i] \in 0 .. Word - 1
      /\ waitTime[i] \in 0 .. Word - 1 /\ cpuRun[i] \in 0 .. Word - 1
  BY <1>0 DEF TypeOK
<1>5. waitTime' \in [Procs -> 0 .. Word - 1]
  <2>1. Inc(waitTime[i]) \in 0 .. Word - 1
    BY <1>4, WordArithmetic
  <2>2. waitTime' = waitTime \/ waitTime' = [waitTime EXCEPT ![i] = Inc(waitTime[i])]
    BY DEF Update
  <2>3. QED
    BY <2>1, <2>2, <1>0 DEF TypeOK
<1>6. OnlyFcfs' /\ Reporting'
  BY <1>0, <1>2 DEF OnlyFcfs, Reporting, ReportsRepeat
<1>7. CpuBound' /\ SoleRunner' /\ QueueMatchesStatus' /\ FcfsOrder' /\ EmptyWhenIdle'
  BY <1>0, <1>1 DEF CpuBound, SoleRunner, QueueMatchesStatus, FcfsOrder,
                    ArrivesBefore, EmptyWhenIdle
<1>8. Arrivals' /\ ArrivalOrder'
  BY <1>0, <1>1 DEF Arrivals, ArrivalOrder, Started, ArrivesBefore
<1>9. CASE status[i] = "blocked"
  <2>1. /\ ioBurst' = [ioBurst EXCEPT ![i] = Dec(ioBurst[i])]
        /\ ioTime' = [ioTime EXCEPT ![i] = Inc(ioTime[i])]
    BY <1>9 DEF Update
  <2>2. ioTime[i] < cpuRun[i]
    BY <1>0, <1>3, <1>9 DEF IoBehindCpu
  <2>3. Inc(ioTime[i]) = ioTime[i] + 1 /\ Inc(ioTime[i]) <= cpuRun[i]
    BY <2>2, <1>4, InputAssumption DEF Inc
  <2>4. Dec(ioBurst[i]) = Word - (ioTime[i] + 1)
    <3>1. ioBurst[i] = IF ioTime[i] = 0 THEN 0 ELSE Word - ioTime[i]
      BY <1>0 DEF IoCountdown
    <3>2. QED
      BY <3>1, <2>2, <1>4, InputAssumption DEF Dec
  <2>5. Dec(ioBurst[i]) \in 0 .. Word - 1 /\ Inc(ioTime[i]) \in 0 .. Word - 1
    BY <1>4, WordArithmetic
  <2>6. TypeOK'
    <3>1. ioBurst' \in [Procs -> 0 .. Word - 1] /\ ioTime' \in [Procs -> 0 .. Word - 1]
      BY <2>1, <2>5, <1>0 DEF TypeOK
    <3>2. QED
      BY <1>0, <1>1, <1>3, <1>5, <3>1 DEF TypeOK
  <2>7. \A q \in Procs : q # i => ioTime'[q] = ioTime[q] /\ ioBurst'[q] = ioBurst[q]
    BY <2>1, <1>0 DEF TypeOK
  <2>8. ioTime'[i] = ioTime[i] + 1 /\ ioBurst'[i] = Word - (ioTime[i] + 1)
    BY <2>1, <2>3, <2>4, <1>0 DEF TypeOK
  <2>9. IoCountdown'
    BY <2>7, <2>8, <1>4 DEF IoCountdown
  <2>10. IoBehindCpu'
    <3>1. \A q \in Procs : q \in Int
      BY DEF Procs
    <3>2. ASSUME NEW q \in Procs, q # i
          PROVE  ioTime'[q] = ioTime[q] /\ (i' <= q => i <= q)
      <4>1. q \in Int /\ i \in Int /\ i' = i + 1
        BY <3>1, <1>0
      <4>2. i' <= q => i <= q
        BY <4>1
      <4>3. QED
        BY <3>2, <4>2, <2>7
    <3>3. ~(i' <= i)
      BY <1>0, <1>3
    <3>4. QED
      BY <3>2, <3>3, <2>3, <2>8, <1>0, <1>1, <1>9 DEF IoBehindCpu
  <2>11. QED
    BY <1>6, <1>7, <1>8, <2>6, <2>9, <2>10
<1>10. CASE status[i] # "blocked"
  <2>1. UNCHANGED <<ioBurst, ioTime>>
    BY <1>10 DEF Update
  <2>2. TypeOK'
    BY <1>0, <1>1, <1>3, <1>5, <2>1 DEF TypeOK
  <2>3. IoCountdown'
    BY <2>1 DEF IoCountdown
  <2>4. IoBehindCpu'
    <3>1. \A q \in Procs : q \in Int
      BY DEF Procs
    <3>2. \A q \in Procs : i' <= q => i <= q
      BY <3>1, <1>0, <1>3
    <3>3. QED
      BY <3>2, <2>1, <1>0, <1>1 DEF IoBehindCpu
  <2>5. QED
    BY <1>6, <1>7, <1>8, <2>2, <2>3, <2>4
<1>11. QED
  BY <1>9, <1>10

\* Every step preserves the invariant.
LEMMA NextIInv == IInv /\ [Next]_vars => IInv'
<1>1. IInv /\ UNCHANGED vars => IInv'
  <2> SUFFICES ASSUME IInv, UNCHANGED vars PROVE IInv'
    OBVIOUS
  <2> USE DEF IInv, vars, jobState, queues
  <2>1. TypeOK' /\ OnlyFcfs' /\ EmptyWhenIdle'
    BY DEF TypeOK, OnlyFcfs, EmptyWhenIdle, MoreToDo
  <2>2. Reporting' /\ CpuBound' /\ IoCountdown' /\ IoBehindCpu'
    BY DEF Reporting, ReportsRepeat, Reports, figures, CpuBound, IoCountdown, IoBehindCpu
  <2>3. QueueMatchesStatus' /\ SoleRunner' /\ FcfsOrder'
    BY DEF QueueMatchesStatus, SoleRunner, FcfsOrder, ArrivesBefore
  <2>4. Arrivals' /\ ArrivalOrder'
    BY DEF Arrivals, ArrivalOrder, Started, ArrivesBefore
  <2>5. QED
    BY <2>1, <2>2, <2>3, <2>4
<1>2. QED
  BY <1>1, BeginCycleIInv, ArriveIInv, DispatchIInv, IdleIInv, FinishIInv, BlockIInv,
     ComputeIInv, UpdateIInv, EndCycleIInv, ReportIInv DEF Next

\* Every reachable state satisfies the inductive invariant.
THEOREM Invariance == Spec => []IInv
<1>1. IInv /\ [Next]_vars => IInv'
  BY NextIInv
<1>2. QED
  BY InitIInv, <1>1, PTL DEF Spec

-----------------------------------------------------------------------------
(* The properties of Scheduler that follow. *)

\* Type correctness.
THEOREM TypeCorrect == Spec => []TypeOK
<1>1. IInv => TypeOK
  BY DEF IInv
<1>2. QED
  BY Invariance, <1>1, PTL

\* The ready queue holds the ready processes, each once, and the process that runs or
\* is blocked is the one runningProcess points to.
THEOREM PlacesCorrect == Spec => []PlacesAgree
<1>1. IInv => PlacesAgree
  BY DEF IInv, PlacesAgree
<1>2. QED
  BY Invariance, <1>1, PTL

\* Jobs are started in the order of arrival, ties going to the lower index, each
\* after the termination of the one before.
THEOREM FirstComeFirstServed == Spec => []FcfsOrder
<1>1. IInv => FcfsOrder
  BY DEF IInv
<1>2. QED
  BY Invariance, <1>1, PTL

\* The CPU idles only while nothing has arrived that could use it.
THEOREM WorkConserving == Spec => []IdleOnlyBeforeArrivals
<1>1. IInv => IdleOnlyBeforeArrivals
  <2> SUFFICES ASSUME IInv, pc = "run", runningProcess = Null, NEW p \in Procs
               PROVE  status[p] \in {"unstarted", "terminated"}
    BY DEF IdleOnlyBeforeArrivals
  <2>1. readyQueue = <<>>
    BY DEF IInv, EmptyWhenIdle
  <2>2. status[p] # "ready"
    BY <2>1 DEF IInv, QueueMatchesStatus
  <2>3. status[p] \notin {"running", "blocked"}
    BY DEF IInv, SoleRunner, Null, Procs
  <2>4. QED
    BY <2>2, <2>3 DEF IInv, TypeOK, Statuses
<1>2. QED
  BY Invariance, <1>1, PTL

\* The SJF and RR reports print the FCFS figures again, but for the I/O utilisation,
\* which is 0 in them.
THEOREM SameReports == Spec => []ReportsRepeat
<1>1. IInv => ReportsRepeat
  BY DEF IInv, Reporting
<1>2. QED
  BY Invariance, <1>1, PTL

\* No step takes a started process back to the ready queue.
THEOREM NeverPreempted == Spec => RunToCompletion
<1> DEFINE Kept == \A p \in Procs :
             OnCpu(p) => status'[p] \in {"running", "blocked", "terminated"}
<1>1. IInv /\ [Next]_vars => Kept
  <2> SUFFICES ASSUME IInv, [Next]_vars, NEW p \in Procs, OnCpu(p)
               PROVE  status'[p] \in {"running", "blocked", "terminated"}
    OBVIOUS
  <2> USE DEF IInv, OnCpu
  <2>1. status \in [Procs -> Statuses]
    BY DEF TypeOK
  <2>2. CASE BeginCycle \/ Idle \/ EndCycle \/ Report \/ UNCHANGED vars
    BY <2>2 DEF BeginCycle, Idle, EndCycle, Report, vars, jobState
  <2>3. CASE Arrive
    BY <2>1, <2>3 DEF Arrive
  <2>4. CASE Dispatch
    BY <2>1, <2>4 DEF Dispatch
  <2>5. CASE \E q \in Procs : Finish(q) \/ Block(q)
    BY <2>1, <2>5 DEF Finish, Block
  <2>6. CASE \E q \in Procs : Compute(q)
    BY <2>6, UseCpuFacts DEF Compute, FCFS, RR
  <2>7. CASE Update
    BY <2>7, NoIoCompletes DEF Update
  <2>8. QED
    BY <2>2, <2>3, <2>4, <2>5, <2>6, <2>7 DEF Next
<1>2. QED
  BY Invariance, <1>1, PTL DEF RunToCompletion, OnCpu, Spec
-----------------------------------------------------------------------------
(* Where the time of a process goes: an invariant of its own, on top of IInv. *)

\* The cycles the counters of p account for, from its arrival on.
Counted(p) == job[p].A + waitTime[p] + cpuRun[p] - cpuRun[p] \div job[p].B

\* The cycle up to which they do: a running or blocked process is done with a cycle
\* after step 3, a ready one after its turn in step 4.
CountedUpTo(p) ==
    IF pc = "updates" /\ (OnCpu(p) \/ i > p) THEN Inc(cycle) ELSE cycle

\* A process that has not been started has used no CPU, and waits from its arrival.
Fresh ==
    \A p \in Procs :
        /\ status[p] \in {"unstarted", "ready"} => cpuRun[p] = 0
        /\ status[p] = "unstarted" => waitTime[p] = 0

Counters ==
    /\ Fresh
    /\ \A p \in Procs :
          status[p] \in {"ready", "running", "blocked"}
              => Counted(p) % Word = CountedUpTo(p)

\* The range of everything counted.
LEMMA CountersType ==
    ASSUME TypeOK, NEW p \in Procs
    PROVE  /\ job[p].A \in 0 .. Word - 1 /\ waitTime[p] \in 0 .. Word - 1
           /\ cpuRun[p] \in 0 .. Word - 1 /\ cycle \in 0 .. Word - 1
           /\ job[p].B \in Nat /\ job[p].B > 0
           /\ cpuRun[p] \div job[p].B \in Int
           /\ Counted(p) \in Int
<1>1. /\ job[p].A \in 0 .. Word - 1 /\ waitTime[p] \in 0 .. Word - 1
      /\ cpuRun[p] \in 0 .. Word - 1 /\ cycle \in 0 .. Word - 1
      /\ job[p].B \in Nat /\ job[p].B > 0
  BY JobType, InputAssumption DEF TypeOK
<1>2. cpuRun[p] \div job[p].B \in Int
  <2>1. cpuRun[p] \in Int
    BY <1>1, InputAssumption
  <2>2. QED
    BY <1>1, <2>1, Division
<1>3. QED
  BY <1>1, <1>2, InputAssumption DEF Counted

\* A process none of whose counters moves keeps its balance if its cycle stands.
LEMMA CountedKept ==
    ASSUME Counters, NEW p \in Procs,
           status'[p] \in {"ready", "running", "blocked"},
           status[p] \in {"ready", "running", "blocked"},
           job' = job, waitTime'[p] = waitTime[p], cpuRun'[p] = cpuRun[p],
           CountedUpTo(p)' = CountedUpTo(p)
    PROVE  Counted(p)' % Word = CountedUpTo(p)'
<1>1. Counted(p)' = Counted(p)
  BY DEF Counted
<1>2. QED
  BY <1>1 DEF Counters

\* Steps that touch neither statuses nor these counters.
LEMMA QuietCounters ==
    ASSUME IInv, Counters, BeginCycle \/ Idle \/ EndCycle \/ Report
    PROVE  Counters'
<1>1. UNCHANGED <<job, status, waitTime, cpuRun>>
  BY DEF BeginCycle, Idle, EndCycle, Report, jobState
<1>2. \A p \in Procs : CountedUpTo(p)' = CountedUpTo(p)
  <2>1. CASE BeginCycle \/ Report
    BY <2>1 DEF BeginCycle, Report, CountedUpTo
  <2>2. CASE Idle
    <3>1. \A p \in Procs : ~OnCpu(p) /\ ~(0 > p)
      BY <2>2, InputAssumption DEF Idle, IInv, SoleRunner, OnCpu, Null, Procs
    <3>2. QED
      BY <2>2, <3>1, <1>1 DEF Idle, CountedUpTo, OnCpu
  <2>3. CASE EndCycle
    <3>1. \A p \in Procs : i > p
      BY <2>3, InputAssumption DEF EndCycle, Procs
    <3>2. QED
      BY <2>3, <3>1 DEF EndCycle, CountedUpTo
  <2>4. QED
    BY <2>1, <2>2, <2>3
<1>3. QED
  BY <1>1, <1>2, CountedKept DEF Counters, Fresh

\* An arriving process has counted nothing and its A is the clock.
LEMMA ArriveCounters == ASSUME IInv, Counters, Arrive PROVE Counters'
<1>0. /\ i \in Procs /\ pc = "arrivals" /\ pc' = pc
      /\ UNCHANGED <<job, cpuRun, waitTime, cycle>>
  BY InputAssumption DEF Arrive, IInv, TypeOK, Procs
<1>1. \A p \in Procs : CountedUpTo(p)' = cycle /\ CountedUpTo(p) = cycle
  BY <1>0 DEF CountedUpTo
<1>2. ASSUME NEW p \in Procs, status'[p] = status[p]
      PROVE  status'[p] \in {"ready", "running", "blocked"}
                 => Counted(p)' % Word = CountedUpTo(p)'
  BY <1>0, <1>1, <1>2, CountedKept
<1>3. CASE ~(job[i].A = cycle /\ status[i] = "unstarted")
  <2>1. status' = status
    BY <1>3 DEF Arrive
  <2>2. QED
    BY <1>0, <1>2, <2>1 DEF Counters, Fresh
<1>4. PICK j \in Procs : j = i
  BY <1>0
<1>5. CASE job[i].A = cycle /\ status[i] = "unstarted"
  <2>1. /\ status'[j] = "ready"
        /\ \A p \in Procs : p # j => status'[p] = status[p]
    BY <1>4, <1>0, <1>5 DEF Arrive, IInv, TypeOK
  <2>2. cpuRun[j] = 0 /\ waitTime[j] = 0
    BY <1>4, <1>0, <1>5 DEF Counters, Fresh
  <2>3. 0 \div job[j].B = 0
    <3>1. job[j].B \in Nat /\ job[j].B > 0 /\ 0 = job[j].B * 0 + 0
      BY <1>4, <1>0, CountersType DEF IInv
    <3>2. QED
      BY <3>1, DivisionUnique
  <2>4. Counted(j)' = cycle /\ cycle \in 0 .. Word - 1
    BY <1>4, <1>0, <1>5, <2>2, <2>3, CountersType, InputAssumption DEF Counted, IInv
  <2>5. Counted(j)' % Word = CountedUpTo(j)'
    BY <1>4, <1>0, <1>1, <2>4, WordSums
  <2>6. Fresh'
    BY <1>4, <1>0, <2>1, <2>2 DEF Counters, Fresh
  <2>7. QED
    BY <1>2, <1>4, <2>1, <2>5, <2>6 DEF Counters
<1>6. QED
  BY <1>3, <1>5

\* The process that gets the CPU was ready and has used none of it.
LEMMA DispatchCounters == ASSUME IInv, Counters, Dispatch PROVE Counters'
<1>0. /\ pc = "arrivals" /\ pc' = "run" /\ UNCHANGED <<job, cpuRun, waitTime, cycle>>
  BY DEF Dispatch
<1>1. \A p \in Procs : CountedUpTo(p)' = cycle /\ CountedUpTo(p) = cycle
  BY <1>0 DEF CountedUpTo
<1>2. algorithm = FCFS
  BY <1>0 DEF IInv, OnlyFcfs
<1>3. ASSUME NEW p \in Procs
      PROVE  status'[p] = status[p] \/ (status[p] = "ready" /\ status'[p] = "running")
  <2>1. CASE readyQueue = <<>>
    BY <1>2, <2>1 DEF Dispatch, FrontOf, FCFS, SJF
  <2>2. CASE readyQueue # <<>>
    <3>1. /\ Head(readyQueue) \in Procs
          /\ Head(readyQueue) = readyQueue[1] /\ 1 \in DOMAIN readyQueue
      BY <2>2 DEF IInv, TypeOK
    <3>2. status[Head(readyQueue)] = "ready"
      BY <3>1 DEF IInv, QueueMatchesStatus
    <3>3. \/ status' = status
          \/ status' = [status EXCEPT ![Head(readyQueue)] = "running"]
      BY <1>2, <2>2 DEF Dispatch, FrontOf, FCFS, SJF
    <3>4. QED
      BY <3>1, <3>2, <3>3 DEF IInv, TypeOK
  <2>3. QED
    BY <2>1, <2>2
<1>4. Fresh'
  BY <1>0, <1>3 DEF Counters, Fresh
<1>5. ASSUME NEW p \in Procs, status'[p] \in {"ready", "running", "blocked"}
      PROVE  Counted(p)' % Word = CountedUpTo(p)'
  <2>1. status[p] \in {"ready", "running", "blocked"}
    BY <1>3, <1>5
  <2>2. QED
    BY <1>0, <1>1, <1>5, <2>1, CountedKept
<1>6. QED
  BY <1>4, <1>5 DEF Counters

\* Step 3 counts a cycle of the process that has the CPU, and of no other.
LEMMA CpuOwnerOnly ==
    ASSUME IInv, Counters, NEW p \in Procs, UseCpu(p), cycle' = cycle,
           status'[p] \in {"blocked", "running", "terminated"},
           \A q \in Procs : q # p => status'[q] = status[q] /\ waitTime'[q] = waitTime[q],
           status'[p] # "terminated" => Counted(p)' % Word = Inc(Counted(p) % Word)
    PROVE  Counters'
<1>0. /\ status[p] \in {"running", "blocked"} /\ job' = job
      /\ pc = "run" /\ pc' = "updates" /\ i' = 0
      /\ \A q \in Procs : q # p => ~OnCpu(q) /\ cpuRun'[q] = cpuRun[q]
  BY UseCpuFacts DEF OnCpu, IInv, TypeOK
<1>1. Fresh'
  BY <1>0 DEF Counters, Fresh
<1>2. ASSUME NEW q \in Procs, q # p, status'[q] \in {"ready", "running", "blocked"}
      PROVE  Counted(q)' % Word = CountedUpTo(q)'
  <2>1. CountedUpTo(q)' = cycle /\ CountedUpTo(q) = cycle
    BY <1>0, <1>2, InputAssumption DEF CountedUpTo, OnCpu, Procs
  <2>2. QED
    BY <1>0, <1>2, <2>1, CountedKept
<1>3. status'[p] # "terminated" => Counted(p)' % Word = CountedUpTo(p)'
  <2>1. status'[p] # "terminated" => CountedUpTo(p)' = Inc(cycle)
    BY <1>0 DEF CountedUpTo, OnCpu
  <2>2. Counted(p) % Word = cycle
    BY <1>0 DEF Counters, CountedUpTo
  <2>3. QED
    BY <2>1, <2>2
<1>4. QED
  BY <1>1, <1>2, <1>3 DEF Counters

\* A process that has terminated is no longer counted.
LEMMA FinishCounters ==
    ASSUME IInv, Counters, NEW p \in Procs, Finish(p) PROVE Counters'
<1>1. UseCpu(p) /\ algorithm = FCFS
  BY UseCpuFacts DEF Finish
<1>2. /\ cycle' = cycle /\ status'[p] = "terminated"
      /\ \A q \in Procs : q # p => status'[q] = status[q] /\ waitTime'[q] = waitTime[q]
  BY <1>1 DEF Finish, FCFS, RR, IInv, TypeOK
<1>3. QED
  BY <1>1, <1>2, CpuOwnerOnly

\* A burst that ends counts its cycle twice, as computed and as waited for: the
\* quotient by B makes up for one of the two.
LEMMA BlockCounters ==
    ASSUME IInv, Counters, NEW p \in Procs, Block(p) PROVE Counters'
<1>1. UseCpu(p) /\ cpuRun'[p] # job[p].C /\ cpuRun'[p] % job[p].B = 0 /\ job' = job
  BY UseCpuFacts DEF Block
<1>2. /\ cycle' = cycle /\ status'[p] = "blocked" /\ waitTime'[p] = Inc(waitTime[p])
      /\ \A q \in Procs : q # p => status'[q] = status[q] /\ waitTime'[q] = waitTime[q]
  BY DEF Block, IInv, TypeOK
<1>3. cpuRun'[p] = cpuRun[p] + 1
  BY <1>1, CpuRunAdvances
<1> DEFINE B == job[p].B
           d == cpuRun[p] \div B
           w == waitTime[p]
           m == job[p].A + cpuRun[p] - d
<1>4. /\ B \in Nat /\ B > 0 /\ cpuRun[p] \in Int /\ d \in Int /\ w \in 0 .. Word - 1
      /\ job[p].A \in Int /\ cpuRun[p] % B \in Int
  BY CountersType, Division, InputAssumption DEF IInv
<1>5. cpuRun'[p] \div B = d + 1
  <2>1. (cpuRun[p] + 1) % B = 0
    BY <1>1, <1>3
  <2>2. cpuRun[p] % B \in 0 .. B - 1
    BY <1>4, Division
  <2>3. cpuRun[p] % B = B - 1
    BY <1>4, <2>1, <2>2, DivisionOfSuccessor
  <2>4. QED
    BY <1>3, <1>4, <2>3, DivisionOfSuccessor
<1> HIDE DEF d, w, B
<1>6. m \in Int /\ w \in Int
  BY <1>4, InputAssumption
<1>7. Counted(p)' = m + Inc(w)
  <2>1. Counted(p)' = job[p].A + Inc(w) + (cpuRun[p] + 1) - (d + 1)
    BY <1>1, <1>2, <1>3, <1>5 DEF Counted, B, w
  <2>2. Inc(w) \in Int
    BY <1>4, WordArithmetic, InputAssumption
  <2>3. QED
    BY <1>4, <2>1, <2>2
<1>8. Counted(p) = m + w
  BY <1>4, <1>6 DEF Counted, B, d, w
<1>9. (m + Inc(w)) % Word = Inc((m + w) % Word)
  BY <1>4, <1>6, WordSums
<1>10. QED
  BY <1>1, <1>2, <1>7, <1>8, <1>9, CpuOwnerOnly

\* A cycle within a burst is counted as computed.
LEMMA ComputeCounters ==
    ASSUME IInv, Counters, NEW p \in Procs, Compute(p) PROVE Counters'
<1>1. UseCpu(p) /\ cpuRun'[p] # job[p].C /\ algorithm = FCFS /\ job' = job
      /\ status[p] \in {"running", "blocked"}
  BY UseCpuFacts DEF Compute
<1>2. /\ UNCHANGED <<cycle, status, waitTime>> /\ cpuRun'[p] % job[p].B # 0
  BY <1>1 DEF Compute, FCFS, RR
<1>3. cpuRun'[p] = cpuRun[p] + 1
  BY <1>1, CpuRunAdvances
<1> DEFINE B == job[p].B
           d == cpuRun[p] \div B
<1>4. /\ B \in Nat /\ B > 0 /\ cpuRun[p] \in Int /\ d \in Int
      /\ job[p].A \in Int /\ waitTime[p] \in Int /\ Counted(p) \in Int
  BY CountersType, InputAssumption DEF IInv
<1>5. cpuRun'[p] \div B = d
  <2>1. (cpuRun[p] + 1) % B # 0
    BY <1>2, <1>3
  <2>2. QED
    BY <1>3, <1>4, <2>1, DivisionOfSuccessor
<1> HIDE DEF d, B
<1>6. Counted(p)' = Counted(p) + 1
  <2>1. Counted(p)' = job[p].A + waitTime[p] + (cpuRun[p] + 1) - d
    BY <1>1, <1>2, <1>3, <1>5 DEF Counted, B
  <2>2. Counted(p) = job[p].A + waitTime[p] + cpuRun[p] - d
    BY DEF Counted, B, d
  <2>3. QED
    BY <1>4, <2>1, <2>2
<1>7. (Counted(p) + 1) % Word = Inc(Counted(p) % Word)
  <2>1. 0 \in 0 .. Word - 1
    BY InputAssumption
  <2>2. QED
    BY <1>4, <2>1, WordSums
<1>8. QED
  BY <1>1, <1>2, <1>6, <1>7, CpuOwnerOnly

\* A ready process waits one more cycle when its turn in step 4 comes.
LEMMA UpdateCounters == ASSUME IInv, Counters, Update PROVE Counters'
<1>0. /\ i \in Procs /\ pc = "updates" /\ i' = i + 1 /\ pc' = pc
      /\ UNCHANGED <<job, cpuRun, cycle>>
  BY InputAssumption DEF Update, IInv, TypeOK, Procs
<1>1. status' = status
  BY NoIoCompletes DEF Update
<1>2. /\ \A p \in Procs : p # i => waitTime'[p] = waitTime[p]
      /\ waitTime'[i] = IF status[i] = "ready" THEN Inc(waitTime[i]) ELSE waitTime[i]
  BY <1>0, <1>1 DEF Update, IInv, TypeOK
<1>3. \A p \in Procs : p \in Int
  BY DEF Procs
<1>4. \A p \in Procs : p # i => CountedUpTo(p)' = CountedUpTo(p)
  BY <1>0, <1>1, <1>3 DEF CountedUpTo, OnCpu
<1>5. PICK j \in Procs : j = i
  BY <1>0
<1>6. OnCpu(j) => CountedUpTo(j)' = CountedUpTo(j)
  BY <1>5, <1>0, <1>1 DEF CountedUpTo, OnCpu
<1>7. ASSUME status[j] = "ready"
      PROVE  Counted(j)' % Word = CountedUpTo(j)'
  <2>1. CountedUpTo(j)' = Inc(cycle) /\ CountedUpTo(j) = cycle
    BY <1>5, <1>0, <1>3, <1>7 DEF CountedUpTo, OnCpu
  <2> DEFINE m == job[j].A + cpuRun[j] - cpuRun[j] \div job[j].B
  <2>2. /\ waitTime[j] \in 0 .. Word - 1 /\ waitTime[j] \in Int
        /\ Inc(waitTime[j]) \in Int
        /\ job[j].A \in Int /\ cpuRun[j] \in Int /\ cpuRun[j] \div job[j].B \in Int
    BY <1>5, <1>0, CountersType, WordArithmetic, InputAssumption DEF IInv
  <2>3. m \in Int /\ Counted(j) = m + waitTime[j]
    BY <2>2 DEF Counted
  <2>4. Counted(j)' = m + Inc(waitTime[j])
    BY <1>5, <1>0, <1>2, <1>7, <2>2 DEF Counted
  <2> HIDE DEF m
  <2>5. (m + Inc(waitTime[j])) % Word = Inc((m + waitTime[j]) % Word)
    BY <2>2, <2>3, WordSums
  <2>6. Counted(j) % Word = cycle
    BY <1>5, <1>0, <1>7, <2>1 DEF Counters
  <2>7. QED
    BY <2>1, <2>3, <2>4, <2>5, <2>6
<1>8. Fresh'
  BY <1>5, <1>0, <1>1, <1>2 DEF Counters, Fresh
<1>9. ASSUME NEW p \in Procs, status'[p] \in {"ready", "running", "blocked"}
      PROVE  Counted(p)' % Word = CountedUpTo(p)'
  BY <1>5, <1>0, <1>1, <1>2, <1>4, <1>6, <1>7, <1>9, CountedKept DEF OnCpu
<1>10. QED
  BY <1>8, <1>9 DEF Counters

\* In every reachable state the counters balance.
LEMMA CountersBalance == Spec => []Counters
<1>1. Init => Counters
  BY DEF Init, Counters, Fresh
<1>2. IInv /\ Counters /\ [Next]_vars => Counters'
  <2>1. IInv /\ Counters /\ UNCHANGED vars => Counters'
    BY DEF Counters, Fresh, Counted, CountedUpTo, OnCpu, vars, jobState
  <2>2. QED
    BY <2>1, QuietCounters, ArriveCounters, DispatchCounters, FinishCounters,
       BlockCounters, ComputeCounters, UpdateCounters DEF Next
<1>3. QED
  BY Invariance, <1>1, <1>2, PTL DEF Spec

\* Every cycle since the arrival of an unfinished process is in its counters, the
\* ones that wrap included.
THEOREM TimeAccounted == Spec => []TimeAccounting
<1>1. IInv /\ Counters => TimeAccounting
  <2> SUFFICES ASSUME IInv, Counters, pc = "loop", NEW p \in Procs
               PROVE  /\ status[p] = "ready" => (job[p].A + waitTime[p]) % Word = cycle
                      /\ status[p] \in {"running", "blocked"} =>
                            (job[p].A + waitTime[p] + cpuRun[p] - cpuRun[p] \div job[p].B)
                                % Word = cycle
    BY DEF TimeAccounting
  <2>1. status[p] \in {"ready", "running", "blocked"} => Counted(p) % Word = cycle
    BY DEF Counters, CountedUpTo
  <2>2. status[p] = "ready" => Counted(p) = job[p].A + waitTime[p]
    <3>1. /\ job[p].B \in Nat /\ job[p].B > 0 /\ 0 = job[p].B * 0 + 0
          /\ job[p].A \in Int /\ waitTime[p] \in Int
      BY CountersType, InputAssumption DEF IInv
    <3>2. 0 \div job[p].B = 0
      BY <3>1, DivisionUnique
    <3>3. status[p] = "ready" => cpuRun[p] = 0
      BY DEF Counters, Fresh
    <3>4. job[p].A + waitTime[p] + 0 - 0 = job[p].A + waitTime[p]
      BY <3>1
    <3>5. QED
      BY <3>2, <3>3, <3>4 DEF Counted
  <2>3. QED
    BY <2>1, <2>2 DEF Counted
<1>2. QED
  BY Invariance, CountersBalance, <1>1, PTL

\* Whole words added to a sum do not show modulo Word.
LEMMA WholeWords ==
    ASSUME NEW n \in Int, NEW k \in Int
    PROVE  (n + Word * k) % Word = n % Word
<1> DEFINE q == n \div Word
           r == n % Word
<1>1. q \in Int /\ r \in 0 .. Word - 1 /\ n = Word * q + r /\ Word \in Nat /\ Word > 0
  BY Division, InputAssumption
<1> HIDE DEF q, r
<1>2. n + Word * k = Word * (q + k) + r /\ q + k \in Int /\ n + Word * k \in Int
  BY <1>1, SMT
<1>3. QED
  BY <1>1, <1>2, DivisionUnique DEF r

\* The process that finishes has computed for C cycles with this one: what its
\* counters hold, the last cycle of waiting taken off, tells the time since its arrival.
LEMMA FinishFigures ==
    ASSUME IInv, Counters, NEW p \in Procs, Finish(p)
    PROVE  finishingTime'[p] =
               ToSigned((cycle - job[p].A + ioTime[p] + Dec(job[p].C) \div job[p].B) % Word)
<1> DEFINE x == cpuRun[p]
           w == waitTime[p]
           a == job[p].A
           io == ioTime[p]
           d == x \div job[p].B
<1>1. UseCpu(p) /\ cpuRun'[p] = job[p].C
  BY DEF Finish
<1>2. /\ algorithm = FCFS /\ pc = "run" /\ status[p] \in {"running", "blocked"}
      /\ cpuRun' = [cpuRun EXCEPT ![p] = Inc(x)]
  BY <1>1, UseCpuFacts
<1>3. /\ x \in 0 .. Word - 1 /\ w \in 0 .. Word - 1 /\ a \in Int /\ io \in Int
      /\ d \in Int /\ cycle \in Int
  BY CountersType, InputAssumption DEF IInv, TypeOK
<1>4. job[p].C = Inc(x)
  BY <1>1, <1>2 DEF IInv, TypeOK
<1>5. x = Dec(job[p].C)
  BY <1>3, <1>4, InputAssumption DEF Inc, Dec
<1>6. (a + w + x - d) % Word = cycle
  BY <1>2 DEF Counters, CountedUpTo, Counted
<1>7. finishingTime'[p] = ToSigned((Inc(x) + io + Dec(w)) % Word)
  BY <1>2, <1>4 DEF Finish, FcfsFinishingTime, IInv, TypeOK, FCFS
<1>8. d = Dec(job[p].C) \div job[p].B
  BY <1>5
<1> HIDE DEF x, w, a, io, d
<1> DEFINE n == cycle - a + io + d
<1>9. n \in Int
  BY <1>3
<1>10. PICK k \in Int : Inc(x) + Dec(w) = x + w + Word * k
  <2>1. \/ Inc(x) + Dec(w) = x + w + Word * 0
        \/ Inc(x) + Dec(w) = x + w + Word * 1
        \/ Inc(x) + Dec(w) = x + w + Word * (-1)
    BY <1>3, InputAssumption DEF Inc, Dec
  <2>2. QED
    BY <2>1
<1>11. PICK q \in Int : a + w + x - d = Word * q + cycle
  <2> DEFINE sum == a + w + x - d
  <2>1. sum \in Int /\ Word \in Nat /\ Word > 0 /\ sum % Word = cycle
    BY <1>3, <1>6, InputAssumption
  <2> HIDE DEF sum
  <2>2. sum \div Word \in Int /\ sum = Word * (sum \div Word) + cycle
    BY <2>1, Division
  <2>3. \E q \in Int : sum = Word * q + cycle
    BY <2>2
  <2>4. QED
    BY <2>3 DEF sum
<1>12. Inc(x) + io + Dec(w) = n + Word * (q + k) /\ q + k \in Int
  <2>1. Inc(x) \in Int /\ Dec(w) \in Int /\ Word \in Int /\ x \in Int /\ w \in Int
    BY <1>3, WordArithmetic, InputAssumption
  <2>2. QED
    BY <1>3, <1>10, <1>11, <2>1, SMT
<1>13. (Inc(x) + io + Dec(w)) % Word = n % Word
  BY <1>9, <1>12, WholeWords
<1>14. QED
  BY <1>7, <1>8, <1>13 DEF a, io

\* What FCFS prints as the finishing time: the time since the arrival, and not the
\* clock, with the cycles of I/O and of line 403 counted on top.
THEOREM FinishingTimesTold == Spec => FinishingTimes
<1> DEFINE Told(p) == status[p] # "terminated" /\ status'[p] = "terminated" =>
              finishingTime'[p] =
                  ToSigned((cycle - job[p].A + ioTime[p] + Dec(job[p].C) \div job[p].B)
                               % Word)
<1>1. IInv /\ Counters /\ [Next]_vars => \A p \in Procs : Told(p)
  <2> SUFFICES ASSUME IInv, Counters, [Next]_vars, NEW p \in Procs,
                      status[p] # "terminated", status'[p] = "terminated"
               PROVE  Finish(p)
    BY FinishFigures
  <2> USE DEF IInv
  <2>1. status' # status
    OBVIOUS
  <2>2. ~Arrive
    BY InputAssumption DEF Arrive, TypeOK, Procs
  <2>3. ~Dispatch
    BY DEF Dispatch, TypeOK
  <2>4. ASSUME NEW q \in Procs, Finish(q) PROVE q = p
    BY <2>4 DEF Finish, TypeOK
  <2>5. ASSUME NEW q \in Procs PROVE ~Block(q)
    BY DEF Block, TypeOK
  <2>6. ASSUME NEW q \in Procs PROVE ~Compute(q)
    BY DEF Compute, TypeOK
  <2>7. ~Update
    BY <2>1, NoIoCompletes DEF Update
  <2>8. QED
    BY <2>1, <2>2, <2>3, <2>4, <2>5, <2>6, <2>7
       DEF Next, BeginCycle, Idle, EndCycle, Report, jobState, vars
<1>2. QED
  BY Invariance, CountersBalance, <1>1, PTL DEF FinishingTimes, Spec
=============================================================================
