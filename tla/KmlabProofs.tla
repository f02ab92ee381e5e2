----------------------------- MODULE KmlabProofs -----------------------------
(***************************************************************************)
(* Theorems about Kmlab.  That the lock excludes readers and writers from  *)
(* each other is proved for any number of processors; that the list stays  *)
(* intact and the cursors valid, for one processor and until the module is *)
(* unloaded: there the timer, which takes no lock, is kept away by         *)
(* interrupts being off.  cleanup_list is not kept away, and what is       *)
(* proved of the time from the unload on does not rest on the list.        *)
(***************************************************************************)
EXTENDS Kmlab, TLAPS

-----------------------------------------------------------------------------
(* The lock, with any number of processors. *)

LockType ==
    /\ lock \in Tasks \cup {None}
    /\ pc \in [Tasks -> {"user"} \cup InWrite \cup InRead]

\* A task is between lock and unlock exactly when it is the holder.
LockHeld == \A t \in Tasks : pc[t] \in Critical <=> lock = t

\* At most one task is between spin_lock_irqsave and spin_unlock_irqrestore.
MutualExclusion ==
    \A t, u \in Tasks : pc[t] \in Critical /\ pc[u] \in Critical => t = u

\* Every step keeps the program counters and the lock in agreement.
LEMMA LockStep == LockType /\ LockHeld /\ [Next]_vars => LockType' /\ LockHeld'
<1> SUFFICES ASSUME LockType, LockHeld, [Next]_vars PROVE LockType' /\ LockHeld'
  OBVIOUS
<1> USE KmlabAssumption DEF LockType, LockHeld, Critical, InWrite, InRead
<1>1. ASSUME NEW t \in Tasks, Write(t) PROVE LockType' /\ LockHeld'
  BY <1>1 DEF Write, WriteEnter, WriteReject, WriteParse, WriteLock, WriteAdd,
              WriteUnlock, Crash, taskVars
<1>2. ASSUME NEW t \in Tasks, Read(t) PROVE LockType' /\ LockHeld'
  BY <1>2 DEF Read, ReadEnter, ReadLock, ReadLine, ReadUnlock, ReadReturn, ReadGone,
              Crash, taskVars
<1>3. CASE Timer
  BY <1>3 DEF Timer, TimerFire, WorkEntry, WorkDone, Crash, taskVars
<1>4. CASE Unload
  BY <1>4 DEF Unload, Rmmod, Cleanup, CleanupLoadPrev, CleanupLoadNext,
              CleanupSetPrev, CleanupSetNext, CleanupFree, CleanupAdvance, CleanupStep, CleanupCrash, CleanupDone,
              ProcRemove, ProcDrained, DelTimer, Crash, taskVars
<1>5. CASE Process
  BY <1>5 DEF Process, UseCpu, Exit, Fork, taskVars
<1>6. CASE UNCHANGED vars
  BY <1>6 DEF vars, taskVars
<1>7. QED
  BY <1>1, <1>2, <1>3, <1>4, <1>5, <1>6 DEF Next

\* The handlers' critical sections exclude each other on any machine.
THEOREM LockExcludes == Spec => []MutualExclusion
<1>1. Init => LockType /\ LockHeld
  BY KmlabAssumption DEF Init, LockType, LockHeld, Critical
<1>2. LockType /\ LockHeld => MutualExclusion
  BY DEF LockHeld, MutualExclusion
<1>3. QED
  BY <1>1, <1>2, LockStep, PTL DEF Spec

-----------------------------------------------------------------------------
(* The pointers. *)

PtrType ==
    /\ next \in [Nodes -> Nodes \cup {Poison}]
    /\ prev \in [Nodes -> Nodes \cup {Poison}]

\* list_add of an entry that is not in the list.
LEMMA AddLinks ==
    ASSUME PtrType, DoublyLinked, NEW e \in Entries, e \notin Linked, ListAdd(e)
    PROVE  PtrType' /\ DoublyLinked' /\ Linked' = Linked \cup {e}
<1> DEFINE first == next[Head]
<1> USE KmlabAssumption
<1>1. /\ first \in Linked \cup {Head} /\ first # e /\ first \in Nodes
      /\ prev[first] = Head /\ Head # e
  BY DEF DoublyLinked, Live, Nodes, Linked
<1>2. /\ next' \in [Nodes -> Nodes \cup {Poison}]
      /\ next'[Head] = e /\ next'[e] = first
      /\ \A n \in Nodes : n # Head /\ n # e => next'[n] = next[n]
  BY <1>1 DEF ListAdd, PtrType, Nodes
<1>3. /\ prev' \in [Nodes -> Nodes \cup {Poison}]
      /\ prev'[first] = e /\ prev'[e] = Head
      /\ \A n \in Nodes : n # first /\ n # e => prev'[n] = prev[n]
  BY <1>1 DEF ListAdd, PtrType, Nodes
<1> HIDE DEF first
<1>4. Linked' = Linked \cup {e}
  BY <1>1, <1>2 DEF Linked, Nodes
<1>5. ASSUME NEW n \in Linked' \cup {Head}
      PROVE  next'[n] \in Linked' \cup {Head} /\ prev'[next'[n]] = n
  <2>1. CASE n = Head
    BY <2>1, <1>1, <1>2, <1>3, <1>4
  <2>2. CASE n = e
    BY <2>2, <1>1, <1>2, <1>3, <1>4
  <2>3. CASE n # Head /\ n # e
    <3>1. n \in Linked /\ n \in Nodes /\ next'[n] = next[n]
      BY <2>3, <1>2, <1>4, <1>5 DEF Linked, Nodes
    <3>2. next[n] \in Linked \cup {Head} /\ prev[next[n]] = n /\ next[n] \in Nodes
      BY <3>1 DEF DoublyLinked, Live, Linked, Nodes
    <3>3. next[n] # first /\ next[n] # e
      BY <3>1, <3>2, <2>3, <1>1
    <3>4. QED
      BY <3>1, <3>2, <3>3, <1>3, <1>4
  <2>4. QED
    BY <2>1, <2>2, <2>3
<1>6. ASSUME NEW n \in Linked' \cup {Head}
      PROVE  prev'[n] \in Linked' \cup {Head} /\ next'[prev'[n]] = n
  <2>1. CASE n = first
    BY <2>1, <1>1, <1>2, <1>3, <1>4
  <2>2. CASE n = e
    BY <2>2, <1>1, <1>2, <1>3, <1>4
  <2>3. CASE n # first /\ n # e
    <3>1. n \in Linked \cup {Head} /\ n \in Nodes /\ prev'[n] = prev[n]
      BY <2>3, <1>3, <1>4, <1>6 DEF Linked, Nodes
    <3>2. prev[n] \in Linked \cup {Head} /\ next[prev[n]] = n /\ prev[n] \in Nodes
      BY <3>1 DEF DoublyLinked, Live, Linked, Nodes
    <3>3. prev[n] # Head /\ prev[n] # e
      BY <3>1, <3>2, <2>3, <1>1 DEF first
    <3>4. QED
      BY <3>1, <3>2, <3>3, <1>2, <1>4
  <2>4. QED
    BY <2>1, <2>2, <2>3
<1>7. QED
  BY <1>2, <1>3, <1>4, <1>5, <1>6 DEF PtrType, DoublyLinked, Live

\* list_add leaves every entry within reach of the head.
LEMMA AddReached ==
    ASSUME PtrType, DoublyLinked, NEW e \in Entries, e \notin Linked, ListAdd(e), AllReached
    PROVE  AllReached'
<1> DEFINE first == next[Head]
<1> USE KmlabAssumption
<1>1. /\ first \in Linked \cup {Head} /\ first # e
      /\ Linked' = Linked \cup {e} /\ Poison \notin Nodes
  BY AddLinks DEF DoublyLinked, Live, Nodes, Linked
<1>2. /\ next'[Head] = e /\ next'[e] = first
      /\ \A n \in Nodes : n # Head /\ n # e => next'[n] = next[n]
  BY <1>1 DEF ListAdd, PtrType, Nodes
<1> HIDE DEF first
<1>3. ASSUME NEW S \in SUBSET Nodes, Head \in S, \A n \in S : next'[n] \in S
      PROVE  Linked' \subseteq S
  <2>1. e \in S /\ first \in S
    BY <1>2, <1>3
  <2>2. ASSUME NEW n \in S \ {e} PROVE next[n] \in S \ {e}
    <3>1. CASE n = Head
      BY <3>1, <2>1, <1>1 DEF first
    <3>2. CASE n # Head
      <4>1. next[n] \in S /\ n \in Linked
        BY <3>2, <2>2, <1>1, <1>2, <1>3 DEF Linked, Nodes
      <4>2. next[n] # e
        BY <4>1 DEF DoublyLinked, Live, Linked
      <4>3. QED
        BY <4>1, <4>2
    <3>3. QED
      BY <3>1, <3>2
  <2>3. S \ {e} \in SUBSET Nodes /\ Head \in S \ {e}
    BY <1>3
  <2>4. Linked \subseteq S
    BY <2>2, <2>3 DEF AllReached
  <2>5. QED
    BY <2>1, <2>4, <1>1
<1>4. QED
  BY <1>3 DEF AllReached

\* No entry follows itself.
LEMMA NoLoop ==
    ASSUME DoublyLinked, AllReached, NEW e \in Linked PROVE next[e] # e
<1> SUFFICES ASSUME next[e] = e PROVE FALSE
  OBVIOUS
<1> DEFINE S == (Linked \cup {Head}) \ {e}
<1>1. S \in SUBSET Nodes /\ Head \in S
  BY KmlabAssumption DEF Linked, Nodes
<1>2. \A n \in S : next[n] \in S
  BY DEF DoublyLinked, Live
<1>3. QED
  BY <1>1, <1>2 DEF AllReached

\* list_del of an entry that is in the list.
LEMMA DelLinks ==
    ASSUME PtrType, DoublyLinked, AllReached, NEW e \in Linked, ListDel(e)
    PROVE  PtrType' /\ DoublyLinked' /\ Linked' = Linked \ {e}
<1> DEFINE a == prev[e]
           b == next[e]
<1> USE KmlabAssumption
<1>0. b # e
  BY NoLoop
<1>1. /\ e \in Entries /\ e \in Nodes /\ e # Head
      /\ a \in Linked \cup {Head} /\ b \in Linked \cup {Head}
      /\ a \in Nodes /\ b \in Nodes
      /\ next[a] = e /\ prev[b] = e
  BY DEF DoublyLinked, Live, Nodes, Linked
<1>2. a # e
  BY <1>0, <1>1
<1>3. /\ next' \in [Nodes -> Nodes \cup {Poison}]
      /\ next'[a] = b /\ next'[e] = Poison
      /\ \A n \in Nodes : n # a /\ n # e => next'[n] = next[n]
  BY <1>1, <1>2 DEF ListDel, PtrType
<1>4. /\ prev' \in [Nodes -> Nodes \cup {Poison}]
      /\ prev'[b] = a /\ prev'[e] = Poison
      /\ \A n \in Nodes : n # b /\ n # e => prev'[n] = prev[n]
  BY <1>0, <1>1 DEF ListDel, PtrType
<1> HIDE DEF a, b
<1>5. b # Poison /\ Poison \notin Nodes
  BY <1>1 DEF Nodes
<1>6. Linked' = Linked \ {e}
  BY <1>1, <1>2, <1>3, <1>5 DEF Linked, Nodes
<1>7. ASSUME NEW n \in Linked' \cup {Head}
      PROVE  next'[n] \in Linked' \cup {Head} /\ prev'[next'[n]] = n
  <2>1. CASE n = a
    BY <2>1, <1>0, <1>1, <1>3, <1>4, <1>6
  <2>2. CASE n # a
    <3>1. n \in Linked \cup {Head} /\ n # e /\ n \in Nodes /\ next'[n] = next[n]
      BY <2>2, <1>1, <1>3, <1>6, <1>7 DEF Linked, Nodes
    <3>2. next[n] \in Linked \cup {Head} /\ prev[next[n]] = n /\ next[n] \in Nodes
      BY <3>1 DEF DoublyLinked, Live, Linked, Nodes
    <3>3. next[n] # e /\ next[n] # b
      BY <3>1, <3>2, <2>2, <1>1 DEF a
    <3>4. QED
      BY <3>1, <3>2, <3>3, <1>4, <1>6
  <2>3. QED
    BY <2>1, <2>2
<1>8. ASSUME NEW n \in Linked' \cup {Head}
      PROVE  prev'[n] \in Linked' \cup {Head} /\ next'[prev'[n]] = n
  <2>1. CASE n = b
    BY <2>1, <1>1, <1>2, <1>3, <1>4, <1>6
  <2>2. CASE n # b
    <3>1. n \in Linked \cup {Head} /\ n # e /\ n \in Nodes /\ prev'[n] = prev[n]
      BY <2>2, <1>1, <1>4, <1>6, <1>8 DEF Linked, Nodes
    <3>2. prev[n] \in Linked \cup {Head} /\ next[prev[n]] = n /\ prev[n] \in Nodes
      BY <3>1 DEF DoublyLinked, Live, Linked, Nodes
    <3>3. prev[n] # e /\ prev[n] # a
      BY <3>1, <3>2, <2>2, <1>1 DEF b
    <3>4. QED
      BY <3>1, <3>2, <3>3, <1>3, <1>6
  <2>3. QED
    BY <2>1, <2>2
<1>9. QED
  BY <1>3, <1>4, <1>6, <1>7, <1>8 DEF PtrType, DoublyLinked, Live

\* list_del leaves every other entry within reach of the head.
LEMMA DelReached ==
    ASSUME PtrType, DoublyLinked, AllReached, NEW e \in Linked, ListDel(e)
    PROVE  AllReached'
<1> DEFINE a == prev[e]
           b == next[e]
<1> USE KmlabAssumption
<1>1. /\ e \in Nodes /\ e # Head /\ Linked' = Linked \ {e} /\ Poison \notin Nodes
      /\ a \in Linked \cup {Head} /\ a \in Nodes /\ next[a] = e /\ a # e
  BY DelLinks, NoLoop DEF DoublyLinked, Live, Nodes, Linked
<1>2. /\ next'[a] = b /\ next'[e] = Poison
      /\ \A n \in Nodes : n # a /\ n # e => next'[n] = next[n]
  BY <1>1 DEF ListDel, PtrType
<1> HIDE DEF a
<1>3. ASSUME NEW S \in SUBSET Nodes, Head \in S, \A n \in S : next'[n] \in S
      PROVE  Linked' \subseteq S
  <2>1. e \notin S
    BY <1>1, <1>2, <1>3
  <2>2. a \in S
    <3> SUFFICES ASSUME a \notin S PROVE FALSE
      OBVIOUS
    <3>1. \A n \in S : next[n] \in S
      BY <1>2, <1>3, <2>1
    <3>2. QED
      BY <1>1, <1>3, <3>1 DEF AllReached
  <2>3. \A n \in S \cup {e} : next[n] \in S \cup {e}
    BY <1>1, <1>2, <1>3, <2>1, <2>2
  <2>4. S \cup {e} \in SUBSET Nodes /\ Head \in S \cup {e}
    BY <1>1, <1>3
  <2>5. QED
    BY <1>1, <2>3, <2>4 DEF AllReached
<1>4. QED
  BY <1>3 DEF AllReached

\* Every pointer of the head and of an entry that has been linked is an address: this
\* much is left of a list that cleanup_list has broken.
Addressed ==
    /\ next[Head] \in Nodes
    /\ \A n \in Linked \cup {Head} : prev[n] \in Nodes

\* Such an address can be followed.
LEMMA NextNode ==
    ASSUME PtrType, Addressed, NEW n, Live(n)
    PROVE  n \in Nodes /\ next[n] \in Nodes /\ prev[n] \in Nodes /\ next[n] # Poison
  BY KmlabAssumption DEF PtrType, Addressed, Live, Linked, Nodes

\* list_add, whatever the state of the list.
LEMMA AddAddressed ==
    ASSUME PtrType, Addressed, NEW e \in Entries, ListAdd(e)
    PROVE  PtrType' /\ Addressed' /\ Linked' = Linked \cup {e}
<1> DEFINE first == next[Head]
<1> USE KmlabAssumption
<1>1. first \in Nodes /\ first # Poison /\ e \in Nodes /\ Head \in Nodes /\ e # Head
  BY DEF Addressed, Nodes
<1>2. /\ next' \in [Nodes -> Nodes \cup {Poison}]
      /\ next'[Head] = e /\ next'[e] = first
      /\ \A n \in Nodes : n # Head /\ n # e => next'[n] = next[n]
  BY <1>1 DEF ListAdd, PtrType
<1>3. /\ prev' \in [Nodes -> Nodes \cup {Poison}]
      /\ prev'[first] \in Nodes /\ prev'[e] \in Nodes
      /\ \A n \in Nodes : n # first /\ n # e => prev'[n] = prev[n]
  BY <1>1 DEF ListAdd, PtrType
<1> HIDE DEF first
<1>4. Linked' = Linked \cup {e}
  BY <1>1, <1>2 DEF Linked, Nodes
<1>5. Addressed'
  BY <1>1, <1>2, <1>3, <1>4 DEF Addressed, Linked, Nodes
<1>6. QED
  BY <1>2, <1>3, <1>4, <1>5 DEF PtrType

\* list_del of an entry between nodes that may be dereferenced.
LEMMA DelAddressed ==
    ASSUME PtrType, Addressed, NEW e \in Linked, Live(prev[e]), Live(next[e]), ListDel(e)
    PROVE  PtrType' /\ Addressed' /\ Linked' = Linked \ {e}
<1> DEFINE a == prev[e]
           b == next[e]
<1> USE KmlabAssumption
<1>1. /\ e \in Nodes /\ e # Head /\ a \in Linked \cup {Head} /\ a \in Nodes
      /\ b \in Nodes /\ b # Poison /\ Head \in Nodes
  BY NextNode DEF Live, Linked, Nodes
<1>2. /\ next' \in [Nodes -> Nodes \cup {Poison}]
      /\ next'[e] = Poison /\ (a # e => next'[a] = b)
      /\ \A n \in Nodes : n # a /\ n # e => next'[n] = next[n]
  BY <1>1 DEF ListDel, PtrType
<1>3. /\ prev' \in [Nodes -> Nodes \cup {Poison}]
      /\ b # e => prev'[b] = a
      /\ \A n \in Nodes : n # b /\ n # e => prev'[n] = prev[n]
  BY <1>1 DEF ListDel, PtrType
<1> HIDE DEF a, b
<1>4. Linked' = Linked \ {e}
  BY <1>1, <1>2 DEF Linked, Nodes
<1>5. Addressed'
  BY <1>1, <1>2, <1>3, <1>4 DEF Addressed, Linked, Nodes
<1>6. QED
  BY <1>2, <1>3, <1>4, <1>5 DEF PtrType

-----------------------------------------------------------------------------
(* The invariant for one processor. *)

\* Which tasks hold an entry that is not in the list yet.
WritersHold ==
    \A t \in Tasks : new[t] # None <=> pc[t] \in {"write_parse", "write_lock", "write_add"}

\* The softirq runs only while no task is in its critical section.
SoftirqApart == tpc = "work" => lock = None

\* work_function is one entry ahead with temp.
WorkAhead == tpc = "work" /\ tcur # Head => ttmp = next[tcur]

\* cleanup_list unlinks and frees entries, never the head.
CleanupOnEntry ==
    cpc \in {"load_next", "set_prev", "set_next", "free"} => ccur # Head

\* From the removal of the file on no task is in a handler.
Unloading ==
    /\ mod \in {"del_timer", "gone"} => ~procFile /\ \A t \in Tasks : pc[t] = "user"
    /\ mod = "gone" => ~armed /\ tpc = "idle"

\* The list, as long as every actor finishes with it before another one starts.
Sound ==
    /\ mod = "loaded" => DoublyLinked /\ AllReached /\ WorkAhead
    /\ CursorsLive

UInv ==
    /\ TypeOK
    /\ LockHeld
    /\ Addressed
    /\ EntriesOwned
    /\ WritersHold
    /\ SoftirqApart
    /\ CleanupOnEntry
    /\ Unloading
    /\ Sound

\* The types the lemmas above ask for.
LEMMA UInvLockType == UInv => LockType /\ PtrType
  BY DEF UInv, TypeOK, LockType, PtrType

\* Until the unload the first entry, and the one after any entry, are entries or the
\* head.
LEMMA NextLive ==
    ASSUME UInv, mod = "loaded", NEW n, Live(n)
    PROVE  Live(next[n]) /\ (n # Head => next[n] # n)
<1> USE KmlabAssumption DEF UInv, Sound
<1>1. Live(next[n])
  BY DEF DoublyLinked, Live
<1>2. n # Head => next[n] # n
  BY NoLoop DEF Live
<1>3. QED
  BY <1>1, <1>2

\* Steps that leave the pointers alone leave the list as it is.
LEMMA PointersKept ==
    ASSUME UNCHANGED <<next, prev>>
    PROVE  /\ Linked' = Linked /\ \A n : Live(n)' <=> Live(n)
           /\ Addressed => Addressed'
           /\ DoublyLinked => DoublyLinked'
           /\ AllReached => AllReached'
<1>1. Linked' = Linked
  BY DEF Linked
<1>2. DoublyLinked => DoublyLinked'
  BY <1>1 DEF DoublyLinked, Live
<1>3. AllReached => AllReached'
  BY <1>1 DEF AllReached
<1>4. Addressed => Addressed'
  BY <1>1 DEF Addressed
<1>5. QED
  BY <1>1, <1>2, <1>3, <1>4 DEF Live

\* The initial states satisfy the invariant.
LEMMA InitUInv == Init => UInv
<1> SUFFICES ASSUME Init PROVE UInv
  OBVIOUS
<1> USE KmlabAssumption DEF Init
<1>1. Linked = {}
  BY DEF Linked, Nodes
<1>2. TypeOK
  <2>1. (CHOOSE p \in Pids : TRUE) \in Pids
    OBVIOUS
  <2>2. QED
    BY <2>1 DEF TypeOK, Nodes
<1>3. LockHeld /\ WritersHold /\ SoftirqApart /\ CleanupOnEntry /\ Unloading
  BY DEF LockHeld, Critical, WritersHold, SoftirqApart, CleanupOnEntry, Unloading
<1>4. DoublyLinked /\ Addressed
  BY <1>1 DEF DoublyLinked, Addressed, Live, Nodes
<1>5. AllReached
  BY <1>1 DEF AllReached
<1>6. EntriesOwned
  BY <1>1 DEF EntriesOwned
<1>7. CursorsLive /\ WorkAhead
  BY DEF CursorsLive, WorkAhead
<1>8. QED
  BY <1>2, <1>3, <1>4, <1>5, <1>6, <1>7 DEF UInv, Sound

\* A crash changes nothing but the state of the module.
LEMMA CrashUInv == UInv /\ Crash => UInv'
<1> SUFFICES ASSUME UInv, Crash PROVE UInv'
  OBVIOUS
<1> USE DEF UInv, Crash, listVars, taskVars, timerVars, cleanVars, procVars
<1>1. TypeOK'
  BY DEF TypeOK
<1>2. Addressed' /\ Linked' = Linked
  BY PointersKept
<1>3. LockHeld' /\ WritersHold' /\ SoftirqApart' /\ CleanupOnEntry' /\ Unloading'
  BY DEF LockHeld, WritersHold, SoftirqApart, CleanupOnEntry, Unloading
<1>4. EntriesOwned' /\ Sound'
  BY <1>2 DEF EntriesOwned, Sound, CursorsLive
<1>5. QED
  BY <1>1, <1>2, <1>3, <1>4

\* The steps of procfile_write.
LEMMA WriteUInv == ~Smp => \A t \in Tasks : UInv /\ Write(t) => UInv'
<1> SUFFICES ASSUME ~Smp, NEW t \in Tasks, UInv, Write(t) PROVE UInv'
  OBVIOUS
<1> USE KmlabAssumption DEF UInv
<1>0. LockHeld'
  <2>1. Next
    BY DEF Next
  <2>2. QED
    BY <2>1, UInvLockType, LockStep
<1>1. CASE Crash
  BY <1>1, CrashUInv
<1>2. CASE ~Crash
  <2>1. tpc = "idle" /\ lock \in {None, t}
    BY DEF Write, WriteEnter, WriteReject, WriteParse, WriteLock, WriteAdd, WriteUnlock,
           TaskMayRun
  <2>2. UNCHANGED <<entry, size, got, cat, timerVars, modVars, procVars>>
    BY <1>2 DEF Write, WriteEnter, WriteReject, WriteParse, WriteLock, WriteAdd,
                WriteUnlock, listVars
  <2> USE <2>1, <2>2 DEF timerVars, modVars, cleanVars, procVars
  <2>3. SoftirqApart' /\ WorkAhead' /\ CleanupOnEntry'
    BY DEF SoftirqApart, WorkAhead, CleanupOnEntry
  <2>4. CASE WriteEnter(t)
    <3>1. PICK e \in Entries \ alloc :
             alloc' = alloc \cup {e} /\ new' = [new EXCEPT ![t] = e]
      BY <2>4 DEF WriteEnter
    <3>2. /\ pc[t] = "user" /\ procFile
          /\ pc' = [pc EXCEPT ![t] = "write_parse"]
          /\ UNCHANGED <<next, prev, PID, cpuTime, lock>>
      BY <2>4 DEF WriteEnter
    <3>3. TypeOK'
      BY <3>1, <3>2 DEF TypeOK, InWrite
    <3>4. /\ Linked' = Linked /\ \A n : Live(n)' <=> Live(n)
          /\ Addressed' /\ (DoublyLinked => DoublyLinked') /\ (AllReached => AllReached')
      BY <3>2, PointersKept
    <3>5. new[t] = None /\ e # None
      BY <3>1, <3>2 DEF WritersHold
    <3>6. EntriesOwned'
      <4>1. alloc' = Linked' \cup {new'[u] : u \in {v \in Tasks : new'[v] # None}}
        BY <3>1, <3>4, <3>5 DEF EntriesOwned, TypeOK
      <4>2. \A u \in Tasks : new[u] # e
        BY <3>1, <3>5 DEF EntriesOwned
      <4>3. e \notin Linked
        BY <3>1 DEF EntriesOwned
      <4>4. QED
        BY <3>1, <3>4, <4>1, <4>2, <4>3 DEF EntriesOwned, TypeOK
    <3>7. WritersHold'
      BY <3>1, <3>2, <3>5 DEF WritersHold, TypeOK
    <3>8. Sound' /\ Unloading'
      BY <2>3, <3>2, <3>4 DEF Sound, CursorsLive, Unloading, TypeOK
    <3>9. QED
      BY <1>0, <2>3, <3>3, <3>4, <3>6, <3>7, <3>8
  <2>5. CASE WriteReject(t)
    <3>1. /\ pc[t] = "write_parse" /\ alloc' = alloc \ {new[t]}
          /\ new' = [new EXCEPT ![t] = None] /\ pc' = [pc EXCEPT ![t] = "user"]
          /\ UNCHANGED <<next, prev, PID, cpuTime, lock>>
      BY <2>5 DEF WriteReject, Kfree
    <3>2. TypeOK'
      BY <3>1 DEF TypeOK
    <3>3. /\ Linked' = Linked /\ \A n : Live(n)' <=> Live(n)
          /\ Addressed' /\ (DoublyLinked => DoublyLinked') /\ (AllReached => AllReached')
      BY <3>1, PointersKept
    <3>4. new[t] # None
      BY <3>1 DEF WritersHold
    <3>5. EntriesOwned'
      BY <3>1, <3>3, <3>4 DEF EntriesOwned, TypeOK
    <3>6. WritersHold' /\ Sound' /\ Unloading'
      BY <2>3, <3>1, <3>3 DEF WritersHold, Sound, CursorsLive, Unloading, TypeOK
    <3>7. QED
      BY <1>0, <2>3, <3>2, <3>3, <3>5, <3>6
  <2>6. CASE WriteParse(t) \/ WriteLock(t) \/ WriteUnlock(t)
    <3>1. UNCHANGED <<next, prev, alloc, new>>
      BY <2>6 DEF WriteParse, WriteLock, WriteUnlock, listVars
    <3>2. TypeOK'
      <4>1. CASE WriteParse(t)
        <5>1. new[t] \in Entries
          BY <4>1 DEF WriteParse, WritersHold, TypeOK
        <5>2. PICK p \in Pids : PID' = [PID EXCEPT ![new[t]] = p]
          BY <4>1 DEF WriteParse
        <5>3. /\ cpuTime' = [cpuTime EXCEPT ![new[t]] = 0]
              /\ pc' = [pc EXCEPT ![t] = "write_lock"] /\ lock' = lock
          BY <4>1 DEF WriteParse
        <5>4. QED
          BY <3>1, <5>1, <5>2, <5>3 DEF TypeOK, InWrite
      <4>2. CASE WriteLock(t) \/ WriteUnlock(t)
        BY <3>1, <4>2 DEF WriteLock, WriteUnlock, TypeOK, InWrite, listVars
      <4>3. QED
        BY <2>6, <4>1, <4>2
    <3>3. /\ Linked' = Linked /\ \A n : Live(n)' <=> Live(n)
          /\ Addressed' /\ (DoublyLinked => DoublyLinked') /\ (AllReached => AllReached')
      BY <3>1, PointersKept
    <3>4. EntriesOwned'
      BY <3>1, <3>3 DEF EntriesOwned
    <3>5. WritersHold' /\ Sound' /\ Unloading'
      BY <2>3, <2>6, <3>1, <3>3 DEF WriteParse, WriteLock, WriteUnlock, WritersHold, Sound,
                                    CursorsLive, Unloading, TypeOK
    <3>6. QED
      BY <1>0, <2>3, <3>2, <3>3, <3>4, <3>5
  <2>7. CASE WriteAdd(t)
    <3> DEFINE e == new[t]
    <3>1. /\ pc[t] = "write_add" /\ ListAdd(e)
          /\ new' = [new EXCEPT ![t] = None] /\ pc' = [pc EXCEPT ![t] = "write_unlock"]
          /\ UNCHANGED <<alloc, PID, cpuTime, lock>>
      BY <1>2, <2>7 DEF WriteAdd
    <3>2. e \in Entries /\ e # None /\ e \notin Linked
      BY <3>1 DEF WritersHold, EntriesOwned, TypeOK
    <3> HIDE DEF e
    <3>3. PtrType' /\ Addressed' /\ Linked' = Linked \cup {e}
      BY <3>1, <3>2, UInvLockType, AddAddressed
    <3>4. TypeOK'
      BY <3>1, <3>3 DEF TypeOK, PtrType, InWrite
    <3>5. EntriesOwned'
      BY <3>1, <3>2, <3>3 DEF EntriesOwned, TypeOK, e
    <3>6. WritersHold' /\ Unloading'
      BY <3>1 DEF WritersHold, Unloading, TypeOK
    <3>7. mod = "loaded" => DoublyLinked' /\ AllReached'
      BY <3>1, <3>2, UInvLockType, AddLinks, AddReached DEF Sound
    <3>8. Sound'
      BY <2>3, <3>1, <3>3, <3>7 DEF Sound, CursorsLive, Live, TypeOK
    <3>9. QED
      BY <1>0, <2>3, <3>3, <3>4, <3>5, <3>6, <3>8
  <2>8. QED
    BY <2>4, <2>5, <2>6, <2>7 DEF Write
<1>3. QED
  BY <1>1, <1>2

\* The steps of procfile_read.
LEMMA ReadUInv == ~Smp => \A t \in Tasks : UInv /\ Read(t) => UInv'
<1> SUFFICES ASSUME ~Smp, NEW t \in Tasks, UInv, Read(t) PROVE UInv'
  OBVIOUS
<1> USE KmlabAssumption DEF UInv
<1>0. LockHeld'
  <2>1. Next
    BY DEF Next
  <2>2. QED
    BY <2>1, UInvLockType, LockStep
<1>1. CASE Crash
  BY <1>1, CrashUInv
<1>2. CASE ~Crash
  <2>1. /\ tpc = "idle" /\ new' = new
        /\ UNCHANGED <<listVars, timerVars, modVars, procVars>>
    BY <1>2 DEF Read, ReadEnter, ReadLock, ReadLine, ReadUnlock, ReadReturn, ReadGone,
                TaskMayRun
  <2> USE <2>1 DEF listVars, timerVars, modVars, cleanVars, procVars
  <2>2. /\ Linked' = Linked /\ \A n : Live(n)' <=> Live(n)
        /\ Addressed' /\ (DoublyLinked => DoublyLinked') /\ (AllReached => AllReached')
    BY PointersKept
  <2>3. EntriesOwned' /\ SoftirqApart' /\ CleanupOnEntry'
    BY <2>2 DEF EntriesOwned, SoftirqApart, CleanupOnEntry
  <2>4. WritersHold' /\ Unloading'
    BY <1>2 DEF WritersHold, Unloading, TypeOK, Read, ReadEnter, ReadLock, ReadLine,
                ReadUnlock, ReadReturn, ReadGone
  <2>5. CursorsLive' => Sound'
    BY <2>2 DEF Sound, WorkAhead
  <2>6. CASE ReadEnter(t)
    <3>1. /\ pc' = [pc EXCEPT ![t] = "read_lock"] /\ lock' = lock /\ entry' = entry
          /\ cat' = [cat EXCEPT ![t] = TRUE] /\ got' = [got EXCEPT ![t] = 0]
      BY <2>6 DEF ReadEnter
    <3>2. PICK s \in IF cat[t] THEN {size[t]} ELSE ReadSizes :
             size' = [size EXCEPT ![t] = s]
      BY <2>6 DEF ReadEnter
    <3>3. TypeOK'
      BY <3>1, <3>2 DEF TypeOK, InRead
    <3>4. CursorsLive'
      BY <3>1, <2>2 DEF Sound, CursorsLive, TypeOK
    <3>5. QED
      BY <1>0, <2>2, <2>3, <2>4, <2>5, <3>3, <3>4
  <2>7. CASE ReadLock(t)
    <3>1. /\ pc' = [pc EXCEPT ![t] = "read_iter"] /\ lock' = t
          /\ entry' = [entry EXCEPT ![t] = next[Head]]
          /\ UNCHANGED <<size, got, cat>>
      BY <2>7 DEF ReadLock
    <3>2. TypeOK'
      BY <3>1 DEF TypeOK, InRead, Addressed
    <3>3. mod = "loaded" => Live(next[Head])
      BY NextLive DEF Live
    <3>4. CursorsLive'
      BY <3>1, <3>3, <2>2 DEF Sound, CursorsLive, TypeOK
    <3>5. QED
      BY <1>0, <2>2, <2>3, <2>4, <2>5, <3>2, <3>4
  <2>8. CASE ReadLine(t)
    <3>1. Live(entry[t]) /\ pc[t] = "read_iter"
      BY <1>2, <2>8 DEF ReadLine
    <3>2. /\ got' = [got EXCEPT ![t] = Snprintf(got[t])]
          /\ entry' = [entry EXCEPT ![t] = next[entry[t]]]
          /\ UNCHANGED <<lock, pc, size, cat>>
      BY <2>8, <3>1 DEF ReadLine
    <3>3. next[entry[t]] \in Nodes
      BY <3>1, NextNode, UInvLockType
    <3>4. Snprintf(got[t]) \in Nat
      BY DEF Snprintf, TypeOK
    <3>5. TypeOK'
      BY <3>2, <3>3, <3>4 DEF TypeOK
    <3>6. mod = "loaded" => Live(next[entry[t]])
      BY <3>1, NextLive
    <3>7. CursorsLive'
      BY <3>2, <3>6, <2>2 DEF Sound, CursorsLive, TypeOK
    <3>8. QED
      BY <1>0, <2>2, <2>3, <2>4, <2>5, <3>5, <3>7
  <2>9. CASE ReadUnlock(t) \/ ReadReturn(t) \/ ReadGone(t)
    <3>1. TypeOK'
      <4>1. CASE ReadUnlock(t)
        BY <4>1 DEF ReadUnlock, TypeOK, InRead, Nodes
      <4>2. CASE ReadReturn(t)
        <5>1. PICK copied \in BOOLEAN :
                 cat' = [cat EXCEPT ![t] = copied /\ got[t] > 0]
          BY <4>2 DEF ReadReturn
        <5>2. cat' \in [Tasks -> BOOLEAN]
          BY <5>1, Zenon DEF TypeOK
        <5>3. size' \in [Tasks -> ReadSizes \cup {0}]
          BY <4>2 DEF ReadReturn, TypeOK
        <5>4. QED
          BY <4>2, <5>2, <5>3 DEF ReadReturn, TypeOK
      <4>3. CASE ReadGone(t)
        BY <4>3 DEF ReadGone, TypeOK
      <4>4. QED
        BY <2>9, <4>1, <4>2, <4>3
    <3>2. CursorsLive'
      BY <2>9, <2>2 DEF Sound, CursorsLive, TypeOK, ReadUnlock, ReadReturn, ReadGone
    <3>3. QED
      BY <1>0, <2>2, <2>3, <2>4, <2>5, <3>1, <3>2
  <2>10. QED
    BY <2>6, <2>7, <2>8, <2>9 DEF Read
<1>3. QED
  BY <1>1, <1>2

\* The steps of the timer callback and work_function.
LEMMA TimerUInv == ~Smp /\ UInv /\ Timer => UInv'
<1> SUFFICES ASSUME ~Smp, UInv, Timer PROVE UInv'
  OBVIOUS
<1> USE KmlabAssumption DEF UInv
<1>0. LockHeld'
  <2>1. Next
    BY DEF Next
  <2>2. QED
    BY <2>1, UInvLockType, LockStep
<1>1. lock = None /\ \A t \in Tasks : pc[t] \notin Critical
  BY DEF Timer, TimerFire, WorkEntry, WorkDone, SoftirqMayRun, LockHeld
<1>2. CASE Crash
  BY <1>2, CrashUInv
<1>3. CASE TimerFire /\ ~Crash
  <2>1. /\ tpc' = "work" /\ tcur' = next[Head] /\ ttmp' = next[next[Head]]
        /\ armed' = FALSE /\ Live(next[Head])
        /\ UNCHANGED <<listVars, lock, taskVars, modVars, procVars>>
    BY <1>3 DEF TimerFire
  <2> USE <2>1 DEF listVars, taskVars, modVars, cleanVars, procVars
  <2>2. /\ Linked' = Linked /\ \A n : Live(n)' <=> Live(n)
        /\ Addressed' /\ (DoublyLinked => DoublyLinked') /\ (AllReached => AllReached')
    BY PointersKept
  <2>3. next[Head] \in Nodes /\ next[next[Head]] \in Nodes
    BY NextNode, UInvLockType
  <2>4. TypeOK'
    BY <2>3 DEF TypeOK
  <2>5. EntriesOwned' /\ WritersHold' /\ CleanupOnEntry'
    BY <2>2 DEF EntriesOwned, WritersHold, CleanupOnEntry
  <2>6. SoftirqApart' /\ WorkAhead' /\ Unloading'
    BY <1>1, <1>3 DEF SoftirqApart, WorkAhead, Unloading, TimerFire
  <2>7. mod = "loaded" => Live(next[next[Head]])
    BY NextLive
  <2>8. Sound'
    BY <2>2, <2>6, <2>7 DEF Sound, CursorsLive
  <2>9. QED
    BY <1>0, <2>2, <2>4, <2>5, <2>6, <2>8
<1>4. CASE WorkEntry /\ ~Crash
  <2>1. /\ Live(tcur) /\ Live(ttmp) /\ tcur # Head /\ tpc = "work"
        /\ Exists(PID[tcur]) \/ CanDel(tcur, ttmp)
    BY <1>4 DEF WorkEntry
  <2>2. tcur \in Linked /\ tcur \in Entries
    BY <2>1 DEF Live, Linked
  <2>3. /\ tcur' = ttmp /\ ttmp' = next'[ttmp]
        /\ UNCHANGED <<PID, lock, taskVars, armed, tpc, modVars, procVars>>
    BY <1>4, <2>1 DEF WorkEntry
  <2>4. WritersHold' /\ CleanupOnEntry' /\ SoftirqApart' /\ WorkAhead'
    BY <1>1, <2>3 DEF WritersHold, CleanupOnEntry, SoftirqApart, WorkAhead, taskVars,
                      modVars, cleanVars
  <2>5. Unloading'
    BY <1>4, <2>3 DEF Unloading, WorkEntry, taskVars, modVars
  <2>6. ttmp \in Nodes /\ next[ttmp] \in Nodes
    BY <2>1, NextNode, UInvLockType
  <2>7. CASE Exists(PID[tcur])
    <3>1. /\ cpuTime' = [cpuTime EXCEPT ![tcur] = utime[PID[tcur]]]
          /\ UNCHANGED <<next, prev, alloc>>
      BY <1>4, <2>1, <2>7 DEF WorkEntry
    <3>2. /\ Linked' = Linked /\ \A n : Live(n)' <=> Live(n)
          /\ Addressed' /\ (DoublyLinked => DoublyLinked') /\ (AllReached => AllReached')
      BY <3>1, PointersKept
    <3>3. cpuTime' \in [Entries -> 0 .. MaxTime]
      BY <3>1, <2>2 DEF TypeOK
    <3>4. TypeOK'
      BY <2>3, <2>6, <3>1, <3>3 DEF TypeOK, taskVars, modVars, cleanVars, procVars
    <3>5. EntriesOwned'
      BY <2>3, <3>1, <3>2 DEF EntriesOwned, taskVars
    <3>6. mod = "loaded" => Live(next[ttmp])
      BY <2>1, NextLive
    <3>7. CursorsLive'
      BY <1>1, <2>1, <2>3, <3>1, <3>2, <3>6 DEF CursorsLive, Critical, taskVars, modVars
    <3>8. Sound'
      BY <2>3, <2>4, <3>2, <3>7 DEF Sound, modVars
    <3>9. QED
      BY <1>0, <2>4, <2>5, <3>2, <3>4, <3>5, <3>8
  <2>8. CASE ~Exists(PID[tcur])
    <3>1. ListDel(tcur) /\ alloc' = alloc \ {tcur} /\ cpuTime' = cpuTime
      BY <1>4, <2>1, <2>8 DEF WorkEntry, Kfree
    <3>2. PtrType' /\ Addressed' /\ Linked' = Linked \ {tcur}
      BY <2>1, <2>2, <2>8, <3>1, UInvLockType, DelAddressed DEF CanDel
    <3>3. ttmp \in Linked' \cup {Head}
      BY <2>1, <2>8, <3>2 DEF Live, CanDel
    <3>4. next'[ttmp] \in Nodes
      BY <2>6, <3>2, <3>3 DEF PtrType, Addressed, Linked, Nodes
    <3>5. TypeOK'
      BY <2>3, <2>6, <3>1, <3>2, <3>4 DEF TypeOK, PtrType, taskVars, modVars, cleanVars,
                                          procVars
    <3>6. EntriesOwned'
      BY <2>2, <2>3, <3>1, <3>2 DEF EntriesOwned, taskVars
    <3>7. mod = "loaded" => DoublyLinked' /\ AllReached'
      BY <3>1, <2>2, UInvLockType, DelLinks, DelReached DEF Sound
    <3>8. mod = "loaded" => next'[ttmp] \in Linked' \cup {Head}
      BY <3>3, <3>7 DEF DoublyLinked, Live
    <3>9. CursorsLive'
      BY <1>1, <2>3, <3>3, <3>8 DEF CursorsLive, Critical, taskVars, modVars, Live
    <3>10. Sound'
      BY <2>3, <2>4, <3>7, <3>9 DEF Sound, modVars
    <3>11. QED
      BY <1>0, <2>4, <2>5, <3>2, <3>5, <3>6, <3>10
  <2>9. QED
    BY <2>7, <2>8
<1>5. CASE WorkDone
  <2>1. /\ tpc = "work" /\ tpc' = "idle" /\ armed' = TRUE /\ ttmp' = Head /\ tcur' = tcur
        /\ UNCHANGED <<listVars, lock, taskVars, modVars, procVars>>
    BY <1>5 DEF WorkDone
  <2> USE <2>1 DEF listVars, taskVars, modVars, cleanVars, procVars
  <2>2. /\ Linked' = Linked /\ \A n : Live(n)' <=> Live(n)
        /\ Addressed' /\ (DoublyLinked => DoublyLinked') /\ (AllReached => AllReached')
    BY PointersKept
  <2>3. TypeOK'
    BY DEF TypeOK, Nodes
  <2>4. EntriesOwned' /\ WritersHold' /\ CleanupOnEntry'
    BY <2>2 DEF EntriesOwned, WritersHold, CleanupOnEntry
  <2>5. SoftirqApart' /\ Unloading' /\ Sound'
    BY <2>2 DEF SoftirqApart, Unloading, Sound, CursorsLive, WorkAhead
  <2>6. QED
    BY <1>0, <2>2, <2>3, <2>4, <2>5
<1>6. QED
  BY <1>2, <1>3, <1>4, <1>5 DEF Timer

\* The steps of the loop of cleanup_list.  From there on the list is not sound; what is
\* left is that pointers are addresses and that an entry is freed once.
LEMMA CleanupUInv ==
    ASSUME ~Smp, UInv,
           \/ CleanupLoadPrev \/ CleanupLoadNext \/ CleanupSetPrev
           \/ CleanupSetNext \/ CleanupFree \/ CleanupAdvance
    PROVE  UInv'
<1> USE KmlabAssumption DEF UInv
<1>0. LockHeld'
  <2>1. Next
    BY DEF Next, Unload, Cleanup
  <2>2. QED
    BY <2>1, UInvLockType, LockStep
<1>1. /\ mod = "cleanup_list" /\ Live(CleanupUses)
      /\ UNCHANGED <<PID, cpuTime, lock, taskVars, timerVars, mod, procFile, procVars>>
  BY DEF CleanupLoadPrev, CleanupLoadNext, CleanupSetPrev, CleanupSetNext, CleanupFree,
         CleanupAdvance, CleanupStep
<1> USE <1>1 DEF taskVars, timerVars, procVars
<1>2. WritersHold' /\ SoftirqApart' /\ Unloading' /\ Sound'
  BY DEF WritersHold, SoftirqApart, Unloading, Sound, CursorsLive
<1>3. CASE CleanupLoadPrev \/ CleanupLoadNext
  <2>1. /\ Live(ccur) /\ ccur # Head /\ cpc' \in {"load_next", "set_prev"}
        /\ cprev' \in {cprev, prev[ccur]} /\ cnext' \in {cnext, next[ccur]}
        /\ UNCHANGED <<next, prev, alloc, ccur, ctmp>>
    BY <1>3 DEF CleanupLoadPrev, CleanupLoadNext, CleanupStep, CleanupUses, CleanupOnEntry
  <2>2. Linked' = Linked /\ Addressed'
    BY <2>1, PointersKept
  <2>3. next[ccur] \in Nodes /\ prev[ccur] \in Nodes
    BY <2>1, NextNode, UInvLockType
  <2>4. TypeOK'
    BY <2>1, <2>3 DEF TypeOK
  <2>5. EntriesOwned' /\ CleanupOnEntry'
    BY <2>1, <2>2 DEF EntriesOwned, CleanupOnEntry
  <2>6. QED
    BY <1>0, <1>2, <2>2, <2>4, <2>5
<1>4. CASE CleanupSetPrev
  <2>1. /\ cpc = "set_prev" /\ cpc' = "set_next"
        /\ prev' = [prev EXCEPT ![cnext] = cprev]
        /\ UNCHANGED <<next, alloc, ccur, ctmp, cprev, cnext>>
    BY <1>4 DEF CleanupSetPrev, CleanupStep
  <2>2. cprev \in Nodes /\ cnext \in Nodes
    BY DEF TypeOK
  <2>3. Linked' = Linked /\ Addressed'
    BY <2>1, <2>2 DEF Addressed, Linked, TypeOK, Nodes
  <2>4. TypeOK'
    BY <2>1, <2>2 DEF TypeOK
  <2>5. EntriesOwned' /\ CleanupOnEntry'
    BY <2>1, <2>3 DEF EntriesOwned, CleanupOnEntry
  <2>6. QED
    BY <1>0, <1>2, <2>3, <2>4, <2>5
<1>5. CASE CleanupSetNext
  <2>1. /\ cpc = "set_next" /\ cpc' = "free" /\ Live(cprev)
        /\ next' = [next EXCEPT ![cprev] = cnext] /\ cprev' = Head /\ cnext' = Head
        /\ UNCHANGED <<prev, alloc, ccur, ctmp>>
    BY <1>5 DEF CleanupSetNext, CleanupStep, CleanupUses
  <2>2. cprev \in Nodes /\ cnext \in Nodes /\ cnext # Poison /\ Head \in Nodes
    BY DEF TypeOK, Nodes
  <2>3. Linked' = Linked /\ Addressed'
    BY <2>1, <2>2 DEF Addressed, Linked, Live, TypeOK, Nodes
  <2>4. TypeOK'
    BY <2>1, <2>2 DEF TypeOK
  <2>5. EntriesOwned' /\ CleanupOnEntry'
    BY <2>1, <2>3 DEF EntriesOwned, CleanupOnEntry
  <2>6. QED
    BY <1>0, <1>2, <2>3, <2>4, <2>5
<1>6. CASE CleanupFree
  <2>1. /\ Live(ccur) /\ cpc = "free" /\ cpc' = "advance"
        /\ next' = [next EXCEPT ![ccur] = Poison]
        /\ prev' = [prev EXCEPT ![ccur] = Poison]
        /\ alloc' = alloc \ {ccur}
        /\ UNCHANGED <<ccur, ctmp, cprev, cnext>>
    BY <1>6 DEF CleanupFree, CleanupStep, CleanupUses, Kfree
  <2>2. ccur \in Linked /\ ccur # Head /\ ccur \in Nodes
    BY <2>1 DEF CleanupOnEntry, Live, TypeOK
  <2>3. Linked' = Linked \ {ccur}
    BY <2>1, <2>2 DEF Linked, TypeOK, Nodes
  <2>4. Addressed'
    BY <2>1, <2>2, <2>3 DEF Addressed, Linked, TypeOK, Nodes
  <2>5. TypeOK'
    BY <2>1, <2>2 DEF TypeOK
  <2>6. EntriesOwned'
    BY <2>1, <2>2, <2>3 DEF EntriesOwned
  <2>7. CleanupOnEntry'
    BY <2>1 DEF CleanupOnEntry
  <2>8. QED
    BY <1>0, <1>2, <2>4, <2>5, <2>6, <2>7
<1>7. CASE CleanupAdvance
  <2>1. /\ Live(ctmp) /\ cpc' = "turn" /\ ccur' = ctmp /\ ctmp' = next[ctmp]
        /\ UNCHANGED <<next, prev, alloc, cprev, cnext>>
    BY <1>7 DEF CleanupAdvance, CleanupStep, CleanupUses
  <2>2. Linked' = Linked /\ Addressed'
    BY <2>1, PointersKept
  <2>3. next[ctmp] \in Nodes /\ ctmp \in Nodes
    BY <2>1, NextNode, UInvLockType
  <2>4. TypeOK'
    BY <2>1, <2>3 DEF TypeOK
  <2>5. EntriesOwned' /\ CleanupOnEntry'
    BY <2>1, <2>2 DEF EntriesOwned, CleanupOnEntry
  <2>6. QED
    BY <1>0, <1>2, <2>2, <2>4, <2>5
<1>8. QED
  BY <1>3, <1>4, <1>5, <1>6, <1>7

\* The other steps of kmlab_exit.
LEMMA UnloadUInv == ~Smp /\ UInv /\ Unload => UInv'
<1> SUFFICES ASSUME ~Smp, UInv, Unload PROVE UInv'
  OBVIOUS
<1>1. CASE CleanupCrash
  BY <1>1, CrashUInv DEF CleanupCrash
<1>2. CASE \/ CleanupLoadPrev \/ CleanupLoadNext \/ CleanupSetPrev
           \/ CleanupSetNext \/ CleanupFree \/ CleanupAdvance
  BY <1>2, CleanupUInv
<1>3. CASE Rmmod \/ CleanupDone \/ ProcRemove \/ ProcDrained \/ DelTimer
  <2> USE KmlabAssumption DEF UInv
  <2>0. LockHeld'
    <3>1. Next
      BY DEF Next
    <3>2. QED
      BY <3>1, UInvLockType, LockStep
  <2>1. /\ tpc = "idle" /\ mod' # "loaded"
        /\ UNCHANGED <<listVars, lock, taskVars, tpc, tcur, ttmp, ccur, cprev, cnext,
                       procVars>>
    BY <1>3 DEF Rmmod, CleanupDone, ProcRemove, ProcDrained, DelTimer, TaskMayRun,
                timerVars, cleanVars
  <2> USE <2>1 DEF listVars, taskVars, procVars
  <2>2. Linked' = Linked /\ Addressed'
    BY PointersKept
  <2>3. EntriesOwned' /\ WritersHold' /\ SoftirqApart' /\ Sound'
    BY <2>2 DEF EntriesOwned, WritersHold, SoftirqApart, Sound, CursorsLive
  <2>4. Unloading' /\ CleanupOnEntry'
    BY <1>3 DEF Unloading, CleanupOnEntry, Rmmod, CleanupDone, ProcRemove, ProcDrained,
                DelTimer, timerVars, cleanVars
  <2>5. TypeOK'
    <3>1. next[Head] \in Nodes /\ Head \in Nodes
      BY DEF Addressed, Nodes
    <3>2. QED
      BY <1>3, <3>1 DEF Rmmod, CleanupDone, ProcRemove, ProcDrained, DelTimer, TypeOK,
                        timerVars, cleanVars
  <2>6. QED
    BY <2>0, <2>2, <2>3, <2>4, <2>5
<1>4. QED
  BY <1>1, <1>2, <1>3 DEF Unload, Cleanup

\* The processes touch nothing of the module.
LEMMA ProcessUInv == UInv /\ (Process \/ UNCHANGED vars) => UInv'
<1> SUFFICES ASSUME UInv, Process \/ UNCHANGED vars PROVE UInv'
  OBVIOUS
<1> USE DEF UInv
<1>1. UNCHANGED <<listVars, lock, taskVars, timerVars, modVars>>
  BY DEF Process, UseCpu, Exit, Fork, vars
<1> USE <1>1 DEF listVars, taskVars, timerVars, modVars, cleanVars
<1>2. /\ Linked' = Linked /\ \A n : Live(n)' <=> Live(n)
      /\ Addressed' /\ (DoublyLinked => DoublyLinked') /\ (AllReached => AllReached')
  BY PointersKept
<1>3. alive' \subseteq Pids /\ utime' \in [Pids -> 0 .. MaxTime] /\ forks' \in 0 .. MaxForks
  BY KmlabAssumption DEF Process, UseCpu, Exit, Fork, vars, procVars, TypeOK
<1>4. TypeOK'
  BY <1>3 DEF TypeOK
<1>5. LockHeld' /\ WritersHold' /\ SoftirqApart' /\ CleanupOnEntry' /\ Unloading'
  BY DEF LockHeld, WritersHold, SoftirqApart, CleanupOnEntry, Unloading
<1>6. EntriesOwned' /\ Sound'
  BY <1>2 DEF EntriesOwned, Sound, CursorsLive, WorkAhead
<1>7. QED
  BY <1>2, <1>4, <1>5, <1>6

\* Every step preserves the invariant.
LEMMA NextUInv == ~Smp /\ UInv /\ [Next]_vars => UInv'
  BY WriteUInv, ReadUInv, TimerUInv, UnloadUInv, ProcessUInv DEF Next

\* With one processor every reachable state satisfies the invariant.
THEOREM UniprocessorInvariance == ASSUME ~Smp PROVE Spec => []UInv
<1>1. UInv /\ [Next]_vars => UInv'
  BY NextUInv
<1>2. QED
  BY InitUInv, <1>1, PTL DEF Spec

-----------------------------------------------------------------------------
(* What follows for one processor. *)

\* Type correctness.
THEOREM TypeCorrect == ASSUME ~Smp PROVE Spec => []TypeOK
<1>1. UInv => TypeOK
  BY DEF UInv
<1>2. QED
  BY UniprocessorInvariance, <1>1, PTL

\* Until the unload the cursors of readers and of the timer never leave the list.
THEOREM CursorsStayLive == ASSUME ~Smp PROVE Spec => []CursorsLive
<1>1. UInv => CursorsLive
  BY DEF UInv, Sound
<1>2. QED
  BY UniprocessorInvariance, <1>1, PTL

\* No entry is lost on an error path, freed twice or added twice, the steps of an
\* unload included.
THEOREM NoLeak == ASSUME ~Smp PROVE Spec => []EntriesOwned
<1>1. UInv => EntriesOwned
  BY DEF UInv
<1>2. QED
  BY UniprocessorInvariance, <1>1, PTL

\* Until the unload the list is a ring through its head in both directions, and nothing
\* in it has been freed.
THEOREM ListStaysIntact == ASSUME ~Smp PROVE Spec => []ListIntact
<1>1. UInv => ListIntact
  BY DEF UInv, Sound, EntriesOwned, ListIntact
<1>2. QED
  BY UniprocessorInvariance, <1>1, PTL

\* After the unload nothing of the module is left to run.
THEOREM Quiescence == ASSUME ~Smp PROVE Spec => []QuietWhenGone
<1>1. UInv => QuietWhenGone
  BY DEF UInv, TypeOK, LockHeld, Critical, Unloading, QuietWhenGone
<1>2. QED
  BY UniprocessorInvariance, <1>1, PTL

\* While the module is loaded the list loses an entry only to the exit of its
\* process.
THEOREM Registered == ASSUME ~Smp PROVE Spec => RegistrationsKept
<1> DEFINE Kept == mod = "loaded" =>
             \A e \in Linked : e \in Linked' \/ PID[e] \notin alive
<1>1. UInv /\ [Next]_vars => Kept
  <2> SUFFICES ASSUME UInv, [Next]_vars, mod = "loaded", NEW e \in Linked,
                      e \notin Linked'
               PROVE  PID[e] \notin alive
    OBVIOUS
  <2> USE KmlabAssumption DEF UInv, Sound
  <2>1. ~UNCHANGED <<next, prev>>
    BY DEF Linked
  <2>2. ASSUME NEW t \in Tasks, WriteAdd(t) PROVE FALSE
    <3>1. new[t] \in Entries /\ new[t] \notin Linked /\ ListAdd(new[t])
      BY <2>1, <2>2 DEF WriteAdd, WritersHold, EntriesOwned, TypeOK, Crash, listVars
    <3>2. Linked' = Linked \cup {new[t]}
      BY <3>1, UInvLockType, AddLinks
    <3>3. QED
      BY <3>2
  <2>3. WorkEntry
    BY <2>1, <2>2 DEF Next, Write, WriteEnter, WriteReject, WriteParse, WriteLock,
          WriteUnlock, Read, ReadEnter, ReadLock, ReadLine, ReadUnlock, ReadReturn,
          ReadGone, Timer, TimerFire, WorkDone, Unload, Rmmod, Cleanup, CleanupLoadPrev,
          CleanupLoadNext, CleanupSetPrev, CleanupSetNext, CleanupFree, CleanupAdvance, CleanupStep,
          CleanupCrash, CleanupDone, ProcRemove, ProcDrained, DelTimer, Process, UseCpu,
          Exit, Fork, Crash, listVars, vars
  <2>4. ListDel(tcur) /\ tcur \in Linked /\ ~Exists(PID[tcur])
    BY <2>1, <2>3 DEF WorkEntry, Live, Linked, Crash, listVars
  <2>5. Linked' = Linked \ {tcur}
    BY <2>4, UInvLockType, DelLinks
  <2>6. QED
    BY <2>4, <2>5 DEF Exists
<1>2. QED
  BY UniprocessorInvariance, <1>1, PTL DEF RegistrationsKept, Spec

-----------------------------------------------------------------------------
(* What a pass of work_function leaves behind, with one processor. *)

\* The entry of a process that exists, with the CPU time it has now.
Exact(e) == PID[e] \in alive /\ cpuTime[e] = utime[PID[e]]

\* tcur and all that follows it up to the head: what the pass has still to meet.
FromCursor(S) ==
    S \in SUBSET Nodes /\ tcur \in S /\ \A n \in S : n # Head => next[n] \in S

\* What it has met is exact.
Visited ==
    tpc = "work" /\ mod = "loaded" =>
        \A S \in SUBSET Nodes : FromCursor(S) => \A e \in Linked \ S : Exact(e)

\* Nothing but the pass runs until it is over, and a turn of its loop makes one more
\* entry exact or removes it.
LEMMA VisitedStep == ~Smp /\ UInv /\ Visited /\ [Next]_vars => Visited'
<1> SUFFICES ASSUME ~Smp, UInv, Visited, [Next]_vars, tpc' = "work", mod' = "loaded",
                    NEW S \in SUBSET Nodes, FromCursor(S)', NEW e \in Linked' \ S
             PROVE  Exact(e)'
  BY DEF Visited
<1> USE KmlabAssumption
<1>0. mod = "loaded" /\ ~Crash
  BY DEF Next, Write, WriteEnter, WriteReject, WriteParse, WriteLock, WriteAdd,
         WriteUnlock, Read, ReadEnter, ReadLock, ReadLine, ReadUnlock, ReadReturn,
         ReadGone, Timer, TimerFire, WorkEntry, WorkDone, Unload, Rmmod, Cleanup,
         CleanupLoadPrev, CleanupLoadNext, CleanupSetPrev, CleanupSetNext, CleanupFree,
         CleanupAdvance, CleanupStep, CleanupCrash, CleanupDone, ProcRemove,
         ProcDrained, DelTimer, Process, UseCpu, Exit, Fork, Crash, modVars, vars
<1>1. CASE UNCHANGED vars
  BY <1>0, <1>1 DEF Visited, FromCursor, Linked, Exact, vars, listVars, timerVars,
                    procVars
<1>2. CASE TimerFire
  <2>1. next[Head] \in S /\ (\A n \in S : n # Head => next[n] \in S) /\ e \in Linked
    BY <1>0, <1>2 DEF TimerFire, FromCursor, Linked, listVars
  <2>2. \A n \in S \cup {Head} : next[n] \in S \cup {Head}
    BY <2>1
  <2>3. S \cup {Head} \in SUBSET Nodes
    BY DEF Nodes
  <2>4. e \in S \cup {Head} /\ e # Head
    BY <1>0, <2>1, <2>2, <2>3 DEF UInv, Sound, AllReached, Linked
  <2>5. QED
    BY <2>4
<1>3. CASE WorkEntry
  <2> DEFINE c == tcur
  <2>1. /\ tpc = "work" /\ c # Head /\ Live(c) /\ Live(ttmp)
        /\ tcur' = ttmp /\ UNCHANGED <<PID, procVars>>
        /\ IF Exists(PID[c])
             THEN /\ cpuTime' = [cpuTime EXCEPT ![c] = utime[PID[c]]]
                  /\ UNCHANGED <<next, prev, alloc>>
             ELSE ListDel(c) /\ UNCHANGED cpuTime
    BY <1>0, <1>3 DEF WorkEntry
  <2>2. /\ c \in Linked /\ c \in Entries /\ c \in Nodes /\ ttmp = next[c]
        /\ cpuTime \in [Entries -> 0 .. MaxTime]
    BY <1>0, <2>1 DEF UInv, Sound, WorkAhead, Live, Linked, Nodes, TypeOK
  <2>3. S \cup {c} \in SUBSET Nodes /\ ttmp \in S
        /\ \A n \in S : n # Head => next'[n] \in S
    BY <2>1, <2>2 DEF FromCursor
  <2>4. ASSUME FromCursor(S \cup {c}), e \in Linked, e # c PROVE Exact(e)
    BY <1>0, <2>1, <2>3, <2>4 DEF Visited
  <2>5. CASE Exists(PID[c])
    <3>1. FromCursor(S \cup {c}) /\ e \in Linked
      BY <2>1, <2>2, <2>3, <2>5 DEF FromCursor, Linked
    <3>2. CASE e = c
      <4>1. cpuTime'[c] = utime[PID[c]] /\ PID[c] \in alive
        BY <2>1, <2>2, <2>5 DEF Exists
      <4>2. QED
        BY <2>1, <3>2, <4>1 DEF Exact, procVars
    <3>3. CASE e # c
      <4>1. Exact(e)
        BY <2>4, <3>1, <3>3
      <4>2. cpuTime'[e] = cpuTime[e]
        BY <2>1, <2>2, <2>5, <3>1, <3>3 DEF Linked
      <4>3. QED
        BY <2>1, <4>1, <4>2 DEF Exact, procVars
    <3>4. QED
      BY <3>2, <3>3
  <2>6. CASE ~Exists(PID[c])
    <3>1. /\ ListDel(c) /\ UNCHANGED cpuTime
          /\ Linked' = Linked \ {c} /\ next[prev[c]] = c
          /\ prev[c] \in Nodes /\ prev[c] # c /\ Poison \notin Nodes
      <4>1. ListDel(c) /\ UNCHANGED cpuTime
        BY <2>1, <2>6
      <4>2. next[prev[c]] = c /\ prev[c] \in Nodes /\ Poison \notin Nodes
        BY <1>0, <2>2 DEF UInv, Sound, DoublyLinked, Live, Linked, Nodes
      <4>3. next[c] # c
        BY <1>0, <2>2, NoLoop DEF UInv, Sound
      <4>4. Linked' = Linked \ {c}
        BY <1>0, <2>2, <4>1, UInvLockType, DelLinks DEF UInv, Sound
      <4>5. QED
        BY <4>1, <4>2, <4>3, <4>4
    <3>2. /\ next'[c] = Poison
          /\ \A n \in Nodes : n # prev[c] /\ n # c => next'[n] = next[n]
      BY <2>2, <3>1, UInvLockType DEF ListDel, PtrType
    <3>3. c \notin S
      BY <2>1, <2>3, <3>1, <3>2
    <3>4. FromCursor(S \cup {c})
      BY <2>2, <2>3, <3>1, <3>2, <3>3 DEF FromCursor
    <3>5. Exact(e)
      BY <2>4, <3>1, <3>4
    <3>6. QED
      BY <2>1, <3>1, <3>5 DEF Exact, procVars
  <2>7. QED
    BY <2>5, <2>6
<1>4. ASSUME tpc = "idle" PROVE TimerFire \/ UNCHANGED vars
  BY <1>0, <1>4 DEF Next, Write, WriteEnter, WriteReject, WriteParse, WriteLock, WriteAdd,
         WriteUnlock, Read, ReadEnter, ReadLock, ReadLine, ReadUnlock, ReadReturn,
         ReadGone, Timer, WorkEntry, WorkDone, Unload, Rmmod, Cleanup, CleanupLoadPrev,
         CleanupLoadNext, CleanupSetPrev, CleanupSetNext, CleanupFree, CleanupAdvance,
         CleanupStep, CleanupCrash, CleanupDone, ProcRemove, ProcDrained, DelTimer,
         Process, UseCpu, Exit, Fork, timerVars
<1>5. ASSUME tpc = "work" PROVE WorkEntry \/ UNCHANGED vars
  <2>1. ASSUME NEW t \in Tasks PROVE ~Write(t) /\ ~Read(t)
    BY <1>5 DEF Write, WriteEnter, WriteReject, WriteParse, WriteLock, WriteAdd,
         WriteUnlock, Read, ReadEnter, ReadLock, ReadLine, ReadUnlock, ReadReturn,
         ReadGone, TaskMayRun
  <2>2. ~Unload /\ ~Process
    BY <1>5 DEF Unload, Rmmod, Cleanup, CleanupLoadPrev, CleanupLoadNext, CleanupSetPrev,
         CleanupSetNext, CleanupFree, CleanupAdvance, CleanupStep, CleanupCrash,
         CleanupDone, ProcRemove, ProcDrained, DelTimer, Process, UseCpu, Exit, Fork,
         TaskMayRun
  <2>3. QED
    BY <1>5, <2>1, <2>2 DEF Next, Timer, TimerFire, WorkDone
<1>6. tpc \in {"idle", "work"}
  BY DEF UInv, TypeOK
<1>7. QED
  BY <1>1, <1>2, <1>3, <1>4, <1>5, <1>6

\* After a pass the list holds processes that exist only, each with its CPU time.
THEOREM PassesAreExact == ASSUME ~Smp PROVE Spec => PassIsExact
<1>1. Init => Visited
  BY DEF Init, Visited
<1>2. UInv /\ Visited /\ [Next]_vars => Visited'
  BY VisitedStep
<1>3. UInv /\ Visited => (mod = "loaded" /\ WorkDone => \A e \in Linked : Exact(e))
  <2> SUFFICES ASSUME Visited, mod = "loaded", WorkDone, NEW e \in Linked PROVE Exact(e)
    OBVIOUS
  <2>1. FromCursor({Head}) /\ e \notin {Head} /\ tpc = "work"
    BY KmlabAssumption DEF WorkDone, FromCursor, Linked, Nodes
  <2>2. QED
    BY <2>1 DEF Visited, FromCursor
<1>4. QED
  BY <1>1, <1>2, <1>3, UniprocessorInvariance, PTL DEF PassIsExact, Exact, Spec

-----------------------------------------------------------------------------
(* What a read returns, with any number of processors. *)

ReadType ==
    /\ pc \in [Tasks -> {"user"} \cup InWrite \cup InRead]
    /\ size \in [Tasks -> Nat]
    /\ got \in [Tasks -> Nat]

\* No step takes buf_size past the bounds.
LEMMA OvershootStep ==
    ReadType /\ ReadOvershoot /\ [Next]_vars => ReadType' /\ ReadOvershoot'
<1> SUFFICES ASSUME ReadType, ReadOvershoot, [Next]_vars
             PROVE  ReadType' /\ ReadOvershoot'
  OBVIOUS
<1> USE KmlabAssumption DEF ReadType, ReadOvershoot, InWrite, InRead
<1>1. ASSUME NEW t \in Tasks, Write(t) PROVE ReadType' /\ ReadOvershoot'
  BY <1>1 DEF Write, WriteEnter, WriteReject, WriteParse, WriteLock, WriteAdd,
              WriteUnlock, Crash, taskVars
<1>2. ASSUME NEW t \in Tasks, Read(t) PROVE ReadType' /\ ReadOvershoot'
  <2>1. CASE ReadEnter(t)
    <3>1. PICK s \in IF cat[t] THEN {size[t]} ELSE ReadSizes :
             size' = [size EXCEPT ![t] = s]
      BY <2>1 DEF ReadEnter
    <3>2. s \in Nat
      BY <3>1
    <3>3. got' = [got EXCEPT ![t] = 0] /\ pc' = [pc EXCEPT ![t] = "read_lock"]
      BY <2>1 DEF ReadEnter
    <3>4. QED
      BY <3>1, <3>2, <3>3
  <2>2. CASE ReadLine(t) /\ ~Crash
    <3>1. /\ got' = [got EXCEPT ![t] = Snprintf(got[t])]
          /\ pc[t] = "read_iter" /\ got[t] < size[t] /\ UNCHANGED <<pc, size>>
      BY <2>2 DEF ReadLine
    <3>2. /\ Snprintf(got[t]) \in Nat /\ Snprintf(got[t]) < size[t] + LineLen
          /\ Snprintf(got[t]) <= Cap + LineLen
      BY <3>1 DEF Snprintf
    <3>3. QED
      BY <3>1, <3>2
  <2>3. CASE Crash
    BY <2>3 DEF Crash, taskVars
  <2>4. CASE ReadLock(t) \/ ReadUnlock(t) \/ ReadReturn(t) \/ ReadGone(t)
    BY <2>4 DEF ReadLock, ReadUnlock, ReadReturn, ReadGone
  <2>5. QED
    BY <1>2, <2>1, <2>2, <2>3, <2>4 DEF Read
<1>3. CASE Timer \/ Unload \/ Process \/ UNCHANGED vars
  <2>1. UNCHANGED <<pc, size, got>>
    BY <1>3 DEF Timer, TimerFire, WorkEntry, WorkDone, Unload, Rmmod, Cleanup,
          CleanupLoadPrev, CleanupLoadNext, CleanupSetPrev, CleanupSetNext, CleanupFree,
          CleanupAdvance, CleanupStep, CleanupCrash, CleanupDone, ProcRemove, ProcDrained, DelTimer, Process, UseCpu, Exit, Fork,
          Crash, taskVars, vars
  <2>2. QED
    BY <2>1
<1>4. QED
  BY <1>1, <1>2, <1>3 DEF Next

\* A read overshoots its buffer and PROCFS_MAX_SIZE by less than a line each.
THEOREM Overshoot == Spec => []ReadOvershoot
<1>1. Init => ReadType /\ ReadOvershoot
  BY KmlabAssumption DEF Init, ReadType, ReadOvershoot, InRead
<1>2. QED
  BY <1>1, OvershootStep, PTL DEF Spec
=============================================================================
