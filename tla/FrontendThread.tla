--------------------------- MODULE FrontendThread ---------------------------
(***************************************************************************)
(* The life of a frontend's tuning thread (dvb-core/dvb_frontend.c): an    *)
(* open for writing starts it, it leaves and suspends the hardware some    *)
(* time after the last close, and dvb_unregister_frontend stops it before  *)
(* it frees everything.  Processes and the thread change places only where *)
(* they sleep: on fe->sem, on fe->wait_queue or on the I2C bus.            *)
(***************************************************************************)
EXTENDS Integers, FiniteSets, FiniteSetTheorems, TLAPS

CONSTANTS
  Users,           \* processes that use the device
  Patience,        \* polls without lock before recovery: 10 in the code
  ShutdownTimeout, \* dvb_shutdown_timeout
  Nobody           \* holds fe->sem when it is free

ASSUME ThreadAssumption ==
  /\ Patience \in Nat \ {0} /\ ShutdownTimeout \in Nat
  /\ Users \cap {Nobody, "thread"} = {}

VARIABLES
  upc,          \* where each process is
  writing,      \* who has the device open for writing, at most one
  writers,      \* dvbdev->writers: how many more may open it for writing
  expired,      \* is release_jiffies longer ago than the shutdown timeout?
  thread_pid,   \* # 0?
  exit,
  sem,          \* who holds fe->sem
  tpc,          \* where the thread is
  lost_sync,    \* lost_sync_count, up to Patience; -1 before the first tuning
  awake,        \* has the hardware been initialised and not suspended?
  can_recover,  \* FE_CAN_RECOVER of the driver
  driver        \* registered ("in"), waiting in dvb_frontend_stop, or freed

frontend == <<exit, lost_sync, can_recover>>
vars == <<upc, writing, writers, expired, thread_pid, sem, tpc, awake, driver, frontend>>

(* What ended the wait of dvb_frontend_stop, after which everything is      *)
(* freed: the thread's end or that there was none; a signal; or the thread  *)
(* itself while it tuned again.                                             *)
freed == {"gone", "interrupted", "retuned"}

(* dvb_register_frontend *)
Init ==
  /\ upc = [u \in Users |-> "out"] /\ writing = {} /\ tpc = "none"
  /\ writers = 1 /\ expired = TRUE
  /\ thread_pid = FALSE /\ exit = FALSE /\ lost_sync = 0
  /\ sem = Nobody /\ awake = FALSE /\ can_recover \in BOOLEAN
  /\ driver = "in"

Go(u, place) == upc' = [upc EXCEPT ![u] = place]

-----------------------------------------------------------------------------
(* dvb_generic_open, dvb_frontend_open and dvb_frontend_start: a thread that *)
(* is there and has not been told to exit is taken to be at work.           *)

OpenToRead(u) ==
  /\ upc[u] = "out" /\ driver = "in"
  /\ Go(u, "open")
  /\ UNCHANGED <<writing, writers, expired, thread_pid, sem, tpc, awake, driver, frontend>>
OpenToWrite(u) ==
  /\ upc[u] = "out" /\ driver = "in" /\ writers > 0
  /\ writers' = writers - 1
  /\ writing' = writing \cup {u}
  /\ Go(u, IF thread_pid /\ ~exit THEN "open" ELSE "starting")
  /\ UNCHANGED <<expired, thread_pid, sem, tpc, awake, driver, frontend>>

(* The thread starts with fe->sem held for it.  A signal or a lack of       *)
(* memory undoes the open.                                                  *)
Start(u) ==
  /\ upc[u] = "starting" /\ sem = Nobody
  /\ exit' = FALSE /\ thread_pid' = TRUE
  /\ sem' = "thread" /\ tpc' = "init"
  /\ Go(u, "open")
  /\ UNCHANGED <<writing, writers, expired, awake, driver, lost_sync, can_recover>>
StartFails(u) ==
  /\ upc[u] = "starting"
  /\ writers' = writers + 1
  /\ writing' = writing \ {u}
  /\ Go(u, "out")
  /\ UNCHANGED <<expired, thread_pid, sem, tpc, awake, driver, frontend>>

(* dvb_frontend_release *)
Close(u) ==
  /\ upc[u] = "open"
  /\ IF u \in writing THEN expired' = FALSE /\ writers' = writers + 1
                      ELSE UNCHANGED <<expired, writers>>
  /\ writing' = writing \ {u}
  /\ Go(u, "out")
  /\ UNCHANGED <<thread_pid, sem, tpc, awake, driver, frontend>>

(* dvb_frontend_ioctl: one that tunes (FE_SET_FRONTEND), or another *)
Ioctl(u) ==
  /\ upc[u] = "open" /\ ~exit /\ sem = Nobody
  /\ sem' = u
  /\ Go(u, "ioctl")
  /\ UNCHANGED <<writing, writers, expired, thread_pid, tpc, awake, driver, frontend>>
IoctlEnd(u) ==
  /\ upc[u] = "ioctl"
  /\ sem' = Nobody
  /\ lost_sync' \in {0, lost_sync}
  /\ Go(u, "open")
  /\ UNCHANGED <<writing, writers, expired, thread_pid, tpc, awake, driver, exit, can_recover>>

Expire == /\ writers = 1 /\ ~expired
          /\ expired' = TRUE
          /\ UNCHANGED <<upc, writing, writers, thread_pid, sem, tpc, awake, driver, frontend>>

-----------------------------------------------------------------------------
(* dvb_frontend_thread *)

Thread(from, to) == tpc = from /\ driver \notin freed /\ tpc' = to
Others == UNCHANGED <<upc, writing, writers, expired, exit, can_recover>>

is_exiting_told == exit  \* mutant: the shutdown timeout is ignored
is_exiting == exit \/ (writers = 1 /\ expired)

Initialise == /\ Thread("init", "test")
              /\ lost_sync' = -1 /\ awake' = TRUE
              /\ UNCHANGED <<thread_pid, sem, driver>> /\ Others
Sleep == /\ ~is_exiting /\ Thread("test", "asleep")
         /\ sem' = Nobody
         /\ UNCHANGED <<thread_pid, lost_sync, awake, driver>> /\ Others
Wake == /\ Thread("asleep", "locking")
        /\ UNCHANGED <<thread_pid, sem, lost_sync, awake, driver>> /\ Others

(* fe->sem is taken.  A frontend that has not been tuned yet is left alone. *)
Lock == /\ sem = Nobody
        /\ Thread("locking", IF lost_sync = -1 THEN "test"
                             ELSE IF is_exiting THEN "suspend" ELSE "status")
        /\ sem' = "thread"
        /\ UNCHANGED <<thread_pid, lost_sync, awake, driver>> /\ Others
ReadStatus ==
  \/ /\ Thread("status", "test")          \* locked
     /\ lost_sync' = 0
     /\ UNCHANGED <<thread_pid, sem, awake, driver>> /\ Others
  \/ /\ lost_sync' = IF lost_sync < Patience THEN lost_sync + 1 ELSE lost_sync
     /\ Thread("status", IF can_recover \/ lost_sync' < Patience THEN "test"
                         ELSE "recover")
     /\ UNCHANGED <<thread_pid, sem, awake, driver>> /\ Others

(* Whoever sleeps on fe->wait_queue goes on: dvb_frontend_stop returns and  *)
(* everything is freed.                                                     *)
wakened(by) == IF driver = "stopping" THEN by ELSE driver

(* dvb_frontend_recover tunes again and, in dvb_frontend_set_parameters,    *)
(* wakes fe->wait_queue.                                                    *)
Recover == /\ Thread("recover", "test")
           /\ driver' = wakened("retuned")
           /\ UNCHANGED <<thread_pid, sem, lost_sync, awake>> /\ Others

Leave == /\ is_exiting /\ Thread("test", "suspend")
         /\ UNCHANGED <<thread_pid, sem, lost_sync, awake, driver>> /\ Others
Suspend == /\ Thread("suspend", "leaving")
           /\ awake' = (awake /\ ShutdownTimeout = 0)
           /\ UNCHANGED <<thread_pid, sem, lost_sync, driver>> /\ Others
DieHolding ==  \* mutant: fe->sem is not given back
  /\ Thread("leaving", "none")
  /\ thread_pid' = FALSE
  /\ driver' = wakened("gone")
  /\ UNCHANGED <<sem, lost_sync, awake>> /\ Others
DieSilently ==  \* mutant: thread_pid stays
  /\ Thread("leaving", "none")
  /\ sem' = Nobody /\ driver' = wakened("gone")
  /\ UNCHANGED <<thread_pid, lost_sync, awake>> /\ Others
Die == /\ Thread("leaving", "none")
       /\ sem' = Nobody /\ thread_pid' = FALSE
       /\ driver' = wakened("gone")
       /\ UNCHANGED <<lost_sync, awake>> /\ Others

-----------------------------------------------------------------------------
(* dvb_unregister_frontend, while nobody has the device open, and the       *)
(* registration of the next driver                                          *)

UnregisterAtOnce ==  \* mutant: dvb_frontend_stop does not wait
  /\ driver = "in" /\ \A u \in Users : upc[u] = "out"
  /\ exit' = TRUE /\ driver' = "gone"
  /\ UNCHANGED <<upc, writing, writers, expired, thread_pid, sem, tpc, awake,
                 lost_sync, can_recover>>
(* dvb_frontend_stop waits for a thread that is there; it does not see      *)
(* whether that has gone when its sleep ends.                               *)
Unregister ==
  /\ driver = "in" /\ \A u \in Users : upc[u] = "out"
  /\ exit' = TRUE
  /\ driver' = IF thread_pid THEN "stopping" ELSE "gone"
  /\ UNCHANGED <<upc, writing, writers, expired, thread_pid, sem, tpc, awake,
                 lost_sync, can_recover>>
StopInterrupted ==
  /\ driver = "stopping" /\ driver' = "interrupted"
  /\ UNCHANGED <<upc, writing, writers, expired, thread_pid, sem, tpc, awake, frontend>>
Register ==
  /\ driver \in freed /\ driver' = "in" /\ tpc' = "none"
  /\ expired' = TRUE /\ thread_pid' = FALSE /\ exit' = FALSE /\ lost_sync' = 0
  /\ sem' = Nobody /\ awake' = FALSE /\ can_recover' \in BOOLEAN
  /\ UNCHANGED <<upc, writing, writers>>

Tuner == \/ Initialise \/ Sleep \/ Wake \/ Lock \/ ReadStatus \/ Recover
         \/ Leave \/ Suspend \/ Die
User(u) == \/ OpenToRead(u) \/ OpenToWrite(u) \/ Start(u) \/ StartFails(u)
           \/ Close(u) \/ Ioctl(u) \/ IoctlEnd(u)
Next == \/ Tuner \/ Expire \/ Unregister \/ StopInterrupted \/ Register
        \/ \E u \in Users : User(u)

(* fe->sem is granted in turn, the I2C bus answers, sleeps time out and the *)
(* clock goes on.  Nobody has to open, close or call anything.              *)
Fairness ==
  /\ WF_vars(Tuner) /\ SF_vars(Lock) /\ WF_vars(Expire)
  /\ \A u \in Users : SF_vars(Start(u)) /\ WF_vars(IoctlEnd(u))

Spec == Init /\ [][Next]_vars
FairSpec == Spec /\ Fairness

-----------------------------------------------------------------------------
TypeOK ==
  /\ upc \in [Users -> {"out", "starting", "open", "ioctl"}]
  /\ writing \subseteq Users /\ writers \in 0 .. 1 /\ Cardinality(writing) = 1 - writers
  /\ {expired, thread_pid, exit, awake, can_recover} \subseteq BOOLEAN
  /\ sem \in Users \cup {Nobody, "thread"}
  /\ tpc \in {"none", "init", "test", "asleep", "locking", "status", "recover",
              "suspend", "leaving"}
  /\ lost_sync \in -1 .. Patience
  /\ driver \in {"in", "stopping"} \cup freed

(* thread_pid tells whether there is a thread: nobody starts a second one   *)
(* beside it, or waits for one that is no more.                             *)
PidNamesThread ==
  /\ driver \notin freed => (thread_pid <=> tpc # "none")
  /\ \A u \in Users : upc[u] = "starting" => ~thread_pid

(* dvb_unregister_frontend frees a driver under its running thread only     *)
(* when a signal cuts the wait of dvb_frontend_stop, or when the thread     *)
(* tunes again, which it never does for a driver with FE_CAN_RECOVER: then  *)
(* "thread PID %d won't exit" is printed and the thread goes on in what is  *)
(* freed.  However else the wait ends, the thread has ended.                *)
FreedAfterThread ==
  /\ driver \in freed /\ tpc # "none" => driver \in {"interrupted", "retuned"}
  /\ driver = "retuned" => ~can_recover

(* The hardware is not suspended while someone has the device open for      *)
(* writing: "wait <shutdown_timeout> seconds after close() before           *)
(* suspending hardware".                                                    *)
SuspendsOnlyUnused == [][awake /\ ~awake' => writing = {}]_vars

(* Once nobody writes any more, the hardware is suspended and stays so,     *)
(* whatever readers do.                                                     *)
SuspendedAfterClose ==
  <>[](writing = {} /\ driver = "in") => ShutdownTimeout = 0 \/ <>[]~awake

(* An open for writing returns: nobody keeps fe->sem, however the thread    *)
(* ends.                                                                    *)
OpenReturns == \A u \in Users : upc[u] = "starting" ~> upc[u] # "starting"

-----------------------------------------------------------------------------
(* Both invariants hold for any number of processes and any bounds.  They    *)
(* are inductive once it is known who may be where: only one writes, nobody  *)
(* is inside while the driver leaves, and the thread tells the driver to     *)
(* recover only if the driver never does so itself.                          *)

Places == {"out", "starting", "open", "ioctl"}
Threads == {"none", "init", "test", "asleep", "locking", "status", "recover",
            "suspend", "leaving"}

Typed ==
  /\ upc \in [Users -> Places]
  /\ expired \in BOOLEAN /\ thread_pid \in BOOLEAN /\ exit \in BOOLEAN
  /\ awake \in BOOLEAN /\ can_recover \in BOOLEAN
  /\ sem \in Users \cup {Nobody, "thread"}
  /\ tpc \in Threads
  /\ lost_sync \in -1 .. Patience
  /\ driver \in {"in", "stopping"} \cup freed

OneWriter ==
  \/ writers = 1 /\ writing = {}
  \/ writers = 0 /\ \E u \in Users : writing = {u}

WhoIsWhere ==
  /\ \A u \in Users : /\ upc[u] = "out" => u \notin writing
                      /\ upc[u] = "starting" => u \in writing
                      /\ driver # "in" => upc[u] = "out"
  /\ exit <=> driver # "in"
  /\ tpc = "recover" => ~can_recover

ThreadInv ==
  Typed /\ OneWriter /\ WhoIsWhere /\ PidNamesThread /\ FreedAfterThread

LEMMA ThreadInvInit == Init => ThreadInv
<1> SUFFICES ASSUME Init PROVE ThreadInv
  OBVIOUS
<1>1. lost_sync \in -1 .. Patience BY ThreadAssumption DEF Init
<1>2. can_recover \in BOOLEAN BY DEF Init
<1>3. Typed BY <1>1, <1>2 DEF Init, Typed, Places, Threads, freed
<1> QED BY <1>3 DEF Init, ThreadInv, OneWriter, WhoIsWhere, PidNamesThread, FreedAfterThread,
             freed

(* What a process does to the thread: only Start starts one, and only while  *)
(* there is none.                                                            *)
LEMMA UserKeepsThreadInv ==
  ASSUME ThreadInv, NEW u \in Users, User(u) PROVE ThreadInv'
<1> USE DEF ThreadInv, Typed, Places, Threads, OneWriter, WhoIsWhere, PidNamesThread,
            FreedAfterThread, Go, frontend, freed
<1>1. CASE OpenToRead(u) BY <1>1 DEF OpenToRead
<1>2. CASE OpenToWrite(u) BY <1>2 DEF OpenToWrite
<1>3. CASE Start(u) BY <1>3 DEF Start
<1>4. CASE StartFails(u) BY <1>4 DEF StartFails
<1>5. CASE Close(u)
  <2>1. OneWriter'
    <3>1. CASE u \in writing BY <1>5, <3>1 DEF Close
    <3>2. CASE u \notin writing BY <1>5, <3>2 DEF Close
    <3> QED BY <3>1, <3>2
  <2> QED BY <1>5, <2>1 DEF Close
<1>6. CASE Ioctl(u) BY <1>6 DEF Ioctl
<1>7. CASE IoctlEnd(u)
  <2>1. lost_sync' \in -1 .. Patience BY <1>7, ThreadAssumption DEF IoctlEnd
  <2> QED BY <1>7, <2>1 DEF IoctlEnd
<1> QED BY <1>1, <1>2, <1>3, <1>4, <1>5, <1>6, <1>7 DEF User

(* The thread itself changes its place; it frees the driver only where it is *)
(* not needed any more.                                                      *)
LEMMA TunerKeepsThreadInv ==
  ASSUME ThreadInv, Tuner PROVE ThreadInv'
<1> USE ThreadAssumption
    DEF ThreadInv, Typed, Places, Threads, OneWriter, WhoIsWhere, PidNamesThread,
        FreedAfterThread, Thread, Others, freed
<1>1. CASE Initialise BY <1>1 DEF Initialise
<1>2. CASE Sleep BY <1>2 DEF Sleep
<1>3. CASE Wake BY <1>3 DEF Wake
<1>4. CASE Lock BY <1>4 DEF Lock
<1>5. CASE ReadStatus BY <1>5 DEF ReadStatus
<1>6. CASE Recover BY <1>6 DEF Recover, wakened
<1>7. CASE Leave BY <1>7 DEF Leave
<1>8. CASE Suspend BY <1>8 DEF Suspend
<1>9. CASE Die BY <1>9 DEF Die, wakened
<1> QED BY <1>1, <1>2, <1>3, <1>4, <1>5, <1>6, <1>7, <1>8, <1>9 DEF Tuner

LEMMA ThreadInvStep == ThreadInv /\ [Next]_vars => ThreadInv'
<1> SUFFICES ASSUME ThreadInv, [Next]_vars PROVE ThreadInv'
  OBVIOUS
<1>1. CASE Tuner BY <1>1, TunerKeepsThreadInv
<1>2. CASE \E u \in Users : User(u) BY <1>2, UserKeepsThreadInv
<1> USE DEF ThreadInv, Typed, Places, Threads, OneWriter, WhoIsWhere, PidNamesThread,
            FreedAfterThread, frontend, freed
<1>3. CASE Expire BY <1>3 DEF Expire
<1>4. CASE Unregister BY <1>4 DEF Unregister
<1>5. CASE Register
  <2>1. lost_sync' \in -1 .. Patience BY <1>5, ThreadAssumption DEF Register
  <2>2. can_recover' \in BOOLEAN BY <1>5 DEF Register
  <2>3. Typed' BY <1>5, <2>1, <2>2 DEF Register
  <2>4. (OneWriter /\ WhoIsWhere /\ PidNamesThread /\ FreedAfterThread)' BY <1>5 DEF Register
  <2> QED BY <2>3, <2>4
<1>6. CASE UNCHANGED vars BY <1>6 DEF vars
<1>7. CASE StopInterrupted BY <1>7 DEF StopInterrupted
<1> QED BY <1>1, <1>2, <1>3, <1>4, <1>5, <1>6, <1>7 DEF Next

LEMMA ThreadInvHolds == Spec => []ThreadInv
BY ThreadInvInit, ThreadInvStep, PTL DEF Spec

(* Every variable keeps its type, and at most one process has the device     *)
(* open for writing.                                                         *)
THEOREM ThreadTypeCorrect == Spec => []TypeOK
<1>1. ThreadInv => TypeOK
  <2> SUFFICES ASSUME ThreadInv PROVE TypeOK
    OBVIOUS
  <2>1. /\ writing \subseteq Users /\ writers \in 0 .. 1
        /\ Cardinality(writing) = 1 - writers
    <3>1. CASE writers = 1 /\ writing = {} BY <3>1, FS_EmptySet
    <3>2. ASSUME writers = 0, NEW u \in Users, writing = {u}
          PROVE  /\ writing \subseteq Users /\ writers \in 0 .. 1
                 /\ Cardinality(writing) = 1 - writers
      BY <3>2, FS_Singleton
    <3> QED BY <3>1, <3>2 DEF ThreadInv, OneWriter
  <2> QED BY <2>1 DEF ThreadInv, Typed, Places, Threads, TypeOK, freed
<1> QED BY <1>1, ThreadInvHolds, PTL

(* thread_pid tells whether there is a thread, and an open never starts a    *)
(* second one beside it.                                                     *)
THEOREM PidAlwaysNamesThread == Spec => []PidNamesThread
<1>1. ThreadInv => PidNamesThread BY DEF ThreadInv
<1> QED BY <1>1, ThreadInvHolds, PTL

(* Unless a signal or the thread's own tuning ends its wait,                 *)
(* dvb_unregister_frontend frees nothing before the thread has ended; and    *)
(* the thread's tuning does so only for drivers without FE_CAN_RECOVER.      *)
THEOREM FreedAfterThreadUnlessWoken == Spec => []FreedAfterThread
<1>1. ThreadInv => FreedAfterThread BY DEF ThreadInv
<1> QED BY <1>1, ThreadInvHolds, PTL
=============================================================================
