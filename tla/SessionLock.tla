----------------------------- MODULE SessionLock -----------------------------
(***************************************************************************)
(* The read-write lock of crp/core/idempotency.py: a monitor with one      *)
(* condition variable, a count of readers, a writer flag and a count of    *)
(* waiting writers that keeps new readers out.  A step is one stay in the  *)
(* monitor, from the entry or a wake-up to the next wait or the exit.      *)
(* Acquires give up at a deadline, which is only looked at when the        *)
(* awaited condition does not hold.                                        *)
(***************************************************************************)
EXTENDS Integers, FiniteSets

CONSTANTS User,       \* the threads that use the lock
          MaxAcquires,\* bound on the number of acquire calls
          Patient     \* the threads whose acquires have no deadline

ASSUME SessionLockAssumption ==
    /\ IsFiniteSet(User)
    /\ MaxAcquires \in Nat
    /\ Patient \subseteq User

VARIABLES
    doing,         \* what each thread is doing with the lock
    late,          \* the waiting threads whose deadline has passed
    readers,       \* _readers
    writer,        \* _writer
    writerWaiting, \* _writer_waiting
    acquires       \* acquire calls so far

lockVars == <<doing, late, readers, writer, writerWaiting, acquires>>

(* Asleep in cond.wait(), or woken and about to look again. *)
WriteWait == {"writeAsleep", "writeWoken"}
ReadWait == {"readAsleep", "readWoken"}
Doing == {"out", "reading", "writing"} \cup WriteWait \cup ReadWait

In(S) == {t \in User : doing[t] \in S}

LockTypeOK ==
    /\ doing \in [User -> Doing]
    /\ late \subseteq In(WriteWait \cup ReadWait)
    /\ readers \in Nat
    /\ writer \in BOOLEAN
    /\ writerWaiting \in Nat
    /\ acquires \in Nat

LockInit ==
    /\ doing = [t \in User |-> "out"]
    /\ late = {}
    /\ readers = 0
    /\ writer = FALSE
    /\ writerWaiting = 0
    /\ acquires = 0

-----------------------------------------------------------------------------
Go(t, l) == doing' = [doing EXCEPT ![t] = l]

(* notify_all() by t, which itself goes on to l. *)
Woken(l) == IF l = "writeAsleep" THEN "writeWoken"
            ELSE IF l = "readAsleep" THEN "readWoken" ELSE l

WakeAll(t, l) ==
    doing' = [u \in User |-> IF u = t THEN l ELSE Woken(doing[u])]

Enter(t) ==
    /\ doing[t] = "out"
    /\ acquires < MaxAcquires
    /\ acquires' = acquires + 1

(* acquire_write(): on entry ... *)
WriteFree == ~writer /\ readers = 0

AcquireWrite(t) ==
    /\ Enter(t)
    /\ \/ /\ WriteFree
          /\ Go(t, "writing")
          /\ writer' = TRUE
          /\ UNCHANGED writerWaiting
       \/ /\ ~WriteFree
          /\ Go(t, "writeAsleep")
          /\ writerWaiting' = writerWaiting + 1
          /\ UNCHANGED writer
    /\ UNCHANGED <<late, readers>>

(* ... and after each wake-up.  Giving up notifies nobody. *)
RetryWrite(t) ==
    /\ doing[t] = "writeWoken"
    /\ \/ /\ WriteFree
          /\ Go(t, "writing")
          /\ writer' = TRUE
          /\ writerWaiting' = writerWaiting - 1
       \/ /\ ~WriteFree /\ t \in late
          /\ Go(t, "out")
          /\ writerWaiting' = writerWaiting - 1
          /\ UNCHANGED writer
       \/ /\ ~WriteFree /\ t \notin late
          /\ Go(t, "writeAsleep")
          /\ UNCHANGED <<writer, writerWaiting>>
    /\ late' = late \ {t}
    /\ UNCHANGED <<readers, acquires>>

Mut_ReleaseWrite(t) ==
    /\ doing[t] = "writing"
    /\ writer' = FALSE
    /\ \/ \E u \in In({"writeAsleep", "readAsleep"}) :
             doing' = [doing EXCEPT ![t] = "out", ![u] = Woken(doing[u])]
       \/ In({"writeAsleep", "readAsleep"}) = {} /\ Go(t, "out")
    /\ UNCHANGED <<late, readers, writerWaiting, acquires>>

ReleaseWrite(t) ==
    /\ doing[t] = "writing"
    /\ writer' = FALSE
    /\ WakeAll(t, "out")
    /\ UNCHANGED <<late, readers, writerWaiting, acquires>>

(* acquire_read(): on entry, and after each wake-up. *)
Mut_ReadFree == writerWaiting = 0

ReadFree == ~writer /\ writerWaiting = 0

AcquireRead(t) ==
    /\ Enter(t)
    /\ \/ ReadFree /\ Go(t, "reading") /\ readers' = readers + 1
       \/ ~ReadFree /\ Go(t, "readAsleep") /\ UNCHANGED readers
    /\ UNCHANGED <<late, writer, writerWaiting>>

RetryRead(t) ==
    /\ doing[t] = "readWoken"
    /\ \/ /\ ReadFree
          /\ Go(t, "reading")
          /\ readers' = readers + 1
       \/ /\ ~ReadFree /\ t \in late
          /\ Go(t, "out")
          /\ UNCHANGED readers
       \/ /\ ~ReadFree /\ t \notin late
          /\ Go(t, "readAsleep")
          /\ UNCHANGED readers
    /\ late' = late \ {t}
    /\ UNCHANGED <<writer, writerWaiting, acquires>>

(* release_read(): the last reader out wakes everybody. *)
Mut_ReleaseRead(t) ==
    /\ doing[t] = "reading"
    /\ readers' = IF readers > 0 THEN readers - 1 ELSE readers
    /\ Go(t, "out")
    /\ UNCHANGED <<late, writer, writerWaiting, acquires>>

ReleaseRead(t) ==
    /\ doing[t] = "reading"
    /\ readers' = IF readers > 0 THEN readers - 1 ELSE readers
    /\ IF readers' = 0 THEN WakeAll(t, "out") ELSE Go(t, "out")
    /\ UNCHANGED <<late, writer, writerWaiting, acquires>>

(* cond.wait(remaining) returns at the deadline. *)
Timeout(t) ==
    /\ t \notin Patient
    /\ \/ doing[t] = "writeAsleep" /\ Go(t, "writeWoken")
       \/ doing[t] = "readAsleep" /\ Go(t, "readWoken")
    /\ late' = late \cup {t}
    /\ UNCHANGED <<readers, writer, writerWaiting, acquires>>

LockNext ==
    \E t \in User : \/ AcquireWrite(t) \/ RetryWrite(t) \/ ReleaseWrite(t)
                    \/ AcquireRead(t) \/ RetryRead(t) \/ ReleaseRead(t)
                    \/ Timeout(t)

LockSpec == LockInit /\ [][LockNext]_lockVars

(* Woken threads run, and whoever holds the lock releases it. *)
Fairness ==
    \A t \in User : /\ WF_lockVars(RetryWrite(t) \/ RetryRead(t))
                    /\ WF_lockVars(ReleaseWrite(t) \/ ReleaseRead(t))

FairLockSpec == LockSpec /\ Fairness

-----------------------------------------------------------------------------
(* "a genuine shared lock: readers proceed concurrently, a writer excludes *)
(* everyone".                                                              *)
MutualExclusion ==
    \A t \in In({"writing"}), u \in In({"reading", "writing"}) : t = u

(* The flag and the counters say who holds the lock and who waits: a       *)
(* waiting count that leaked would keep every reader out for good.         *)
CountsAreExact ==
    /\ writer <=> In({"writing"}) # {}
    /\ readers = Cardinality(In({"reading"}))
    /\ writerWaiting = Cardinality(In(WriteWait))

(* No writer sleeps while the lock is free, with or without deadlines:     *)
(* the last holder woke it.                                                *)
NoWriterSleepsOnFreeLock == WriteFree => In({"writeAsleep"}) = {}

(* A reader asleep while nothing keeps it from the lock. *)
ReaderStranded == ReadFree /\ readers = 0 /\ In({"readAsleep"}) # {}

(* No wake-up of a reader is missed but one: a writer that gives up wakes  *)
(* nobody, so a reader it kept out may sleep on until its own deadline.    *)
OnlyGivingUpStrandsReaders ==
    [][~ReaderStranded /\ ReaderStranded' =>
          \E t \in late : RetryWrite(t) /\ doing'[t] = "out"]_lockVars

(* A writer without a deadline gets the lock in the end, whoever else      *)
(* times out.                                                              *)
PatientWritersSucceed ==
    \A t \in Patient : doing[t] \in WriteWait ~> doing[t] = "writing"
=============================================================================
