-------------------------- MODULE FileLeaseProofs --------------------------
(***************************************************************************)
(* The lock file of module FileLease implements the exclusive lease for    *)
(* any number of processes, any of which may die at any point.             *)
(*                                                                         *)
(* LockIsAttended with the type invariant is inductive: every step that    *)
(* enters or leaves an owning section takes or drops the lock with it.     *)
(* Two processes that work would then both own one lock.                   *)
(***************************************************************************)
EXTENDS FileLease, TLAPS

USE FileLeaseAssumption DEF FileLeaseAssumption

LeaseInv == FileLeaseTypeOK /\ LockIsAttended

\* What any step does to the lock and to the process that takes it: only one
\* process moves, and its lock follows its section.
StepOf(p) ==
    \/ Open(p) \/ Mark(p) \/ TryLock(p) \/ ReadHolder(p)
    \/ Truncate(p) \/ WriteName(p)
    \/ Unlock(p) \/ Close(p) \/ Probe(p) \/ ProbeDone(p) \/ Die(p)

\* FileLeaseRegistry starts with nothing held, on a file nobody has locked.
LEMMA LeaseInitInv == FileLeaseInit => LeaseInv
  BY DEF FileLeaseInit, LeaseInv, FileLeaseTypeOK, LockIsAttended, Labels, Owning

\* Every file operation of acquire, release and holder_of, and a death, keeps
\* the types of the file and of the processes.
LEMMA StepKeepsType ==
    ASSUME FileLeaseTypeOK, NEW p \in Processes, StepOf(p)
    PROVE  FileLeaseTypeOK'
<1> USE DEF FileLeaseTypeOK, Move, Labels
<1>1. CASE Open(p)       BY <1>1 DEF Open
<1>2. CASE Mark(p)       BY <1>2 DEF Mark
<1>3. CASE TryLock(p)    BY <1>3 DEF TryLock
<1>4. CASE ReadHolder(p) BY <1>4 DEF ReadHolder
<1>5. CASE Truncate(p)   BY <1>5 DEF Truncate
<1>6. CASE WriteName(p)  BY <1>6 DEF WriteName
<1>7. CASE Unlock(p)     BY <1>7 DEF Unlock
<1>8. CASE Close(p)      BY <1>8 DEF Close
<1>9. CASE Probe(p)      BY <1>9 DEF Probe
<1>10. CASE ProbeDone(p) BY <1>10 DEF ProbeDone
<1>11. CASE Die(p)
  <2>1. deaths' \in 0..MaxDeaths
    <3>1. deaths \in 0..MaxDeaths /\ deaths < MaxDeaths /\ deaths' = deaths + 1
      BY <1>11 DEF Die
    <3> HIDE FileLeaseAssumption DEF FileLeaseTypeOK, Labels, Move
    <3>2. QED
      BY <3>1, FileLeaseAssumption DEF FileLeaseAssumption
  <2>2. lock' \in Processes \cup {Nobody}
    BY <1>11 DEF Die
  <2>3. pc' \in [Processes -> Labels]
    BY <1>11 DEF Die
  <2>4. QED
    BY <1>11, <2>1, <2>2, <2>3 DEF Die
<1>12. QED
  BY <1>1, <1>2, <1>3, <1>4, <1>5, <1>6, <1>7, <1>8, <1>9, <1>10, <1>11
     DEF StepOf

\* A step that enters a section under the lock finds it free and takes it, one
\* that leaves such a section gives it up (leases.py 186-239).
LEMMA StepKeepsLockAttended ==
    ASSUME LeaseInv, NEW p \in Processes, StepOf(p)
    PROVE  LockIsAttended'
<1> USE DEF LeaseInv, FileLeaseTypeOK, LockIsAttended, Move, Labels, Owning
<1>1. CASE Open(p)       BY <1>1 DEF Open
<1>2. CASE Mark(p)       BY <1>2 DEF Mark
<1>3. CASE TryLock(p)    BY <1>3 DEF TryLock
<1>4. CASE ReadHolder(p) BY <1>4 DEF ReadHolder
<1>5. CASE Truncate(p)   BY <1>5 DEF Truncate
<1>6. CASE WriteName(p)  BY <1>6 DEF WriteName
<1>7. CASE Unlock(p)     BY <1>7 DEF Unlock
<1>8. CASE Close(p)      BY <1>8 DEF Close
<1>9. CASE Probe(p)      BY <1>9 DEF Probe
<1>10. CASE ProbeDone(p) BY <1>10 DEF ProbeDone
<1>11. CASE Die(p)       BY <1>11 DEF Die
<1>12. QED
  BY <1>1, <1>2, <1>3, <1>4, <1>5, <1>6, <1>7, <1>8, <1>9, <1>10, <1>11
     DEF StepOf

\* The invariant of the lock file: types, and a lock that always has its
\* owner in a section which ends by unlocking.
THEOREM LeaseInvariance == FileLeaseSpec => []LeaseInv
<1>1. LeaseInv /\ [FileLeaseNext]_leaseVars => LeaseInv'
  <2> SUFFICES ASSUME LeaseInv, [FileLeaseNext]_leaseVars PROVE LeaseInv'
    OBVIOUS
  <2>1. ASSUME NEW p \in Processes, StepOf(p) PROVE LeaseInv'
    BY <2>1, StepKeepsType, StepKeepsLockAttended DEF LeaseInv
  <2>2. CASE UNCHANGED leaseVars
    BY <2>2 DEF leaseVars, LeaseInv, FileLeaseTypeOK, LockIsAttended
  <2>3. QED
    BY <2>1, <2>2 DEF FileLeaseNext, StepOf
<1>2. QED
  BY LeaseInitInv, <1>1, PTL DEF FileLeaseSpec

\* The variables of the lock file keep their types.
THEOREM FileLeaseTypeCorrect == FileLeaseSpec => []FileLeaseTypeOK
  BY LeaseInvariance, PTL DEF LeaseInv

\* No probe, refusal or death leaves the console locked with nobody there to
\* unlock it, and nobody works on it without the lock.
THEOREM LockIsAlwaysAttended == FileLeaseSpec => []LockIsAttended
  BY LeaseInvariance, PTL DEF LeaseInv

\* From the truncation on the file is clean but for marks that land late, and
\* the name written into it is the worker's.
NameInv ==
    /\ LeaseInv /\ NameIsHoldersOrSpoiled
    /\ \A p \in Processes : pc[p] = "write" => name \in {"none", "spoiled"}

\* Only the lock's owner truncates and writes, and a late mark spoils the name
\* rather than leave another one (leases.py 187-206).
THEOREM NameIsNeverAFormerHolders == FileLeaseSpec => []NameIsHoldersOrSpoiled
<1>1. FileLeaseInit => NameInv
  BY LeaseInitInv DEF FileLeaseInit, NameInv, NameIsHoldersOrSpoiled
<1>2. NameInv /\ LeaseInv' /\ [FileLeaseNext]_leaseVars => NameInv'
  <2> SUFFICES ASSUME NameInv, LeaseInv', [FileLeaseNext]_leaseVars PROVE NameInv'
    OBVIOUS
  <2>1. ASSUME NEW q \in Processes, StepOf(q) PROVE NameInv'
    <3>1. \A p \in Processes : p # q => pc'[p] = pc[p]
      BY <2>1 DEF StepOf, Open, Mark, TryLock, ReadHolder, Truncate, WriteName,
                  Unlock, Close, Probe, ProbeDone, Die, Move, NameInv, LeaseInv,
                  FileLeaseTypeOK
    <3>2. CASE Truncate(q) \/ WriteName(q)
      <4>1. \A p \in Processes : pc[p] \in Owning => p = q
        BY <3>2 DEF Truncate, WriteName, Move, NameInv, LeaseInv, LockIsAttended,
                    Owning
      <4>2. pc' = [pc EXCEPT ![q] = "write"] \/ pc' = [pc EXCEPT ![q] = "working"]
        BY <3>2 DEF Truncate, WriteName, Move
      <4>3. \A p \in Processes : p # q => pc'[p] \notin {"write", "working"}
        BY <3>1, <4>1 DEF Owning
      <4>4. pc'[q] = "write" => name' = "none"
        BY <3>2 DEF Truncate, WriteName, Move, NameInv, LeaseInv, FileLeaseTypeOK
      <4>5. pc'[q] = "working" => name' \in {q, "spoiled"}
        BY <3>2 DEF Truncate, WriteName, Move, NameInv, LeaseInv, FileLeaseTypeOK
      <4>6. QED
        BY <4>3, <4>4, <4>5 DEF NameInv, NameIsHoldersOrSpoiled
    <3>3. CASE ~(Truncate(q) \/ WriteName(q))
      <4>1. /\ pc'[q] \in {"write", "working"} => pc'[q] = pc[q]
            /\ name' \in {name, "spoiled"}
        BY <2>1, <3>3
        DEF StepOf, Open, Mark, TryLock, ReadHolder, Unlock, Close, Probe,
            ProbeDone, Die, Move, NameInv, LeaseInv, FileLeaseTypeOK
      <4>2. QED
        BY <3>1, <4>1 DEF NameInv, NameIsHoldersOrSpoiled
    <3>4. QED
      BY <3>2, <3>3
  <2>2. CASE UNCHANGED leaseVars
    BY <2>2 DEF leaseVars, NameInv, NameIsHoldersOrSpoiled
  <2>3. QED
    BY <2>1, <2>2 DEF FileLeaseNext, StepOf
<1>3. QED
  BY <1>1, <1>2, LeaseInvariance, PTL DEF FileLeaseSpec, NameInv

---------------------------------------------------------------------------

\* At most one process works under the lease.
LEMMA OneWorker ==
    ASSUME LeaseInv, NEW p \in Processes, NEW q \in Processes,
           pc[p] = "working", pc[q] = "working"
    PROVE  p = q
  BY DEF LeaseInv, LockIsAttended, Owning

\* The holder of the abstract lease is the process that works.
LEMMA HolderIsWorker ==
    ASSUME LeaseInv, NEW p \in Processes
    PROVE  Holder = p <=> pc[p] = "working"
<1>1. CASE \E q \in Processes : pc[q] = "working"
  <2>1. Holder \in Processes /\ pc[Holder] = "working"
    BY <1>1 DEF Holder
  <2>2. QED
    BY <2>1, OneWorker
<1>2. CASE ~\E q \in Processes : pc[q] = "working"
  BY <1>2 DEF Holder
<1>3. QED
  BY <1>1, <1>2

\* FileLeaseRegistry implements the exclusive lease: it passes from one
\* process to another only through nobody, by release or by death.
THEOREM ImplementsExclusiveLease == FileLeaseSpec => IsExclusiveLease
<1>1. FileLeaseInit => Lease!LeaseInit
  BY DEF FileLeaseInit, Holder, Lease!LeaseInit
<1>2. LeaseInv /\ LeaseInv' /\ [FileLeaseNext]_leaseVars => [Lease!LeaseNext]_Holder
  <2> SUFFICES ASSUME LeaseInv, LeaseInv', [FileLeaseNext]_leaseVars
               PROVE  Lease!LeaseNext \/ Holder' = Holder
    OBVIOUS
  <2>1. ASSUME NEW p \in Processes, StepOf(p)
        PROVE  Lease!LeaseNext \/ Holder' = Holder
    <3>1. \A q \in Processes : q # p => pc'[q] = pc[q]
      BY <2>1 DEF StepOf, Open, Mark, TryLock, ReadHolder, Truncate, WriteName,
                  Unlock, Close, Probe, ProbeDone, Die, Move, LeaseInv,
                  FileLeaseTypeOK
    <3>2. CASE pc[p] = "working" /\ pc'[p] # "working"
      <4>1. \A q \in Processes : pc'[q] # "working"
        BY <3>1, <3>2, OneWorker
      <4>2. Holder = p /\ Holder' = Nobody
        BY <3>2, <4>1, HolderIsWorker DEF Holder
      <4>3. QED
        BY <4>2 DEF Lease!LeaseNext, Lease!GiveUp
    <3>3. CASE pc[p] # "working" /\ pc'[p] = "working"
      <4>1. pc[p] = "write" /\ pc' = [pc EXCEPT ![p] = "working"]
        BY <2>1, <3>3 DEF StepOf, Open, Mark, TryLock, ReadHolder, Truncate,
                          WriteName, Unlock, Close, Probe, ProbeDone, Die, Move,
                          LeaseInv, FileLeaseTypeOK
      <4>2. lock = p
        BY <4>1 DEF LeaseInv, LockIsAttended, Owning
      <4>3. \A q \in Processes : pc[q] # "working"
        BY <3>3, <4>2 DEF LeaseInv, LockIsAttended, Owning
      <4>4. \A q \in Processes : pc'[q] = "working" <=> q = p
        BY <3>1, <3>3, <4>3
      <4>5. Holder' = p
        BY <4>4 DEF Holder
      <4>6. Holder = Nobody
        BY <4>3 DEF Holder
      <4>7. QED
        BY <4>5, <4>6 DEF Lease!LeaseNext, Lease!Take
    <3>4. CASE pc[p] = "working" <=> pc'[p] = "working"
      <4>1. \A q \in Processes : pc'[q] = "working" <=> pc[q] = "working"
        BY <3>1, <3>4
      <4>2. CASE \A q \in Processes : pc[q] # "working"
        BY <4>1, <4>2 DEF Holder
      <4>3. CASE \E q \in Processes : pc[q] = "working"
        <5>1. PICK q \in Processes : pc[q] = "working"
          BY <4>3
        <5>2. Holder = q
          BY <5>1, HolderIsWorker
        <5>3. \A r \in Processes : pc'[r] = "working" <=> r = q
          BY <4>1, <5>1, OneWorker
        <5>4. Holder' = q
          BY <5>3 DEF Holder
        <5>5. QED
          BY <5>2, <5>4
      <4>4. QED
        BY <4>2, <4>3
    <3>5. QED
      BY <3>2, <3>3, <3>4
  <2>2. CASE UNCHANGED leaseVars
    BY <2>2 DEF leaseVars, Holder
  <2>3. QED
    BY <2>1, <2>2 DEF FileLeaseNext, StepOf
<1>3. QED
  BY <1>1, <1>2, LeaseInvariance, PTL
     DEF FileLeaseSpec, IsExclusiveLease, Lease!LeaseSpec

=============================================================================
