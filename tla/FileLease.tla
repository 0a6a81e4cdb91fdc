------------------------------ MODULE FileLease ------------------------------
(***************************************************************************)
(* FileLeaseRegistry of src/src/wcd/leases.py: the console lease as a lock *)
(* of the operating system on one file, shared by independent controller   *)
(* processes.  Every file operation is a step of its own, so the processes *)
(* interleave between them; a process may die anywhere, and the system     *)
(* then drops its lock but keeps the file and what was written in it.      *)
(*                                                                         *)
(* Byte 0 of the file is the locked one, the rest names the holder.        *)
(***************************************************************************)
EXTENDS Naturals

CONSTANTS Processes,     \* the controller processes; also the holders' names
          Nobody,        \* no lock owner, no name
          MaxDeaths      \* bound on the deaths

ASSUME FileLeaseAssumption == Nobody \notin Processes /\ MaxDeaths \in Nat

VARIABLES
    pc,         \* where each process is
    lock,       \* the kernel lock's owner
    size,       \* the file: "absent", "empty", or "marked" once byte 0 is there
    name,       \* what is behind byte 0: a holder's metadata alone, "none", or
                \* "spoiled" by a mark, which no reader can parse
    told,       \* the holder a refused process was told, or "none"
    deaths

leaseVars == <<pc, lock, size, name, told, deaths>>

Labels == {"idle", "mark", "lock", "truncate", "write", "working",
           "unlocked", "refused", "probe", "probed", "dead"}

FileLeaseInit ==
    /\ pc = [p \in Processes |-> "idle"]
    /\ lock = Nobody
    /\ size = "absent" /\ name = "none"
    /\ told = [p \in Processes |-> "none"]
    /\ deaths = 0

Move(p, from, to) == pc[p] = from /\ pc' = [pc EXCEPT ![p] = to]

---------------------------------------------------------------------------
\* acquire.

\* It opens the file, or creates it; an empty one is to be marked with the
\* locked byte.
Open(p) ==
    /\ \/ size # "marked" /\ Move(p, "idle", "mark") /\ size' = "empty"
       \/ size = "marked" /\ Move(p, "idle", "lock") /\ UNCHANGED size
    /\ told' = [told EXCEPT ![p] = "none"]
    /\ UNCHANGED <<lock, name, deaths>>

\* The mark is appended without the lock.  The first one is byte 0; a later one
\* lands behind it, before or after another process's metadata, and makes what
\* is there unreadable until the next truncation.
Mark(p) ==
    /\ Move(p, "mark", "lock")
    /\ size' = "marked"
    /\ name' = IF size = "marked" THEN "spoiled" ELSE name
    /\ UNCHANGED <<lock, told, deaths>>

\* Mutant: an unreadable holder is taken for a dead one.
TryLockSteals(p) ==
    /\ \/ lock = Nobody /\ Move(p, "lock", "truncate") /\ lock' = p
       \/ /\ lock # Nobody /\ name \in {"none", "spoiled"}
          /\ Move(p, "lock", "truncate") /\ UNCHANGED lock
       \/ /\ lock # Nobody /\ name \notin {"none", "spoiled"}
          /\ Move(p, "lock", "refused") /\ UNCHANGED lock
    /\ UNCHANGED <<size, name, told, deaths>>

\* The lock is tried once, without waiting.
TryLock(p) ==
    /\ \/ lock = Nobody /\ Move(p, "lock", "truncate") /\ lock' = p
       \/ lock # Nobody /\ Move(p, "lock", "refused") /\ UNCHANGED lock
    /\ UNCHANGED <<size, name, told, deaths>>

\* A refused process reads the holder's name afterwards: "another process" if
\* it cannot be read.
ReadHolder(p) ==
    /\ Move(p, "refused", "idle")
    /\ told' = [told EXCEPT ![p] = IF name \in Processes THEN name
                                                         ELSE "another process"]
    /\ UNCHANGED <<lock, size, name, deaths>>

\* Mutant: the lease is handed out with the metadata of whoever had it before.
TruncateKeepsName(p) ==
    /\ Move(p, "truncate", "working")
    /\ UNCHANGED <<lock, size, name, told, deaths>>

\* With the lock held, the file is cut back to nothing but the mark.
Truncate(p) ==
    /\ Move(p, "truncate", "write")
    /\ name' = "none"
    /\ UNCHANGED <<lock, size, told, deaths>>

\* The metadata is appended behind whatever marks landed since the truncation
\* and flushed; the lease is active from here on.
WriteName(p) ==
    /\ Move(p, "write", "working")
    /\ name' = IF name = "none" THEN p ELSE "spoiled"
    /\ UNCHANGED <<lock, size, told, deaths>>

---------------------------------------------------------------------------
\* release, holder_of, death.

\* release: unlock, then close and forget.  The metadata stays.
Unlock(p) ==
    /\ Move(p, "working", "unlocked")
    /\ lock' = Nobody
    /\ UNCHANGED <<size, name, told, deaths>>

Close(p) ==
    /\ Move(p, "unlocked", "idle")
    /\ UNCHANGED <<lock, size, name, told, deaths>>

\* holder_of takes the lock for a moment to see whether it is free.
Probe(p) ==
    /\ lock = Nobody /\ size # "absent"
    /\ Move(p, "idle", "probed")
    /\ lock' = p
    /\ UNCHANGED <<size, name, told, deaths>>

\* Mutant: the probe forgets to unlock.
ProbeKeepsLock(p) ==
    /\ Move(p, "probed", "idle")
    /\ UNCHANGED <<lock, size, name, told, deaths>>

ProbeDone(p) ==
    /\ Move(p, "probed", "idle")
    /\ lock' = Nobody
    /\ UNCHANGED <<size, name, told, deaths>>

\* A process dies: its handles are closed, so its lock is gone.
Die(p) ==
    /\ deaths < MaxDeaths /\ pc[p] # "dead"
    /\ pc' = [pc EXCEPT ![p] = "dead"]
    /\ lock' = IF lock = p THEN Nobody ELSE lock
    /\ deaths' = deaths + 1
    /\ UNCHANGED <<size, name, told>>

FileLeaseNext ==
    \E p \in Processes :
        \/ Open(p) \/ Mark(p) \/ TryLock(p) \/ ReadHolder(p)
        \/ Truncate(p) \/ WriteName(p)
        \/ Unlock(p) \/ Close(p) \/ Probe(p) \/ ProbeDone(p) \/ Die(p)

FileLeaseSpec == FileLeaseInit /\ [][FileLeaseNext]_leaseVars

---------------------------------------------------------------------------
Owning == {"truncate", "write", "working", "probed"}

\* Type invariant.
FileLeaseTypeOK ==
    /\ pc \in [Processes -> Labels]
    /\ lock \in Processes \cup {Nobody}
    /\ size \in {"absent", "empty", "marked"}
    /\ name \in Processes \cup {"none", "spoiled"}
    /\ told \in [Processes -> Processes \cup {"none", "another process"}]
    /\ deaths \in 0..MaxDeaths

\* The kernel lock belongs to exactly the process that is in a section it will
\* leave by unlocking (or by dying): no probe, refusal or death leaves the
\* console locked with nobody there to unlock it, and nobody works without it.
LockIsAttended == \A p \in Processes : (lock = p) <=> (pc[p] \in Owning)

\* While a process works under the lease the file names that process, or, when
\* the mark of a concurrent first user landed late, on either side of its
\* writing, nobody: never a former holder, so an operator is not sent after the
\* wrong process.
NameIsHoldersOrSpoiled ==
    \A p \in Processes : pc[p] = "working" => name \in {p, "spoiled"}

Holder == IF \E p \in Processes : pc[p] = "working"
          THEN CHOOSE p \in Processes : pc[p] = "working" ELSE Nobody

Lease == INSTANCE ExclusiveLease WITH holder <- Holder

\* The lock file implements the exclusive lease.
IsExclusiveLease == Lease!LeaseSpec

=============================================================================
