------------------------------- MODULE RunLock -------------------------------
(***************************************************************************)
(* The run lock of a forge workspace (run.lock in                          *)
(* perceptshift_forge/orchestration/__init__.py): a file with the pid of   *)
(* the process that works on the run.  Acquiring it is a check followed by *)
(* a separate write, so two processes can pass the check together; raced   *)
(* records that this has happened.                                         *)
(***************************************************************************)
CONSTANTS
  Procs,   (* forge processes                                        *)
  Free,    (* there is no lock file                                  *)
  Stale    (* the lock file names a process that is no longer alive  *)

ASSUME LockAssumption == Free \notin Procs /\ Stale \notin Procs

VARIABLES
  lock,    (* what the lock file says                                *)
  stage,   (* of each process: out, checked (saw no live owner), in  *)
  raced    (* some process took the lock away from a live owner      *)

lockVars == <<lock, stage, raced>>

LockTypeOK ==
  /\ lock \in Procs \cup {Free, Stale}
  /\ stage \in [Procs -> {"out", "checked", "in"}]
  /\ raced \in BOOLEAN

LockInit ==
  /\ lock = Free
  /\ stage = [p \in Procs |-> "out"]
  /\ raced = FALSE

(* The first half of _acquire_lock.  A process that finds a live owner gives *)
(* up with RUN_LOCK_HELD and leaves the file alone.                          *)
PassCheck(p) ==
  /\ stage[p] = "out"
  /\ lock \notin Procs
  /\ stage' = [stage EXCEPT ![p] = "checked"]
  /\ UNCHANGED <<lock, raced>>

(* The second half: the file is replaced whatever it says by now. *)
WriteLock(p) ==
  /\ stage[p] = "checked"
  /\ lock' = p
  /\ stage' = [stage EXCEPT ![p] = "in"]
  /\ raced' = (raced \/ lock \in Procs)

(* _release_lock unlinks the file whoever it names. *)
ReleaseLock(p) ==
  /\ stage[p] = "in"
  /\ lock' = Free
  /\ stage' = [stage EXCEPT ![p] = "out"]
  /\ UNCHANGED raced

(* The process is killed: its pid is gone, the file stays. *)
Die(p) ==
  /\ stage' = [stage EXCEPT ![p] = "out"]
  /\ lock' = IF lock = p THEN Stale ELSE lock
  /\ UNCHANGED raced

LockNext ==
  \E p \in Procs : PassCheck(p) \/ WriteLock(p) \/ ReleaseLock(p) \/ Die(p)

LockSpec == LockInit /\ [][LockNext]_lockVars
------------------------------------------------------------------------------
(* As long as no process overwrote the lock of a live owner, at most one    *)
(* process works on the run: a refused process, a release and a crash never *)
(* open the door to a second one.                                           *)
OneExecutorUnlessRaced ==
  ~raced => \A p, q \in Procs : stage[p] = "in" /\ stage[q] = "in" => p = q

(* A lock that names a live process belongs to one that will release it: a  *)
(* run is never locked by a process that is not working on it, even after a *)
(* race.                                                                    *)
LockNamesWorker == lock \in Procs => stage[lock] = "in"
==============================================================================
