------------------------------ MODULE RunIndex ------------------------------
(***************************************************************************)
(* The index of finished runs that all forge processes of a user share     *)
(* (perceptshift_forge/runs/storage.py): index_run reads index.json, adds  *)
(* the run and replaces the file through write_atomic_text                 *)
(* (perceptshift_common/hashing.py), which writes <path>.tmp and renames   *)
(* it.  There is no lock and every writer uses the same temporary name, so *)
(* writers that overlap work on one temporary file: the rename of the one  *)
(* publishes the file that the other has open.                             *)
(***************************************************************************)
CONSTANTS
  Writers,     (* processes that can be in index_run at the same time      *)
  EntryOf,     (* the run each of them indexes                             *)
  Absent,      (* there is no such file                                    *)
  Torn         (* a truncated file, which does not parse                   *)

VARIABLES
  index,       (* index.json: the set of listed runs, or Absent or Torn    *)
  indexTmp,    (* index.json.tmp, likewise                                 *)
  handle,      (* the file a writer has open: none, tmp, index (renamed    *)
               (* under it), gone (renamed and replaced)                   *)
  indexing,    (* of each writer: idle, read, opened, written              *)
  listing,     (* the runs it will write                                   *)
  overlapped   (* two writers have been in index_run together              *)

indexVars == <<index, indexTmp, handle, indexing, listing, overlapped>>

Runs == {EntryOf[w] : w \in Writers}
Contents == (SUBSET Runs) \cup {Torn}

(* A missing file and a truncated one are no lists of runs. *)
ASSUME IndexAssumption ==
  Absent # Torn /\ \A runs \in SUBSET Runs : runs \notin {Absent, Torn}

IndexTypeOK ==
  /\ index \in Contents \cup {Absent} /\ indexTmp \in Contents \cup {Absent}
  /\ handle \in [Writers -> {"none", "tmp", "index", "gone"}]
  /\ indexing \in [Writers -> {"idle", "read", "opened", "written"}]
  /\ listing \in [Writers -> SUBSET Runs]
  /\ overlapped \in BOOLEAN

IndexInit ==
  /\ index = Absent /\ indexTmp = Absent
  /\ handle   = [w \in Writers |-> "none"]
  /\ indexing = [w \in Writers |-> "idle"]
  /\ listing  = [w \in Writers |-> {}]
  /\ overlapped = FALSE

Listed == IF index \in {Absent, Torn} THEN {} ELSE index

(* load_index, and the entries with the run's own replaced.  A torn file    *)
(* raises instead.                                                          *)
ReadIndex(w) ==
  /\ indexing[w] = "idle" /\ index # Torn
  /\ indexing' = [indexing EXCEPT ![w] = "read"]
  /\ listing' = [listing EXCEPT ![w] = Listed \cup {EntryOf[w]}]
  /\ overlapped' = (overlapped \/ \E v \in Writers : indexing[v] # "idle")
  /\ UNCHANGED <<index, indexTmp, handle>>

(* Deviation: the index is written in place. *)
OpenInPlace(w) ==
  /\ indexing[w] = "read"
  /\ indexing' = [indexing EXCEPT ![w] = "opened"]
  /\ handle' = [handle EXCEPT ![w] = "index"]
  /\ index' = Torn
  /\ UNCHANGED <<indexTmp, listing, overlapped>>

(* Opening the temporary file for writing truncates whatever is there. *)
OpenTmp(w) ==
  /\ indexing[w] = "read"
  /\ indexing' = [indexing EXCEPT ![w] = "opened"]
  /\ handle' = [handle EXCEPT ![w] = "tmp"]
  /\ indexTmp' = Torn
  /\ UNCHANGED <<index, listing, overlapped>>

(* The text reaches the file the handle is open on; over a longer text that *)
(* another writer has left there it does not make a document.               *)
WriteOut(w) ==
  /\ indexing[w] = "opened"
  /\ indexing' = [indexing EXCEPT ![w] = "written"]
  /\ handle' = [handle EXCEPT ![w] = "none"]
  /\ CASE handle[w] = "tmp" ->
            /\ indexTmp' \in {listing[w]} \cup
                             (IF indexTmp # Torn THEN {Torn} ELSE {})
            /\ UNCHANGED index
       [] handle[w] = "index" ->
            /\ index' \in {listing[w]} \cup
                          (IF index # Torn THEN {Torn} ELSE {})
            /\ UNCHANGED indexTmp
       [] OTHER -> UNCHANGED <<index, indexTmp>>
  /\ UNCHANGED <<listing, overlapped>>

Renamed(h) == CASE h = "tmp" -> "index" [] h = "index" -> "gone" [] OTHER -> h

(* Without a temporary file, which another writer has renamed, it raises. *)
ReplaceIndex(w) ==
  /\ indexing[w] = "written" /\ indexTmp # Absent
  /\ index' = indexTmp /\ indexTmp' = Absent
  /\ handle' = [v \in Writers |-> Renamed(handle[v])]
  /\ indexing' = [indexing EXCEPT ![w] = "idle"]
  /\ listing' = [listing EXCEPT ![w] = {}]
  /\ UNCHANGED overlapped

(* The writer raises or is killed: what it has written stays. *)
LeaveIndex(w) ==
  /\ indexing' = [indexing EXCEPT ![w] = "idle"]
  /\ handle' = [handle EXCEPT ![w] = "none"]
  /\ listing' = [listing EXCEPT ![w] = {}]
  /\ UNCHANGED <<index, indexTmp, overlapped>>

(* index_run cannot go on: JSONDecodeError, or FileNotFoundError. *)
IndexFails(w) ==
  \/ indexing[w] = "idle" /\ index = Torn
  \/ indexing[w] = "written" /\ indexTmp = Absent

IndexNext ==
  \E w \in Writers : \/ ReadIndex(w) \/ OpenTmp(w) \/ WriteOut(w)
                     \/ ReplaceIndex(w) \/ LeaveIndex(w)

IndexSpec == IndexInit /\ [][IndexNext]_indexVars
------------------------------------------------------------------------------
(* As long as no two writers have been in index_run together, the index is  *)
(* replaced only by a document that lists every run listed before: neither  *)
(* a kill between two writes nor another run costs a finished run its entry.*)
IndexOnlyGrows ==
  [][~overlapped' => /\ index' \notin {Absent, Torn}
                     /\ Listed \subseteq index']_index
==============================================================================
