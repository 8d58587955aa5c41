----------------------------- MODULE AtomicFile -----------------------------
(***************************************************************************)
(* fsutil.atomic_write_bytes: one file, replaced as a whole by several     *)
(* processes that may fail, die, or lose power between any two steps.      *)
(*                                                                         *)
(*   mkstemp -> write -> flush, fsync -> [Windows: unlink] -> os.replace   *)
(*                                                                         *)
(* A rename is seen by every process at once, and reaches the disk some    *)
(* time later: nothing syncs the directory.                                *)
(***************************************************************************)
CONSTANT Process  \* the processes that write the file

(* Contents are told apart by their kind; these two nobody writes. *)
Absent == [kind |-> "absent"]  \* no file
Torn == [kind |-> "torn"]      \* the part of a write that reached the disk
Whole(d) == d.kind \notin {"absent", "torn"}

VARIABLES
    windows,    \* _IS_WINDOWS
    file,       \* what a process that reads the path finds
    survivors,  \* what may be found there after a loss of power
    temp        \* the temporary file of each process

fileVars == <<windows, file, survivors, temp>>

NoPart == [at |-> "none"]

InitFile(contents) ==
    /\ windows \in BOOLEAN
    /\ file \in contents /\ survivors = {file}
    /\ temp = [p \in Process |-> NoPart]

Has(p, at) == temp[p].at = at
Writing(p) == temp[p] # NoPart

Make(p, d) ==
    /\ temp[p] = NoPart
    /\ temp' = [temp EXCEPT ![p] = [at |-> "made", data |-> d, synced |-> FALSE]]
    /\ UNCHANGED <<windows, file, survivors>>

WriteOut(p) ==
    /\ Has(p, "made")
    /\ temp' = [temp EXCEPT ![p].at = "written"]
    /\ UNCHANGED <<windows, file, survivors>>

SyncNothing(p) ==
    /\ Has(p, "written")
    /\ temp' = [temp EXCEPT ![p].at = "synced"]
    /\ UNCHANGED <<windows, file, survivors>>
Sync(p) ==
    /\ Has(p, "written")
    /\ temp' = [temp EXCEPT ![p].at = "synced", ![p].synced = TRUE]
    /\ UNCHANGED <<windows, file, survivors>>

(* Windows cannot rename onto an existing file: it is removed first. *)
ClearAlways(p) ==
    /\ Has(p, "synced")
    /\ file' = Absent /\ survivors' = survivors \cup {Absent}
    /\ temp' = [temp EXCEPT ![p].at = "cleared"]
    /\ UNCHANGED windows
Clear(p) ==
    /\ Has(p, "synced") /\ windows
    /\ file' = Absent /\ survivors' = survivors \cup {Absent}
    /\ temp' = [temp EXCEPT ![p].at = "cleared"]
    /\ UNCHANGED windows

Replace(p) ==
    /\ Has(p, IF windows THEN "cleared" ELSE "synced")
    /\ file' = temp[p].data
    /\ survivors' = survivors \cup {IF temp[p].synced THEN temp[p].data ELSE Torn}
    /\ temp' = [temp EXCEPT ![p] = NoPart]
    /\ UNCHANGED windows

(* A step raises: the temporary file is removed, the exception goes on. *)
FailKeepingPart(p) ==
    /\ Writing(p)
    /\ UNCHANGED fileVars
Fail(p) ==
    /\ Writing(p)
    /\ temp' = [temp EXCEPT ![p] = NoPart]
    /\ UNCHANGED <<windows, file, survivors>>

(* The process dies.  Its temporary file stays, under a name that nothing  *)
(* ever reads, and is left out from here on.                               *)
Die(p) ==
    /\ temp' = [temp EXCEPT ![p] = NoPart]
    /\ UNCHANGED <<windows, file, survivors>>

(* The system writes its buffers back in its own time. *)
WriteBack ==
    /\ survivors' = {file}
    /\ UNCHANGED <<windows, file, temp>>

PowerLoss ==
    /\ file' \in survivors /\ survivors' = {file'}
    /\ temp' = [p \in Process |-> NoPart]
    /\ UNCHANGED windows

-----------------------------------------------------------------------------
FileTypeOK ==
    /\ windows \in BOOLEAN
    /\ file \in survivors
    /\ \A q \in Process : Writing(q) =>
        /\ temp[q].at \in {"made", "written", "synced", "cleared"}
        /\ temp[q].at = "cleared" => windows
        /\ Whole(temp[q].data)

(* No reader, before or after a crash or a loss of power, finds a file     *)
(* that was written in part ("a crash mid-write must never leave a         *)
(* half-written keystore", fsutil.py:4).                                   *)
NeverTorn == Torn \notin survivors \cup {file}
=============================================================================
