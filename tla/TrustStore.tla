----------------------------- MODULE TrustStore -----------------------------
(***************************************************************************)
(* contacts.json and the pending requests beside it, worked on by every    *)
(* process of one installation at once.  A process reads contacts.json     *)
(* when it starts, works on that copy, and saves by writing the whole copy *)
(* back.  The threads of the web process share one copy and no lock.       *)
(*                                                                         *)
(*   accept:  get --> check --> scan --> assign --> copy --> write         *)
(*                --> exists --> unlink                                    *)
(*   add:         check ...            learn:  learn --> assign ...        *)
(*   dismiss: exists --> unlink        remove: pop --> copy --> write      *)
(*   offer:   known --> room --> file                                      *)
(*                                                                         *)
(* A fingerprint commits to the keys and to the lower-cased address, so    *)
(* two bundles with one fingerprint differ in the spelling of the address. *)
(***************************************************************************)
EXTENDS Naturals, FiniteSets

CONSTANTS
    Bundle,       \* bundles: [fp |-> fingerprint, as |-> spelling]
    Initial,      \* contacts.json at first
    Waiting,      \* the pending requests at first
    Thread,       \* what works on the store
    Process,      \* the processes: disjoint sets of threads
    LongLived,    \* those that serve until they die: web, receive
    Command,      \* commands a thread may carry out: [op, bundle, replace]
    MaxPending,   \* MAX_PENDING
    (* Bounds for the model checker. *)
    MaxCommands, MaxFaults

Fps(store) == {b.fp : b \in store}
Functional(store) == \A b, c \in store : b.fp = c.fp => b = c
Ops == {"add", "accept", "dismiss", "remove", "learn", "offer"}

ASSUME InitialAssumption ==
    /\ \A store \in {Initial, Waiting} : store \subseteq Bundle /\ Functional(store)
    /\ IsFiniteSet(Waiting) /\ Cardinality(Waiting) <= MaxPending
ASSUME ProcessAssumption ==
    /\ UNION Process = Thread /\ LongLived \subseteq Process /\ IsFiniteSet(Thread)
    /\ \A p, q \in Process : p = q \/ p \cap q = {}
    /\ \A p \in Process \ LongLived : Cardinality(p) = 1
(* A contact is removed on the command line only. *)
ASSUME CommandAssumption ==
    /\ \A t \in Thread : Command[t] \subseteq [op : Ops, bundle : Bundle, replace : BOOLEAN]
    /\ \A t \in UNION LongLived : \A cmd \in Command[t] : cmd.op # "remove"
ASSUME BoundAssumption == {MaxPending, MaxCommands, MaxFaults} \subseteq Nat

VARIABLES
    file,      \* contacts.json: a set of bundles, one per fingerprint
    pending,   \* the files of the pending directory, likewise
    up,        \* processes that are running
    mem,       \* ContactStore._contacts of each process
    pc,        \* where each thread is
    job,       \* the command it carries out
    found,     \* the size of the dict when the command looked
    copy,      \* what _save is about to write
    (* history *)
    trusted,   \* fingerprints somebody decided to trust
    dismissed, filed, kept, \* dismissed; ever pending; ever in contacts.json
    unsaved,   \* fingerprints whose save failed
    own,       \* what each process changed in its copy
    behind,    \* what other processes changed in the file since it was read
    late,      \* what the process's other threads wrote since the copy was taken
    (* bounds *)
    commands, faults

disk == <<file, pending>>
history == <<trusted, dismissed, filed, kept, unsaved, own, behind, late>>
bounds == <<commands, faults>>
vars == <<disk, up, mem, pc, job, found, copy, history, bounds>>

Home(t) == CHOOSE p \in Process : t \in p
NoJob == [op |-> "offer", bundle |-> CHOOSE b \in Bundle : TRUE, replace |-> FALSE]
PutAlongside(store, b) == store \cup {b}
Put(store, b) == {c \in store : c.fp # b.fp} \cup {b}
Drop(store, fp) == {c \in store : c.fp # fp}
Entry(store, fp) == {c \in store : c.fp = fp}

Init ==
    /\ file = Initial /\ pending = Waiting
    /\ up = LongLived
    /\ mem = [p \in Process |-> IF p \in LongLived THEN Initial ELSE {}]
    /\ pc = [t \in Thread |-> "idle"] /\ job = [t \in Thread |-> NoJob]
    /\ found = [t \in Thread |-> 0] /\ copy = [t \in Thread |-> {}]
    /\ trusted = Fps(Initial) /\ dismissed = {} /\ filed = Fps(Waiting) /\ kept = Fps(Initial)
    /\ unsaved = {}
    /\ own = [p \in Process |-> {}] /\ behind = [p \in Process |-> {}]
    /\ late = [t \in Thread |-> {}]
    /\ commands = 0 /\ faults = 0

-----------------------------------------------------------------------------
Goto(t, step) == pc' = [pc EXCEPT ![t] = step]

(* The command is over, and with it a command line process. *)
Ends(t) ==
    /\ Goto(t, "idle")
    /\ job' = [job EXCEPT ![t] = NoJob]
    /\ copy' = [copy EXCEPT ![t] = {}] /\ found' = [found EXCEPT ![t] = 0]
    /\ up' = IF Home(t) \in LongLived THEN up ELSE up \ {Home(t)}
    /\ mem' = IF Home(t) \in LongLived THEN mem ELSE [mem EXCEPT ![Home(t)] = {}]

Stays == UNCHANGED <<up, job, copy, found>>
fp(t) == job[t].bundle.fp

(* ContactStore._load in a process that starts *)
LoadNothing(p) ==
    /\ up' = up \cup {p}
    /\ mem' = [mem EXCEPT ![p] = {}]
    /\ behind' = [behind EXCEPT ![p] = {}] /\ own' = [own EXCEPT ![p] = {}]
Load(p) ==
    /\ up' = up \cup {p}
    /\ mem' = [mem EXCEPT ![p] = file]
    /\ behind' = [behind EXCEPT ![p] = {}] /\ own' = [own EXCEPT ![p] = {}]

First(op) ==
    CASE op = "accept" -> "get"
      [] op = "dismiss" -> "exists"
      [] op = "add" -> "check"
      [] op = "remove" -> "pop"
      [] op = "learn" -> "learn"
      [] op = "offer" -> "known"

(* A request, a mail or a command line arrives.  A command line process    *)
(* reads the store as it starts, or, to accept, once it has the request.   *)
Take(t, cmd) ==
    /\ pc[t] = "idle" /\ commands < MaxCommands
    /\ commands' = commands + 1
    /\ job' = [job EXCEPT ![t] = cmd]
    /\ Goto(t, First(cmd.op))
    /\ IF Home(t) \in LongLived
       THEN Home(t) \in up /\ UNCHANGED <<up, mem, behind, own>>
       ELSE IF cmd.op \in {"accept", "dismiss"}
            THEN up' = up \cup {Home(t)} /\ UNCHANGED <<mem, behind, own>>
            ELSE Load(Home(t))
    /\ trusted' = IF cmd.op \in {"add", "learn"} THEN trusted \cup {cmd.bundle.fp} ELSE trusted
    /\ UNCHANGED <<disk, found, copy, dismissed, filed, kept, unsaved, late, faults>>

(* InviteStore.get *)
GetAny(t) ==
    /\ pc[t] = "get"
    /\ \/ /\ pending = {}
          /\ Ends(t) /\ UNCHANGED <<trusted, behind, own>>
       \/ \E b \in pending :
          /\ job' = [job EXCEPT ![t].bundle = b]
          /\ trusted' = trusted \cup {fp(t)}
          /\ Goto(t, "check")
          /\ UNCHANGED <<up, mem, behind, own, found, copy>>
    /\ UNCHANGED <<disk, dismissed, filed, kept, unsaved, late, bounds>>
Get(t) ==
    /\ pc[t] = "get"
    /\ \/ /\ fp(t) \notin Fps(pending)
          /\ Ends(t) /\ UNCHANGED <<trusted, behind, own>>
       \/ \E b \in Entry(pending, fp(t)) :
          /\ job' = [job EXCEPT ![t].bundle = b]
          /\ trusted' = trusted \cup {fp(t)}
          /\ Goto(t, "check")
          /\ IF Home(t) \in LongLived
             THEN UNCHANGED <<up, mem, behind, own>>
             ELSE Load(Home(t))
          /\ UNCHANGED <<found, copy>>
    /\ UNCHANGED <<disk, dismissed, filed, kept, unsaved, late, bounds>>

(* What follows the change of the store: the request is taken off the list.*)
Uninvites(t) == job[t].op = "accept" \/ (job[t].op = "add" /\ Home(t) \in LongLived)

(* ContactStore.add: the same bundle is left alone, another one under its  *)
(* fingerprint refused unless it is to be replaced.                        *)
Displaces(t) == \E c \in mem[Home(t)] : c.fp = fp(t) /\ c # job[t].bundle
Check(t) ==
    /\ pc[t] = "check"
    /\ \/ /\ job[t].bundle \in mem[Home(t)] /\ Uninvites(t)
          /\ Goto(t, "exists") /\ Stays /\ UNCHANGED mem
       \/ /\ job[t].bundle \in mem[Home(t)] /\ ~Uninvites(t)
          /\ Ends(t)
       \/ /\ Displaces(t) /\ ~job[t].replace
          /\ Ends(t)
       \/ /\ fp(t) \notin Fps(mem[Home(t)]) \/ (Displaces(t) /\ job[t].replace)
          /\ found' = [found EXCEPT ![t] = Cardinality(mem[Home(t)])]
          /\ Goto(t, "scan") /\ UNCHANGED <<up, mem, job, copy>>
    /\ UNCHANGED <<disk, history, bounds>>

(* The loop over the dict, for a warning: it fails if another thread has   *)
(* added to the dict meanwhile.                                            *)
Scan(t) ==
    /\ pc[t] = "scan"
    /\ Goto(t, "assign") /\ Stays
    /\ UNCHANGED <<mem, disk, history, bounds>>
ScanFails(t) ==
    /\ pc[t] = "scan" /\ Cardinality(mem[Home(t)]) # found[t]
    /\ Ends(t)
    /\ UNCHANGED <<disk, history, bounds>>

(* ContactStore.learn *)
Learn(t) ==
    /\ pc[t] = "learn"
    /\ IF fp(t) \in Fps(mem[Home(t)]) THEN Ends(t)
       ELSE /\ found' = [found EXCEPT ![t] = Cardinality(mem[Home(t)])]
            /\ Goto(t, "assign") /\ UNCHANGED <<up, mem, job, copy>>
    /\ UNCHANGED <<disk, history, bounds>>

Assign(t) ==
    /\ pc[t] = "assign"
    /\ mem' = [mem EXCEPT ![Home(t)] = Put(@, job[t].bundle)]
    /\ own' = [own EXCEPT ![Home(t)] = @ \cup {fp(t)}]
    /\ Goto(t, "copy") /\ Stays
    /\ UNCHANGED <<disk, trusted, dismissed, filed, kept, unsaved, behind, late, bounds>>

(* ContactStore.remove *)
Pop(t) ==
    /\ pc[t] = "pop"
    /\ \/ fp(t) \notin Fps(mem[Home(t)]) /\ Ends(t) /\ UNCHANGED own
       \/ /\ fp(t) \in Fps(mem[Home(t)])
          /\ mem' = [mem EXCEPT ![Home(t)] = Drop(@, fp(t))]
          /\ own' = [own EXCEPT ![Home(t)] = @ \cup {fp(t)}]
          /\ Goto(t, "copy") /\ Stays
    /\ UNCHANGED <<disk, trusted, dismissed, filed, kept, unsaved, behind, late, bounds>>

(* ContactStore._save: the entries are listed, and then written out. *)
Copy(t) ==
    /\ pc[t] = "copy"
    /\ copy' = [copy EXCEPT ![t] = mem[Home(t)]]
    /\ late' = [late EXCEPT ![t] = {}]
    /\ Goto(t, "write")
    /\ UNCHANGED <<disk, up, mem, job, found, trusted, dismissed, filed, kept, unsaved, own, behind, bounds>>

Written(t) == {f \in Fps(Bundle) : Entry(file, f) # Entry(copy[t], f)}
Notes(t) ==
    /\ behind' = [p \in Process |-> IF p = Home(t) THEN behind[p] ELSE behind[p] \cup Written(t)]
    /\ late' = [u \in Thread |-> IF pc[u] = "write" /\ u # t THEN late[u] \cup Written(t) ELSE {}]
    /\ kept' = kept \cup Fps(copy[t])
Write(t) ==
    /\ pc[t] = "write"
    /\ file' = copy[t]
    /\ Notes(t)
    /\ IF Uninvites(t) THEN Goto(t, "exists") /\ Stays /\ UNCHANGED mem ELSE Ends(t)
    /\ UNCHANGED <<pending, trusted, dismissed, filed, unsaved, own, bounds>>

(* InviteStore.remove: the file is looked for and then unlinked; it may    *)
(* have gone in between, which is an error.                                *)
Exists(t) ==
    /\ pc[t] = "exists"
    /\ IF fp(t) \in Fps(pending) THEN Goto(t, "unlink") /\ Stays /\ UNCHANGED mem
       ELSE Ends(t)
    /\ UNCHANGED <<disk, history, bounds>>
UnlinkFirst(t) ==
    /\ pc[t] \in {"unlink", "check"}
    /\ pending' = Drop(pending, fp(t))
    /\ dismissed' = IF job[t].op = "dismiss" THEN dismissed \cup {fp(t)} ELSE dismissed
    /\ IF pc[t] = "unlink" THEN Ends(t) ELSE Goto(t, "scan") /\ Stays /\ UNCHANGED mem
    /\ UNCHANGED <<file, trusted, filed, kept, unsaved, own, behind, late, bounds>>
Unlink(t) ==
    /\ pc[t] = "unlink" /\ fp(t) \in Fps(pending)
    /\ pending' = Drop(pending, fp(t))
    /\ dismissed' = IF job[t].op = "dismiss" THEN dismissed \cup {fp(t)} ELSE dismissed
    /\ Ends(t)
    /\ UNCHANGED <<file, trusted, filed, kept, unsaved, own, behind, late, bounds>>
UnlinkFails(t) ==
    /\ pc[t] = "unlink" /\ fp(t) \notin Fps(pending)
    /\ Ends(t)
    /\ UNCHANGED <<disk, history, bounds>>

(* _process_invitation and InviteStore.add: a stranger's request is filed  *)
(* if it is not there yet and there is room.                               *)
Known(t) ==
    /\ pc[t] = "known"
    /\ IF fp(t) \in Fps(mem[Home(t)]) THEN Ends(t)
       ELSE Goto(t, "room") /\ Stays /\ UNCHANGED mem
    /\ UNCHANGED <<disk, history, bounds>>
RoomForAll(t) ==
    /\ pc[t] = "room"
    /\ IF fp(t) \in Fps(pending)
       THEN Ends(t)
       ELSE Goto(t, "file") /\ Stays /\ UNCHANGED mem
    /\ UNCHANGED <<disk, history, bounds>>
Room(t) ==
    /\ pc[t] = "room"
    /\ IF fp(t) \in Fps(pending) \/ Cardinality(pending) >= MaxPending
       THEN Ends(t)
       ELSE Goto(t, "file") /\ Stays /\ UNCHANGED mem
    /\ UNCHANGED <<disk, history, bounds>>
File(t) ==
    /\ pc[t] = "file"
    /\ pending' = Put(pending, job[t].bundle)
    /\ filed' = filed \cup {fp(t)}
    /\ Ends(t)
    /\ UNCHANGED <<file, trusted, dismissed, kept, unsaved, own, behind, late, bounds>>

-----------------------------------------------------------------------------
(* A write fails: the copy in memory keeps the change. *)
WriteFails(t) ==
    /\ pc[t] \in {"write", "file"} /\ faults < MaxFaults
    /\ faults' = faults + 1
    /\ unsaved' = IF pc[t] = "write" THEN unsaved \cup {fp(t)} ELSE unsaved
    /\ late' = [late EXCEPT ![t] = {}]
    /\ Ends(t)
    /\ UNCHANGED <<disk, trusted, dismissed, filed, kept, own, behind, commands>>

Crash(p) ==
    /\ p \in up /\ faults < MaxFaults
    /\ faults' = faults + 1
    /\ up' = up \ {p}
    /\ mem' = [mem EXCEPT ![p] = {}]
    /\ pc' = [t \in Thread |-> IF t \in p THEN "idle" ELSE pc[t]]
    /\ job' = [t \in Thread |-> IF t \in p THEN NoJob ELSE job[t]]
    /\ copy' = [t \in Thread |-> IF t \in p THEN {} ELSE copy[t]]
    /\ found' = [t \in Thread |-> IF t \in p THEN 0 ELSE found[t]]
    /\ late' = [t \in Thread |-> IF t \in p THEN {} ELSE late[t]]
    /\ unsaved' = unsaved \cup {fp(t) : t \in {u \in p : pc[u] \in {"copy", "write"}}}
    /\ UNCHANGED <<disk, trusted, dismissed, filed, kept, own, behind, commands>>

Restart(p) ==
    /\ p \in LongLived \ up
    /\ Load(p)
    /\ UNCHANGED <<disk, pc, job, found, copy, trusted, dismissed, filed, kept, unsaved, late, bounds>>

Step(t) ==
    \/ \E cmd \in Command[t] : Take(t, cmd)
    \/ Get(t) \/ Check(t) \/ Scan(t) \/ ScanFails(t) \/ Learn(t) \/ Assign(t) \/ Pop(t)
    \/ Copy(t) \/ Write(t) \/ Exists(t) \/ Unlink(t) \/ UnlinkFails(t)
    \/ Known(t) \/ Room(t) \/ File(t) \/ WriteFails(t)

Next ==
    \/ \E t \in Thread : Step(t)
    \/ \E p \in Process : Crash(p) \/ Restart(p)

Spec == Init /\ [][Next]_vars

-----------------------------------------------------------------------------
(* Types; memory, file and requests hold one bundle per fingerprint.       *)
TypeOK ==
    /\ \A store \in {file, pending} \cup {mem[p] : p \in Process} \cup {copy[t] : t \in Thread} :
        store \subseteq Bundle /\ Functional(store)
    /\ up \subseteq Process
    /\ \A p \in Process \ up : mem[p] = {} /\ \A t \in p : pc[t] = "idle"
    /\ \A t \in Thread : pc[t] = "idle" => job[t] = NoJob /\ copy[t] = {} /\ late[t] = {}

(* A key is in contacts.json, or in a copy of it, only because somebody    *)
(* added it, accepted its request or wrote a first message with it: being  *)
(* listed, or dismissed while somebody accepts another, is not enough.     *)
OnlyTheChosenAreTrusted ==
    \A store \in {file} \cup {mem[p] : p \in Process} : Fps(store) \subseteq trusted

(* A request does not vanish: it is on the list, or was dismissed, or its  *)
(* key reached contacts.json or is on the way there, whatever crashes and  *)
(* whoever else decides it meanwhile, unless a save was cut short.         *)
NoRequestVanishes ==
    filed \subseteq Fps(pending) \cup dismissed \cup kept \cup unsaved
                  \cup {fp(t) : t \in {u \in Thread : pc[u] \in {"copy", "write"}}}

(* MAX_PENDING is tested before the file is written: each further thread   *)
(* that files requests may exceed it by one, and no sequence by more.      *)
Offerers == {t \in Thread : \E cmd \in Command[t] : cmd.op = "offer"}
PendingIsBounded == Cardinality(pending) <= MaxPending + Cardinality(Offerers) - 1

(* A save changes in contacts.json only what its process changed, except   *)
(* that it undoes what others wrote since the process read the file, or    *)
(* what its own threads wrote since the copy was taken.  A process that is *)
(* alone loses nothing and brings nothing back.                            *)
SavesChangeTheirOwn ==
    [][\A f \in Fps(Bundle) : Entry(file, f) # Entry(file', f) =>
        \E t \in Thread :
            /\ pc[t] = "write" /\ pc'[t] # "write"
            /\ f \in own[Home(t)] \cup behind[Home(t)] \cup late[t]]_vars
=============================================================================
