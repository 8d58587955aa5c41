-------------------------- MODULE TrustStoreProofs --------------------------
(***************************************************************************)
(* Proofs about TrustStore for every set of bundles, commands, threads and *)
(* processes.                                                              *)
(*                                                                         *)
(* Three inductive invariants are proved one upon the other: the types and *)
(* the places a thread may be at (TInv); where the keys in the file, in a  *)
(* process's memory and in a copy about to be written come from (Origin)   *)
(* and where the requests that were filed have gone (Decided); and that a  *)
(* process's memory differs from the file only in what it changed itself   *)
(* and what others wrote since it read the file (Agrees).                  *)
(***************************************************************************)
EXTENDS TrustStore, FiniteSetTheorems, TLAPS

-----------------------------------------------------------------------------
(* The invariants. *)

(* Where a thread may be while it carries out a command. *)
Path(op) ==
    CASE op = "accept" -> {"get", "check", "scan", "assign", "copy", "write", "exists", "unlink"}
      [] op = "add" -> {"check", "scan", "assign", "copy", "write", "exists", "unlink"}
      [] op = "learn" -> {"learn", "assign", "copy", "write"}
      [] op = "remove" -> {"pop", "copy", "write"}
      [] op = "dismiss" -> {"exists", "unlink"}
      [] op = "offer" -> {"known", "room", "file"}
Points == {"idle", "get", "check", "scan", "assign", "copy", "write", "exists", "unlink",
           "learn", "pop", "known", "room", "file"}
Commands == [op : Ops, bundle : Bundle, replace : BOOLEAN]

(* A thread that is at work carries out one of its commands in a process   *)
(* that is running; one that is not has nothing in hand.                   *)
AtWork(t) ==
    /\ Home(t) \in up
    /\ job[t] \in Commands
    /\ \E cmd \in Command[t] : cmd.op = job[t].op
    /\ pc[t] \in Path(job[t].op)
AtRest(t) == job[t] = NoJob /\ copy[t] = {}

(* The state of the processes, and that of the disk and of the history.    *)
Local ==
    /\ up \subseteq Process
    /\ mem \in [Process -> SUBSET Bundle] /\ copy \in [Thread -> SUBSET Bundle]
    /\ pc \in [Thread -> Points] /\ job \in [Thread -> Commands \cup {NoJob}]
    /\ \A p \in Process : Functional(mem[p])
    /\ \A t \in Thread : Functional(copy[t])
    /\ \A p \in Process \ up : mem[p] = {}
    /\ \A t \in Thread : IF pc[t] = "idle" THEN AtRest(t) ELSE AtWork(t)
Shared ==
    /\ file \subseteq Bundle /\ pending \subseteq Bundle
    /\ Functional(file) /\ Functional(pending)
    /\ own \in [Process -> SUBSET Fps(Bundle)] /\ behind \in [Process -> SUBSET Fps(Bundle)]
    /\ late \in [Thread -> SUBSET Fps(Bundle)]
    /\ \A t \in Thread : pc[t] # "write" => late[t] = {}
TInv == Local /\ Shared

(* Somebody decided to trust the key of a command that may store it. *)
Origin ==
    /\ Fps(file) \subseteq trusted
    /\ \A p \in Process : Fps(mem[p]) \subseteq trusted
    /\ \A t \in Thread :
        /\ Fps(copy[t]) \subseteq trusted
        /\ pc[t] \in {"check", "scan", "learn", "assign"} => fp(t) \in trusted

(* Keys that reached contacts.json, or whose way there was cut short, or   *)
(* that are on the way.                                                    *)
Saving == {t \in Thread : pc[t] \in {"copy", "write"} /\ job[t].op # "remove"}
Stored == kept \cup unsaved \cup {fp(t) : t \in Saving}

(* A thread that saves a key still has it in hand, and one that takes a    *)
(* request off the list has either dismissed it or has stored its key.     *)
InHand(t) ==
    /\ pc[t] = "copy" /\ job[t].op # "remove" => fp(t) \in Fps(mem[Home(t)])
    /\ pc[t] = "write" /\ job[t].op # "remove" => fp(t) \in Fps(copy[t])
    /\ pc[t] \in {"exists", "unlink"} /\ job[t].op # "dismiss" => fp(t) \in Stored

(* A request that was filed is on the list, dismissed or stored, and no    *)
(* process knows a key that was not.                                       *)
Decided ==
    /\ filed \subseteq Fps(pending) \cup dismissed \cup Stored
    /\ Fps(file) \subseteq kept
    /\ \A p \in Process : Fps(mem[p]) \subseteq Stored
    /\ \A t \in Thread : InHand(t)

(* A process has read the file: one that serves as it starts, a command    *)
(* line process once it works on the store.                                *)
HasRead(p) ==
    /\ p \in up
    /\ p \in LongLived \/ \A t \in p : pc[t] # "get" /\ job[t].op # "dismiss"

(* The two copies of the store, and the file, key by key.                  *)
MemAgrees(p) ==
    HasRead(p) => \A f \in Fps(Bundle) :
        Entry(file, f) # Entry(mem[p], f) => f \in own[p] \cup behind[p]
CopyAgrees(t) ==
    pc[t] = "write" => \A f \in Fps(Bundle) :
        /\ Entry(copy[t], f) # Entry(mem[Home(t)], f) => f \in own[Home(t)]
        /\ Entry(file, f) # Entry(copy[t], f) => f \in own[Home(t)] \cup behind[Home(t)] \cup late[t]
Agrees ==
    /\ \A p \in Process : MemAgrees(p)
    /\ \A t \in Thread : CopyAgrees(t)

(* Room for one request is left for every thread that is about to file one *)
(* without looking again.                                                  *)
Filing == {t \in Thread : pc[t] = "file"}
Spare == Cardinality(pending) + Cardinality(Filing) <= MaxPending + Cardinality(Offerers) - 1

-----------------------------------------------------------------------------
(* Facts about stores, threads and processes. *)

LEMMA HomeOf ==
    ASSUME NEW t \in Thread
    PROVE  /\ Home(t) \in Process /\ t \in Home(t)
           /\ \A p \in Process : t \in p => p = Home(t)
<1>1. \E p \in Process : t \in p
  BY ProcessAssumption
<1>2. Home(t) \in Process /\ t \in Home(t)
  BY <1>1 DEF Home
<1> QED
  BY <1>2, ProcessAssumption

(* A command line process has one thread. *)
LEMMA Alone ==
    ASSUME NEW t \in Thread, NEW u \in Thread, Home(u) = Home(t), Home(t) \notin LongLived
    PROVE  u = t
<1>1. Home(t) \in Process /\ t \in Home(t) /\ u \in Home(t)
  BY HomeOf
<1>2. Cardinality(Home(t)) = 1
  BY <1>1, ProcessAssumption
<1>3. IsFiniteSet(Home(t))
  BY <1>1, ProcessAssumption, FS_Subset
<1> QED
  BY <1>1, <1>2, <1>3, FS_Singleton

LEMMA PutFacts ==
    ASSUME NEW S, NEW b
    PROVE  /\ Fps(Put(S, b)) = Fps(S) \cup {b.fp}
           /\ Functional(S) => Functional(Put(S, b))
           /\ \A f : f # b.fp => Entry(Put(S, b), f) = Entry(S, f)
BY DEF Put, Fps, Functional, Entry

LEMMA DropFacts ==
    ASSUME NEW S, NEW fingerprint
    PROVE  /\ Fps(Drop(S, fingerprint)) = Fps(S) \ {fingerprint}
           /\ Functional(S) => Functional(Drop(S, fingerprint))
           /\ \A f : f # fingerprint => Entry(Drop(S, fingerprint), f) = Entry(S, f)
BY DEF Drop, Fps, Functional, Entry

-----------------------------------------------------------------------------
(* Types. *)

LEMMA TypeInit == Init => TInv
BY InitialAssumption, ProcessAssumption
   DEF Init, TInv, Local, Shared, AtRest, Points, Functional, Fps

(* A command that is over leaves nothing behind in its process. *)
LEMMA EndsLocal ==
    ASSUME Local, NEW t \in Thread, Ends(t)
    PROVE  Local'
<1>1. Home(t) \in Process
  BY HomeOf
<1>2. \A u \in Thread \ {t} : Home(u) \in up => Home(u) \in up'
  BY Alone DEF Ends
<1> USE DEF Local, Ends, Goto
<1>3. /\ up' \subseteq Process
      /\ mem' \in [Process -> SUBSET Bundle] /\ copy' \in [Thread -> SUBSET Bundle]
      /\ pc' \in [Thread -> Points] /\ job' \in [Thread -> Commands \cup {NoJob}]
  BY <1>1 DEF Points
<1>4. /\ \A p \in Process : Functional(mem'[p])
      /\ \A u \in Thread : Functional(copy'[u])
      /\ \A p \in Process \ up' : mem'[p] = {}
  BY <1>1 DEF Functional
<1>5. \A u \in Thread : IF pc'[u] = "idle" THEN AtRest(u)' ELSE AtWork(u)'
  BY <1>2 DEF AtRest, AtWork
<1> QED
  BY <1>3, <1>4, <1>5

(* A command that goes on within its path. *)
Moves(t, step) ==
    /\ pc[t] # "idle" /\ step \in Path(job[t].op)
    /\ Goto(t, step) /\ UNCHANGED <<up, job, copy, mem>>

LEMMA PathPoints == ASSUME NEW op \in Ops PROVE Path(op) \subseteq Points \ {"idle"}
BY DEF Path, Points, Ops

LEMMA MovesLocal ==
    ASSUME Local, NEW t \in Thread, NEW step, Moves(t, step)
    PROVE  Local'
<1> USE DEF Local, Moves, Goto
<1>1. AtWork(t) /\ step \in Points \ {"idle"}
  BY PathPoints DEF AtWork, Commands
<1>2. pc' \in [Thread -> Points]
  BY <1>1
<1>3. \A u \in Thread : IF pc'[u] = "idle" THEN AtRest(u)' ELSE AtWork(u)'
  BY <1>1 DEF AtRest, AtWork
<1> QED
  BY <1>2, <1>3

(* A command that goes on and has changed the store of its process.        *)
LEMMA WorksLocal ==
    ASSUME Local, NEW t \in Thread, NEW step, NEW j \in Commands,
           \E cmd \in Command[t] : cmd.op = j.op, step \in Path(j.op),
           Goto(t, step), job' = [job EXCEPT ![t] = j],
           NEW S \in SUBSET Bundle, Functional(S), mem' = [mem EXCEPT ![Home(t)] = S],
           NEW C \in SUBSET Bundle, Functional(C), copy' = [copy EXCEPT ![t] = C],
           up' = up \cup {Home(t)}
    PROVE  Local'
<1> USE DEF Local, Goto
<1>1. Home(t) \in Process
  BY HomeOf
<1>2. step \in Points \ {"idle"}
  BY PathPoints DEF Commands
<1>3. /\ up' \subseteq Process
      /\ mem' \in [Process -> SUBSET Bundle] /\ copy' \in [Thread -> SUBSET Bundle]
      /\ pc' \in [Thread -> Points] /\ job' \in [Thread -> Commands \cup {NoJob}]
  BY <1>1, <1>2
<1>4. /\ \A p \in Process : Functional(mem'[p])
      /\ \A u \in Thread : Functional(copy'[u])
      /\ \A p \in Process \ up' : mem'[p] = {}
  BY <1>1
<1>5. \A u \in Thread : IF pc'[u] = "idle" THEN AtRest(u)' ELSE AtWork(u)'
  BY <1>2 DEF AtRest, AtWork
<1> QED
  BY <1>3, <1>4, <1>5

(* The steps that change neither the disk nor the store.                   *)
Quiet(t) ==
    \/ Check(t) \/ Scan(t) \/ ScanFails(t) \/ Learn(t) \/ Exists(t) \/ UnlinkFails(t)
    \/ Known(t) \/ Room(t)

(* What brings a thread to the step it moves to. *)
Because(t, step) ==
    CASE step = "exists" -> fp(t) \in Fps(mem[Home(t)]) /\ job[t].op # "dismiss"
      [] step = "unlink" -> pc[t] = "exists"
      [] step = "scan" -> pc[t] = "check"
      [] step = "assign" -> pc[t] \in {"scan", "learn"}
      [] step = "room" -> TRUE
      [] step = "file" -> ~(Cardinality(pending) >= MaxPending)
      [] OTHER -> FALSE

LEMMA QuietSteps ==
    ASSUME TInv, NEW t \in Thread, Quiet(t)
    PROVE  /\ UNCHANGED <<disk, history, bounds>>
           /\ pc[t] \notin {"idle", "get", "copy", "write"}
           /\ Ends(t) \/ \E step : Moves(t, step) /\ Because(t, step)
<1> USE DEF TInv, Local, Stays, Moves, Because
<1>1. pc[t] # "idle" => AtWork(t)
  OBVIOUS
<1>2. CASE Check(t)
  <2>1. job[t].bundle \in mem[Home(t)] => fp(t) \in Fps(mem[Home(t)])
    BY DEF Fps, fp
  <2>2. job[t].op \in {"add", "accept"}
    BY <1>1, <1>2 DEF AtWork, Check, Path, Commands, Ops
  <2> QED
    BY <1>1, <1>2, <2>1, <2>2 DEF Check, Path, history, disk, bounds
<1>3. CASE Scan(t) \/ ScanFails(t)
  <2>2. job[t].op \in {"add", "accept"}
    BY <1>1, <1>3 DEF AtWork, Scan, ScanFails, Path, Commands, Ops
  <2> QED
    BY <1>1, <1>3, <2>2 DEF Scan, ScanFails, Path, history, disk, bounds
<1>4. CASE Learn(t)
  <2>2. job[t].op = "learn"
    BY <1>1, <1>4 DEF AtWork, Learn, Path, Commands, Ops
  <2> QED
    BY <1>1, <1>4, <2>2 DEF Learn, Path, history, disk, bounds
<1>5. CASE Exists(t) \/ UnlinkFails(t)
  <2>2. job[t].op \in {"add", "accept", "dismiss"}
    BY <1>1, <1>5 DEF AtWork, Exists, UnlinkFails, Path, Commands, Ops
  <2> QED
    BY <1>1, <1>5, <2>2 DEF Exists, UnlinkFails, Path, history, disk, bounds
<1>6. CASE Known(t) \/ Room(t)
  <2>2. job[t].op = "offer"
    BY <1>1, <1>6 DEF AtWork, Known, Room, Path, Commands, Ops
  <2>3. CASE Known(t)
    BY <1>1, <2>2, <2>3 DEF Known, Path, history, disk, bounds
  <2>4. CASE Room(t)
    <3>1. "file" \in Path(job[t].op)
      BY <2>2 DEF Path
    <3>2. UNCHANGED <<disk, history, bounds>> /\ pc[t] = "room"
      BY <2>4 DEF Room
    <3>3. CASE fp(t) \in Fps(pending) \/ Cardinality(pending) >= MaxPending
      BY <2>4, <3>2, <3>3 DEF Room
    <3>4. CASE ~(fp(t) \in Fps(pending) \/ Cardinality(pending) >= MaxPending)
      <4>1. Moves(t, "file")
        BY <2>4, <3>1, <3>4 DEF Room
      <4>2. Because(t, "file")
        BY <3>4
      <4> QED
        BY <3>2, <4>1, <4>2
    <3> QED
      BY <3>3, <3>4
  <2> QED
    BY <1>6, <2>3, <2>4
<1> QED
  BY <1>2, <1>3, <1>4, <1>5, <1>6 DEF Quiet

LEMMA TypeQuiet == ASSUME TInv, NEW t \in Thread, Quiet(t) PROVE TInv'
<1>1. Local'
  BY QuietSteps, EndsLocal, MovesLocal DEF TInv
<1>2. \A u \in Thread : pc'[u] # "write" => pc[u] # "write"
  BY QuietSteps DEF TInv, Local, Ends, Moves, Goto
<1> QED
  BY <1>1, <1>2, QuietSteps DEF TInv, Shared, disk, history

LEMMA TypeTake ==
    ASSUME TInv, NEW t \in Thread, NEW cmd \in Command[t], Take(t, cmd)
    PROVE  TInv'
<1> USE DEF TInv
<1>1. Home(t) \in Process /\ cmd \in Commands
  BY HomeOf, CommandAssumption DEF Commands
<1>2. First(cmd.op) \in Path(cmd.op)
  BY <1>1 DEF First, Path, Commands, Ops
<1>3. \E S \in SUBSET Bundle : Functional(S) /\ mem' = [mem EXCEPT ![Home(t)] = S]
  BY <1>1 DEF Take, Load, Local, Shared
<1>4. copy' = [copy EXCEPT ![t] = copy[t]] /\ up' = up \cup {Home(t)}
  BY DEF Take, Load, Local
<1>5. Local'
  BY <1>1, <1>2, <1>3, <1>4, WorksLocal DEF Take, Local
<1>6. Shared'
  <2>1. \A u \in Thread : pc'[u] # "write" => late[u] = {}
    BY DEF Take, Goto, Local, Shared
  <2> QED
    BY <1>1, <2>1 DEF Take, Load, Shared, disk
<1> QED
  BY <1>5, <1>6

LEMMA TypeGet == ASSUME TInv, NEW t \in Thread, Get(t) PROVE TInv'
<1> USE DEF TInv
<1>1. Home(t) \in Process /\ AtWork(t)
  BY HomeOf DEF Get, Local
<1>2. job[t].op = "accept"
  BY <1>1 DEF Get, AtWork, Path, Commands, Ops
<1>3. Shared'
  <2>1. \A u \in Thread : pc'[u] # "write" => late[u] = {}
    BY DEF Get, Ends, Goto, Local, Shared
  <2> QED
    BY <1>1, <2>1 DEF Get, Load, Shared, disk
<1>4. ASSUME NEW b \in Bundle, job' = [job EXCEPT ![t].bundle = b], Goto(t, "check"),
             IF Home(t) \in LongLived THEN UNCHANGED <<up, mem, behind, own>>
             ELSE Load(Home(t)),
             UNCHANGED <<found, copy>>
      PROVE  Local'
  <2> DEFINE j == [job[t] EXCEPT !.bundle = b]
  <2>1. j \in Commands /\ j.op = "accept"
    BY <1>1, <1>2 DEF AtWork, Commands
  <2>2. job' = [job EXCEPT ![t] = j]
    BY <1>4
  <2>3. PICK S \in SUBSET Bundle : Functional(S) /\ mem' = [mem EXCEPT ![Home(t)] = S]
    BY <1>1, <1>4 DEF Load, Local, Shared
  <2>4. /\ copy' = [copy EXCEPT ![t] = copy[t]] /\ up' = up \cup {Home(t)}
        /\ copy[t] \in SUBSET Bundle /\ Functional(copy[t])
    BY <1>1, <1>4 DEF Load, Local, AtWork
  <2> HIDE DEF j
  <2>5. (\E c \in Command[t] : c.op = j.op) /\ "check" \in Path(j.op)
    BY <1>1, <1>2, <2>1 DEF AtWork, Path
  <2> QED
    BY <1>4, <2>1, <2>2, <2>3, <2>4, <2>5, WorksLocal
<1>5. CASE Ends(t)
  BY <1>3, <1>5, EndsLocal
<1>6. CASE ~Ends(t)
  <2>1. PICK b \in Entry(pending, fp(t)) :
            /\ job' = [job EXCEPT ![t].bundle = b] /\ Goto(t, "check")
            /\ IF Home(t) \in LongLived THEN UNCHANGED <<up, mem, behind, own>>
               ELSE Load(Home(t))
            /\ UNCHANGED <<found, copy>>
    BY <1>6 DEF Get
  <2>2. b \in Bundle
    BY DEF Entry, Shared
  <2> QED
    BY <1>3, <1>4, <2>1, <2>2
<1> QED
  BY <1>5, <1>6

(* The store in memory changes. *)
LEMMA TypeChange ==
    ASSUME TInv, NEW t \in Thread, Assign(t) \/ Pop(t)
    PROVE  TInv'
<1> USE DEF TInv
<1>1. Home(t) \in Process /\ AtWork(t)
  BY HomeOf DEF Assign, Pop, Local
<1>2. fp(t) \in Fps(Bundle) /\ job[t].bundle \in Bundle
  BY <1>1 DEF AtWork, Commands, fp, Fps
<1>3. CASE Ends(t) /\ Pop(t)
  <2>1. \A u \in Thread : pc'[u] # "write" => late[u] = {}
    BY <1>3 DEF Pop, Ends, Goto, Local, Shared
  <2> QED
    BY <1>1, <1>2, <1>3, <2>1, EndsLocal DEF Pop, Shared, disk
<1>4. CASE ~(Ends(t) /\ Pop(t))
  <2>1. /\ Goto(t, "copy") /\ Stays /\ UNCHANGED <<disk, behind, late>>
        /\ own' = [own EXCEPT ![Home(t)] = @ \cup {fp(t)}]
        /\ \/ mem' = [mem EXCEPT ![Home(t)] = Put(@, job[t].bundle)]
           \/ mem' = [mem EXCEPT ![Home(t)] = Drop(@, fp(t))]
    BY <1>4 DEF Assign, Pop
  <2>2. "copy" \in Path(job[t].op)
    BY <1>1 DEF Assign, Pop, AtWork, Path, Commands, Ops
  <2>3. \E S \in SUBSET Bundle : Functional(S) /\ mem' = [mem EXCEPT ![Home(t)] = S]
    <3>1. CASE mem' = [mem EXCEPT ![Home(t)] = Put(@, job[t].bundle)]
      <4>1. Put(mem[Home(t)], job[t].bundle) \in SUBSET Bundle
        BY <1>1, <1>2 DEF Local, Put
      <4> QED
        BY <1>1, <3>1, <4>1, PutFacts DEF Local
    <3>2. CASE mem' = [mem EXCEPT ![Home(t)] = Drop(@, fp(t))]
      <4>1. Drop(mem[Home(t)], fp(t)) \in SUBSET Bundle
        BY <1>1, <1>2 DEF Local, Drop
      <4> QED
        BY <1>1, <3>2, <4>1, DropFacts DEF Local
    <3> QED
      BY <2>1, <3>1, <3>2
  <2>4. /\ copy' = [copy EXCEPT ![t] = copy[t]] /\ up' = up \cup {Home(t)}
        /\ job' = [job EXCEPT ![t] = job[t]]
        /\ copy[t] \in SUBSET Bundle /\ Functional(copy[t])
    BY <1>1, <2>1 DEF Stays, Local, AtWork
  <2>5. Local'
    BY <1>1, <2>1, <2>2, <2>3, <2>4, WorksLocal DEF AtWork
  <2>6. \A u \in Thread : pc'[u] # "write" => late[u] = {}
    BY <2>1 DEF Assign, Pop, Goto, Local, Shared
  <2> QED
    BY <1>1, <1>2, <2>1, <2>5, <2>6 DEF Shared, disk
<1> QED
  BY <1>3, <1>4

LEMMA TypeCopy == ASSUME TInv, NEW t \in Thread, Copy(t) PROVE TInv'
<1> USE DEF TInv
<1>1. Home(t) \in Process /\ AtWork(t)
  BY HomeOf DEF Copy, Local
<1>2. "write" \in Path(job[t].op)
  BY <1>1 DEF Copy, AtWork, Path, Commands, Ops
<1>3. Local'
  <2>1. /\ mem' = [mem EXCEPT ![Home(t)] = mem[Home(t)]] /\ up' = up \cup {Home(t)}
        /\ job' = [job EXCEPT ![t] = job[t]] /\ mem[Home(t)] \in SUBSET Bundle
        /\ Functional(mem[Home(t)])
    BY <1>1 DEF Copy, Local, AtWork
  <2> QED
    BY <1>1, <1>2, <2>1, WorksLocal DEF AtWork, Copy
<1>4. Shared'
  BY DEF Copy, Goto, Local, Shared, disk
<1> QED
  BY <1>3, <1>4

LEMMA WrittenType == ASSUME NEW t \in Thread PROVE Written(t) \subseteq Fps(Bundle)
BY DEF Written

LEMMA TypeWrite == ASSUME TInv, NEW t \in Thread, Write(t) PROVE TInv'
<1> USE DEF TInv
<1>1. AtWork(t)
  BY DEF Write, Local
<1>2. Local'
  <2>1. CASE Uninvites(t)
    <3>1. "exists" \in Path(job[t].op)
      BY <2>1, <1>1 DEF Uninvites, Path
    <3> QED
      BY <2>1, <3>1, MovesLocal DEF Write, Moves, Stays
  <2>2. CASE ~Uninvites(t)
    BY <2>2, EndsLocal DEF Write
  <2> QED
    BY <2>1, <2>2
<1>3. /\ behind' \in [Process -> SUBSET Fps(Bundle)] /\ late' \in [Thread -> SUBSET Fps(Bundle)]
  BY WrittenType DEF Write, Notes, Shared
<1>4. \A u \in Thread : pc'[u] # "write" => late'[u] = {}
  BY DEF Write, Notes, Ends, Goto, Local, Shared
<1>5. copy[t] \subseteq Bundle /\ Functional(copy[t])
  BY DEF Local
<1> QED
  BY <1>2, <1>3, <1>4, <1>5 DEF Write, Shared

(* The list of requests changes, or a write fails. *)
LEMMA TypeRequests ==
    ASSUME TInv, NEW t \in Thread, Unlink(t) \/ File(t) \/ WriteFails(t)
    PROVE  TInv'
<1> USE DEF TInv
<1>1. AtWork(t) /\ Ends(t)
  BY DEF Unlink, File, WriteFails, Local
<1>2. Local'
  BY <1>1, EndsLocal
<1>3. job[t].bundle \in Bundle
  BY <1>1 DEF AtWork, Commands
<1>4. pending' \subseteq Bundle /\ Functional(pending')
  <2>1. /\ Functional(Put(pending, job[t].bundle)) /\ Put(pending, job[t].bundle) \subseteq Bundle
        /\ Functional(Drop(pending, fp(t))) /\ Drop(pending, fp(t)) \subseteq Bundle
    <3>1. Functional(pending) /\ pending \subseteq Bundle
      BY DEF Shared
    <3>2. Functional(Put(pending, job[t].bundle)) /\ Functional(Drop(pending, fp(t)))
      BY <3>1, PutFacts, DropFacts
    <3> QED
      BY <1>3, <3>1, <3>2 DEF Put, Drop
  <2>2. pending' \in {pending, Put(pending, job[t].bundle), Drop(pending, fp(t))}
    BY DEF Unlink, File, WriteFails, disk
  <2> QED
    BY <2>1, <2>2 DEF Shared
<1>5. /\ late' \in [Thread -> SUBSET Fps(Bundle)]
      /\ \A u \in Thread : pc'[u] # "write" => late'[u] = {}
  BY <1>1 DEF Unlink, File, WriteFails, Ends, Goto, Local, Shared
<1> QED
  BY <1>2, <1>4, <1>5 DEF Unlink, File, WriteFails, Shared, disk

LEMMA TypeLife ==
    ASSUME TInv, NEW p \in Process, Crash(p) \/ Restart(p)
    PROVE  TInv'
<1> USE DEF TInv
<1>1. \A t \in Thread : t \notin p => Home(t) # p
  BY HomeOf
<1>2. \A t \in p : t \in Thread
  BY ProcessAssumption
<1>3. CASE Crash(p)
  <2>1. Local'
    <3>1. \A u \in Thread : IF pc'[u] = "idle" THEN AtRest(u)' ELSE AtWork(u)'
      BY <1>1, <1>3 DEF Crash, Local, AtRest, AtWork
    <3>2. /\ \A q \in Process : Functional(mem'[q])
          /\ \A u \in Thread : Functional(copy'[u])
      BY <1>3 DEF Crash, Local, Functional
    <3>3. /\ up' \subseteq Process
          /\ mem' \in [Process -> SUBSET Bundle] /\ copy' \in [Thread -> SUBSET Bundle]
          /\ pc' \in [Thread -> Points] /\ job' \in [Thread -> Commands \cup {NoJob}]
      BY <1>3 DEF Crash, Local, Points
    <3>4. \A q \in Process \ up' : mem'[q] = {}
      BY <1>3 DEF Crash, Local
    <3> QED
      BY <3>1, <3>2, <3>3, <3>4 DEF Local
  <2>2. /\ late' \in [Thread -> SUBSET Fps(Bundle)]
        /\ \A u \in Thread : pc'[u] # "write" => late'[u] = {}
    BY <1>3 DEF Crash, Local, Shared
  <2> QED
    BY <1>3, <2>1, <2>2 DEF Crash, Shared, disk
<1>4. CASE Restart(p)
  <2>1. \A u \in Thread : IF pc'[u] = "idle" THEN AtRest(u)' ELSE AtWork(u)'
    BY <1>4 DEF Restart, Load, Local, AtRest, AtWork
  <2>2. Local'
    BY <1>4, <2>1 DEF Restart, Load, Local, Shared
  <2> QED
    BY <1>4, <2>2 DEF Restart, Load, Shared, disk
<1> QED
  BY <1>3, <1>4

LEMMA TypeStep == TInv /\ [Next]_vars => TInv'
<1> SUFFICES ASSUME TInv, [Next]_vars PROVE TInv'
  OBVIOUS
<1>1. CASE \E t \in Thread : Step(t)
  <2> SUFFICES ASSUME NEW t \in Thread, Step(t) PROVE TInv'
    BY <1>1
  <2> QED
    BY TypeQuiet, TypeTake, TypeGet, TypeChange, TypeCopy, TypeWrite, TypeRequests
       DEF Step, Quiet
<1>2. CASE \E p \in Process : Crash(p) \/ Restart(p)
  BY <1>2, TypeLife
<1>3. CASE UNCHANGED vars
  BY <1>3 DEF vars, disk, history, TInv, Local, Shared, AtRest, AtWork
<1> QED
  BY <1>1, <1>2, <1>3 DEF Next

LEMMA TypeHolds == Spec => []TInv
BY TypeInit, TypeStep, PTL DEF Spec

(* The file, every copy of it in memory and the pending directory hold one *)
(* bundle per fingerprint, and a process that has stopped holds nothing.   *)
THEOREM TypeCorrect == Spec => []TypeOK
<1>1. TInv => TypeOK
  <2> SUFFICES ASSUME TInv PROVE TypeOK
    OBVIOUS
  <2>1. \A store \in {file, pending} \cup {mem[p] : p \in Process} \cup {copy[t] : t \in Thread} :
            store \subseteq Bundle /\ Functional(store)
    BY DEF TInv, Local, Shared
  <2>2. \A p \in Process \ up : \A t \in p : pc[t] = "idle"
    <3> SUFFICES ASSUME NEW p \in Process \ up, NEW t \in p PROVE pc[t] = "idle"
      OBVIOUS
    <3>1. t \in Thread
      BY ProcessAssumption
    <3>2. Home(t) = p
      BY <3>1, HomeOf
    <3> QED
      BY <3>1, <3>2 DEF TInv, Local, AtWork
  <2> QED
    BY <2>1, <2>2 DEF TInv, Local, Shared, AtRest, TypeOK
<1> QED
  BY <1>1, TypeHolds, PTL

-----------------------------------------------------------------------------
(* Where the keys come from. *)

LEMMA OriginInit == Init => Origin
BY ProcessAssumption DEF Init, Origin, Fps

(* What Ends leaves of the stores and of the other threads.                *)
LEMMA EndsLeaves ==
    ASSUME TInv, NEW t \in Thread, Ends(t)
    PROVE  /\ \A p \in Process : mem'[p] \in {mem[p], {}}
           /\ \A u \in Thread : copy'[u] \in {copy[u], {}}
           /\ pc'[t] = "idle"
           /\ \A u \in Thread \ {t} : /\ pc'[u] = pc[u] /\ job'[u] = job[u] /\ copy'[u] = copy[u]
                                      /\ mem'[Home(u)] = mem[Home(u)]
BY HomeOf, Alone DEF TInv, Local, Ends, Goto

LEMMA MovesLeaves ==
    ASSUME TInv, NEW t \in Thread, NEW step, Moves(t, step)
    PROVE  /\ pc'[t] = step
           /\ \A u \in Thread \ {t} : pc'[u] = pc[u]
           /\ UNCHANGED <<up, job, copy, mem>>
BY DEF TInv, Local, Moves, Goto

LEMMA FpsFacts ==
    /\ Fps({}) = {}
    /\ \A S : \A b \in S : b.fp \in Fps(S)
    /\ \A S, f : \A b \in Entry(S, f) : b \in S /\ b.fp = f
BY DEF Fps, Entry

LEMMA OriginQuiet == ASSUME TInv, Origin, NEW t \in Thread, Quiet(t) PROVE Origin'
<1>1. UNCHANGED <<file, trusted>>
  BY QuietSteps DEF disk, history
<1>2. CASE Ends(t)
  BY <1>1, <1>2, EndsLeaves, FpsFacts DEF Origin, fp
<1>3. ASSUME NEW step, Moves(t, step), Because(t, step) PROVE Origin'
  BY <1>1, <1>3, MovesLeaves DEF Origin, fp, Because
<1> QED
  BY <1>2, <1>3, QuietSteps

LEMMA OriginTake ==
    ASSUME TInv, Origin, NEW t \in Thread, NEW cmd \in Command[t], Take(t, cmd)
    PROVE  Origin'
<1>1. cmd \in Commands /\ Home(t) \in Process
  BY HomeOf, CommandAssumption DEF Commands
<1>2. First(cmd.op) \in {"check", "scan", "learn", "assign"} => cmd.op \in {"add", "learn"}
  BY <1>1 DEF First, Commands, Ops
<1>3. trusted \subseteq trusted' /\ (cmd.op \in {"add", "learn"} => cmd.bundle.fp \in trusted')
  BY DEF Take
<1>4. \A p \in Process : mem'[p] \in {mem[p], file}
  BY <1>1 DEF Take, Load, TInv, Local
<1>5. /\ pc'[t] = First(cmd.op) /\ job'[t] = cmd
      /\ \A u \in Thread \ {t} : pc'[u] = pc[u] /\ job'[u] = job[u]
      /\ UNCHANGED <<file, copy>>
  BY DEF Take, Goto, TInv, Local, disk
<1> QED
  BY <1>2, <1>3, <1>4, <1>5 DEF Origin, fp

LEMMA OriginGet == ASSUME TInv, Origin, NEW t \in Thread, Get(t) PROVE Origin'
<1>1. UNCHANGED file
  BY DEF Get, disk
<1>2. CASE Ends(t) /\ UNCHANGED trusted
  BY <1>1, <1>2, EndsLeaves, FpsFacts DEF Origin, fp
<1>3. CASE ~(Ends(t) /\ UNCHANGED trusted)
  <2>1. PICK b \in Entry(pending, fp(t)) :
            /\ job' = [job EXCEPT ![t].bundle = b] /\ trusted' = trusted \cup {fp(t)}
            /\ Goto(t, "check")
            /\ IF Home(t) \in LongLived THEN UNCHANGED <<up, mem, behind, own>>
               ELSE Load(Home(t))
            /\ UNCHANGED <<found, copy>>
    BY <1>3 DEF Get
  <2>2. job[t] \in Commands /\ Home(t) \in Process
    BY HomeOf DEF Get, TInv, Local, AtWork
  <2>3. \A p \in Process : mem'[p] \in {mem[p], file}
    BY <2>1, <2>2 DEF Load, TInv, Local
  <2>4. \A u \in Thread : fp(u)' = fp(u)
    <3>1. fp(t)' = b.fp
      BY <2>1, <2>2 DEF fp, TInv, Local, Commands
    <3> QED
      BY <2>1, <3>1, FpsFacts DEF fp, TInv, Local
  <2>5. fp(t) \in trusted' /\ trusted \subseteq trusted'
    BY <2>1
  <2>6. \A u \in Thread \ {t} : pc'[u] = pc[u]
    BY <2>1 DEF Goto, TInv, Local
  <2>7. UNCHANGED copy
    BY <2>1
  <2> QED
    BY <1>1, <2>3, <2>4, <2>5, <2>6, <2>7 DEF Origin
<1> QED
  BY <1>2, <1>3

LEMMA OriginChange ==
    ASSUME TInv, Origin, NEW t \in Thread, Assign(t) \/ Pop(t)
    PROVE  Origin'
<1>1. Home(t) \in Process
  BY HomeOf
<1>2. UNCHANGED <<file, trusted>>
  BY DEF Assign, Pop, disk
<1>3. CASE Ends(t)
  BY <1>2, <1>3, EndsLeaves, FpsFacts DEF Origin, fp
<1>4. CASE ~Ends(t)
  <2>1. Goto(t, "copy") /\ UNCHANGED <<job, copy>>
    BY <1>4 DEF Assign, Pop, Stays
  <2>2. pc'[t] = "copy" /\ \A u \in Thread \ {t} : pc'[u] = pc[u]
    BY <2>1 DEF Goto, TInv, Local
  <2>3. \A p \in Process : Fps(mem'[p]) \subseteq trusted
    <3>1. CASE Assign(t)
      <4>1. fp(t) \in trusted
        BY <3>1 DEF Assign, Origin
      <4>2. Fps(Put(mem[Home(t)], job[t].bundle)) = Fps(mem[Home(t)]) \cup {fp(t)}
        BY PutFacts DEF fp
      <4>3. \A p \in Process : mem'[p] = IF p = Home(t) THEN Put(mem[p], job[t].bundle) ELSE mem[p]
        BY <3>1 DEF Assign, TInv, Local
      <4> QED
        BY <4>1, <4>2, <4>3 DEF Origin
    <3>2. CASE Pop(t)
      <4>1. \A p \in Process : mem'[p] = IF p = Home(t) THEN Drop(mem[p], fp(t)) ELSE mem[p]
        BY <1>4, <3>2 DEF Pop, TInv, Local
      <4>2. \A p \in Process : Fps(Drop(mem[p], fp(t))) \subseteq Fps(mem[p])
        BY DropFacts
      <4> QED
        BY <4>1, <4>2 DEF Origin
    <3> QED
      BY <3>1, <3>2
  <2> QED
    BY <1>2, <2>1, <2>2, <2>3 DEF Origin, fp
<1> QED
  BY <1>3, <1>4

LEMMA OriginWrite ==
    ASSUME TInv, Origin, NEW t \in Thread, Copy(t) \/ Write(t)
    PROVE  Origin'
<1>1. CASE Copy(t)
  <2>1. /\ pc'[t] = "write" /\ copy'[t] = mem[Home(t)] /\ UNCHANGED <<file, mem, job, trusted>>
        /\ \A u \in Thread \ {t} : pc'[u] = pc[u] /\ copy'[u] = copy[u]
    BY <1>1 DEF Copy, Goto, TInv, Local, disk
  <2> QED
    BY <2>1, HomeOf DEF Origin, fp
<1>2. CASE Write(t)
  <2>1. file' = copy[t] /\ UNCHANGED trusted
    BY <1>2 DEF Write
  <2>2. CASE Uninvites(t)
    <3>1. /\ pc'[t] = "exists" /\ UNCHANGED <<mem, job, copy>>
          /\ \A u \in Thread \ {t} : pc'[u] = pc[u]
      BY <1>2, <2>2 DEF Write, Goto, Stays, TInv, Local
    <3> QED
      BY <2>1, <3>1 DEF Origin, fp
  <2>3. CASE ~Uninvites(t)
    BY <1>2, <2>1, <2>3, EndsLeaves, FpsFacts DEF Write, Origin, fp
  <2> QED
    BY <2>2, <2>3
<1> QED
  BY <1>1, <1>2

LEMMA OriginRequests ==
    ASSUME TInv, Origin, NEW t \in Thread, Unlink(t) \/ File(t) \/ WriteFails(t)
    PROVE  Origin'
<1>1. Ends(t) /\ UNCHANGED <<file, trusted>>
  BY DEF Unlink, File, WriteFails, disk
<1> QED
  BY <1>1, EndsLeaves, FpsFacts DEF Origin, fp

LEMMA OriginLife ==
    ASSUME TInv, Origin, NEW p \in Process, Crash(p) \/ Restart(p)
    PROVE  Origin'
<1>1. CASE Crash(p)
  <2>1. \A q \in Process : mem'[q] \in {mem[q], {}}
    BY <1>1 DEF Crash, TInv, Local
  <2>2. \A u \in Thread : /\ copy'[u] \in {copy[u], {}}
                          /\ pc'[u] = "idle" \/ (pc'[u] = pc[u] /\ job'[u] = job[u])
    BY <1>1 DEF Crash
  <2> QED
    BY <1>1, <2>1, <2>2, FpsFacts DEF Crash, Origin, fp, disk
<1>2. CASE Restart(p)
  <2>1. \A q \in Process : mem'[q] \in {mem[q], file}
    BY <1>2 DEF Restart, Load, TInv, Local
  <2> QED
    BY <1>2, <2>1 DEF Restart, Origin, fp, disk
<1> QED
  BY <1>1, <1>2

LEMMA OriginStep == TInv /\ Origin /\ [Next]_vars => Origin'
<1> SUFFICES ASSUME TInv, Origin, [Next]_vars PROVE Origin'
  OBVIOUS
<1>1. CASE \E t \in Thread : Step(t)
  <2> SUFFICES ASSUME NEW t \in Thread, Step(t) PROVE Origin'
    BY <1>1
  <2> QED
    BY OriginQuiet, OriginTake, OriginGet, OriginChange, OriginWrite, OriginRequests
       DEF Step, Quiet
<1>2. CASE \E p \in Process : Crash(p) \/ Restart(p)
  BY <1>2, OriginLife
<1>3. CASE UNCHANGED vars
  BY <1>3 DEF vars, disk, history, Origin, fp
<1> QED
  BY <1>1, <1>2, <1>3 DEF Next

(* Whatever several processes and threads do to one contact store at once, *)
(* and whatever crashes or fails in between, contacts.json and the copies  *)
(* of it in memory hold no key that nobody added, accepted or wrote a      *)
(* first message with.                                                     *)
THEOREM NobodyIsTrustedUnasked == Spec => []OnlyTheChosenAreTrusted
<1>1. Origin => OnlyTheChosenAreTrusted
  BY DEF Origin, OnlyTheChosenAreTrusted
<1> QED
  BY <1>1, OriginInit, OriginStep, TypeHolds, PTL DEF Spec

-----------------------------------------------------------------------------
(* The limit of the pending directory. *)

PInv == IsFiniteSet(pending) /\ Spare

LEMMA FilingFacts ==
    ASSUME TInv
    PROVE  /\ IsFiniteSet(Filing) /\ IsFiniteSet(Offerers)
           /\ Cardinality(Filing) \in Nat /\ Cardinality(Offerers) \in Nat
           /\ Filing \subseteq Offerers /\ Cardinality(Filing) <= Cardinality(Offerers)
<1>1. Filing \subseteq Offerers
  <2> SUFFICES ASSUME NEW t \in Filing PROVE t \in Offerers
    OBVIOUS
  <2>1. AtWork(t) /\ pc[t] = "file"
    BY DEF Filing, TInv, Local
  <2>2. job[t].op = "offer"
    BY <2>1 DEF AtWork, Path, Commands, Ops
  <2> QED
    BY <2>1, <2>2 DEF AtWork, Offerers, Filing
<1>2. IsFiniteSet(Offerers)
  BY ProcessAssumption, FS_Subset DEF Offerers
<1> QED
  BY <1>1, <1>2, FS_Subset, FS_CardinalityType

(* A step that lets nobody through the test and files nothing leaves room. *)
LEMMA SpareKept ==
    ASSUME TInv, TInv', PInv, pending' \subseteq pending, Filing' \subseteq Filing
    PROVE  PInv'
<1>1. /\ IsFiniteSet(pending') /\ Cardinality(pending') <= Cardinality(pending)
      /\ Cardinality(Filing') <= Cardinality(Filing)
  BY FilingFacts, FS_Subset DEF PInv
<1>2. /\ Cardinality(pending') \in Nat /\ Cardinality(pending) \in Nat
      /\ Cardinality(Filing') \in Nat /\ Cardinality(Filing) \in Nat
      /\ Cardinality(Offerers) \in Nat
  BY <1>1, FilingFacts, FS_Subset, FS_CardinalityType DEF PInv
<1> QED
  BY <1>1, <1>2, BoundAssumption DEF PInv, Spare

LEMMA SpareStep == TInv /\ TInv' /\ PInv /\ [Next]_vars => PInv'
<1> SUFFICES ASSUME TInv, TInv', PInv, [Next]_vars PROVE PInv'
  OBVIOUS
<1>1. ASSUME NEW t \in Thread, Quiet(t) PROVE PInv'
  <2>1. UNCHANGED pending
    BY <1>1, QuietSteps DEF disk
  <2>2. CASE Ends(t)
    BY <2>1, <2>2, EndsLeaves, SpareKept DEF Filing
  <2>3. ASSUME NEW step, Moves(t, step), Because(t, step) PROVE PInv'
    <3>1. CASE step # "file"
      BY <2>1, <2>3, <3>1, MovesLeaves, SpareKept DEF Filing
    <3>2. CASE step = "file"
      <4>1. ~(Cardinality(pending) >= MaxPending)
        BY <2>3, <3>2 DEF Because
      <4>2. /\ Cardinality(pending) \in Nat /\ Cardinality(Offerers) \in Nat /\ MaxPending \in Nat
            /\ Cardinality(Filing') \in Nat /\ Cardinality(Filing') <= Cardinality(Offerers)
        <5>1. Cardinality(Filing') \in Nat /\ Cardinality(Filing') <= Cardinality(Offerers)
          <6>1. Filing' \subseteq Offerers
            <7>1. AtWork(t) /\ job[t].op = "offer"
              BY <2>3, <3>2 DEF Moves, AtWork, TInv, Local, Path, Commands, Ops
            <7>2. t \in Offerers
              BY <7>1 DEF AtWork, Offerers
            <7>3. Filing' \subseteq Filing \cup {t}
              BY <2>3, MovesLeaves DEF Filing
            <7> QED
              BY <7>2, <7>3, FilingFacts
          <6> QED
            BY <6>1, FilingFacts, FS_Subset, FS_CardinalityType
        <5> QED
          BY <5>1, FilingFacts, FS_CardinalityType, BoundAssumption DEF PInv
      <4> QED
        BY <2>1, <4>1, <4>2 DEF PInv, Spare
    <3> QED
      BY <3>1, <3>2
  <2> QED
    BY <1>1, <2>2, <2>3, QuietSteps
<1>2. ASSUME NEW t \in Thread, File(t) PROVE PInv'
  <2>1. Filing' = Filing \ {t} /\ t \in Filing
    BY <1>2, EndsLeaves DEF File, Filing
  <2>2. Cardinality(Filing') = Cardinality(Filing) - 1
    BY <2>1, FilingFacts, FS_RemoveElement
  <2>3. /\ IsFiniteSet(pending') /\ Cardinality(pending') <= Cardinality(pending) + 1
        /\ Cardinality(pending) \in Nat /\ Cardinality(pending') \in Nat
    <3> DEFINE rest == {c \in pending : c.fp # fp(t)}
    <3>1. pending' = rest \cup {job[t].bundle}
      BY <1>2 DEF File, Put, fp
    <3>2. IsFiniteSet(rest) /\ Cardinality(rest) <= Cardinality(pending)
      BY FS_Subset DEF PInv
    <3>3. IsFiniteSet(pending') /\ Cardinality(pending') <= Cardinality(rest) + 1
      <4>1. Cardinality(rest) \in Nat
        BY <3>2, FS_CardinalityType
      <4> HIDE DEF rest
      <4> QED
        BY <3>1, <3>2, <4>1, FS_AddElement
    <3>4. /\ Cardinality(rest) \in Nat /\ Cardinality(pending) \in Nat
          /\ Cardinality(pending') \in Nat
      BY <3>2, <3>3, FS_CardinalityType DEF PInv
    <3> QED
      BY <3>2, <3>3, <3>4
  <2> QED
    BY <2>2, <2>3, FilingFacts, BoundAssumption DEF PInv, Spare
<1>3. ASSUME NEW t \in Thread,
             \/ \E cmd \in Command[t] : Take(t, cmd)
             \/ Get(t) \/ Assign(t) \/ Pop(t) \/ Copy(t) \/ Write(t) \/ Unlink(t) \/ WriteFails(t)
      PROVE  PInv'
  <2>1. pending' \subseteq pending
    BY <1>3 DEF Take, Get, Assign, Pop, Copy, Write, Unlink, WriteFails, disk, Drop
  <2>2. pc'[t] # "file" /\ \A u \in Thread \ {t} : pc'[u] = pc[u]
    <3>1. CASE Ends(t)
      BY <3>1, EndsLeaves
    <3>2. CASE ~Ends(t)
      <4>1. \A cmd \in Command[t] : First(cmd.op) # "file"
        BY CommandAssumption DEF First, Ops
      <4>2. \E step : step # "file" /\ Goto(t, step)
        BY <1>3, <3>2, <4>1 DEF Take, Get, Assign, Pop, Copy, Write, Unlink, WriteFails
      <4> QED
        BY <4>2 DEF Goto, TInv, Local
    <3> QED
      BY <3>1, <3>2
  <2> QED
    BY <2>1, <2>2, SpareKept DEF Filing
<1>4. ASSUME NEW p \in Process, Crash(p) \/ Restart(p) PROVE PInv'
  <2>1. UNCHANGED pending /\ \A u \in Thread : pc'[u] \in {pc[u], "idle"}
    BY <1>4 DEF Crash, Restart, disk
  <2> QED
    BY <2>1, SpareKept DEF Filing
<1>5. CASE UNCHANGED vars
  BY <1>5 DEF vars, disk, PInv, Spare, Filing
<1> QED
  BY <1>1, <1>2, <1>3, <1>4, <1>5 DEF Next, Step, Quiet

(* The pending directory exceeds MAX_PENDING by no more than one request   *)
(* for each further thread that files requests, although each looks before *)
(* it writes and takes no lock (invites.py:117).                           *)
THEOREM PendingStaysBounded == ASSUME Offerers # {} PROVE Spec => []PendingIsBounded
<1>1. Init => PInv
  <2> SUFFICES ASSUME Init PROVE PInv
    OBVIOUS
  <2>1. Filing = {} /\ pending = Waiting
    BY DEF Init, Filing
  <2>2. IsFiniteSet(Offerers)
    BY ProcessAssumption, FS_Subset DEF Offerers
  <2>3. Cardinality(Offerers) \in Nat \ {0} /\ Cardinality(Waiting) \in Nat
    BY <2>2, FS_EmptySet, FS_CardinalityType, InitialAssumption
  <2> QED
    BY <2>1, <2>3, FS_EmptySet, InitialAssumption, BoundAssumption DEF PInv, Spare
<1>2. TInv /\ PInv => PendingIsBounded
  <2> SUFFICES ASSUME TInv, PInv PROVE PendingIsBounded
    OBVIOUS
  <2>1. Cardinality(pending) \in Nat
    BY FS_CardinalityType DEF PInv
  <2> QED
    BY <2>1, FilingFacts, BoundAssumption DEF PInv, Spare, PendingIsBounded
<1> QED
  BY <1>1, <1>2, SpareStep, TypeHolds, PTL DEF Spec

-----------------------------------------------------------------------------
(* Where the requests go. *)

LEMMA DecidedInit == Init => Decided
BY ProcessAssumption DEF Init, Decided, InHand, Stored, Saving, Fps

(* A thread that does not move keeps what it has in hand. *)
LEMMA InHandKept ==
    ASSUME NEW u \in Thread, InHand(u), pc'[u] = pc[u], job'[u] = job[u], copy'[u] = copy[u],
           Fps(mem[Home(u)]) \subseteq Fps(mem'[Home(u)]), Stored \subseteq Stored'
    PROVE  InHand(u)'
BY DEF InHand, fp

(* A step of t, which does not save a key, takes no other out of Saving.   *)
LEMMA SavingKept ==
    ASSUME NEW t, t \notin Saving, kept \subseteq kept', unsaved \subseteq unsaved',
           \A u \in Thread \ {t} : pc'[u] = pc[u] /\ job'[u] = job[u]
    PROVE  Stored \subseteq Stored'
<1>1. \A u \in Saving : u \in Saving' /\ fp(u)' = fp(u)
  BY DEF Saving, fp
<1> QED
  BY <1>1 DEF Stored

LEMMA DecidedQuiet == ASSUME TInv, Decided, NEW t \in Thread, Quiet(t) PROVE Decided'
<1>1. UNCHANGED <<file, pending, kept, unsaved, filed, dismissed>> /\ t \notin Saving
  BY QuietSteps DEF disk, history, Saving
<1>2. CASE Ends(t)
  <2>1. Stored \subseteq Stored'
    BY <1>1, <1>2, EndsLeaves, SavingKept
  <2>2. \A u \in Thread \ {t} : InHand(u)'
    BY <1>2, <2>1, EndsLeaves, InHandKept DEF Decided
  <2>3. InHand(t)'
    BY <1>2, EndsLeaves DEF InHand
  <2> QED
    BY <1>1, <1>2, <2>1, <2>2, <2>3, EndsLeaves, FpsFacts DEF Decided
<1>3. ASSUME NEW step, Moves(t, step), Because(t, step) PROVE Decided'
  <2>1. Stored \subseteq Stored'
    BY <1>1, <1>3, MovesLeaves, SavingKept
  <2>2. \A u \in Thread \ {t} : InHand(u)'
    BY <1>3, <2>1, MovesLeaves, InHandKept DEF Decided
  <2>3. InHand(t)'
    <3>1. InHand(t) /\ Fps(mem[Home(t)]) \subseteq Stored
      BY HomeOf DEF Decided
    <3>2. pc'[t] = step /\ UNCHANGED <<job, mem, copy>> /\ step \notin {"copy", "write"}
      BY <1>3, MovesLeaves DEF Because
    <3>3. step \in {"exists", "unlink"} /\ job[t].op # "dismiss" => fp(t) \in Stored
      BY <1>3, <3>1 DEF Because, InHand
    <3> QED
      BY <2>1, <3>2, <3>3 DEF InHand, fp
  <2> QED
    BY <1>1, <1>3, <2>1, <2>2, <2>3, MovesLeaves DEF Decided
<1> QED
  BY <1>2, <1>3, QuietSteps

(* A step that reads the file, if it reads it, and does not touch it. *)
LEMMA DecidedRead ==
    ASSUME TInv, Decided, NEW t \in Thread,
           \/ \E cmd \in Command[t] : Take(t, cmd)
           \/ Get(t) /\ ~Ends(t)
    PROVE  Decided'
<1>1. Home(t) \in Process
  BY HomeOf
<1>2. UNCHANGED <<file, pending, kept, unsaved, filed, dismissed, copy>> /\ t \notin Saving
  BY DEF Take, Get, disk, Saving
<1>3. \A u \in Thread \ {t} : pc'[u] = pc[u] /\ job'[u] = job[u]
  BY DEF Take, Get, Goto, TInv, Local
<1>4. mem' = mem \/ (Home(t) \notin LongLived /\ mem' = [mem EXCEPT ![Home(t)] = file])
  BY DEF Take, Get, Load
<1>5. Stored \subseteq Stored'
  BY <1>2, <1>3, SavingKept
<1>6. \A u \in Thread \ {t} : mem'[Home(u)] = mem[Home(u)]
  BY <1>1, <1>4, Alone, HomeOf DEF TInv, Local
<1>7. \A u \in Thread \ {t} : InHand(u)'
  BY <1>2, <1>3, <1>5, <1>6, InHandKept DEF Decided
<1>8. InHand(t)'
  <2>1. CASE Get(t)
    <3>1. pc'[t] = "check"
      BY <2>1 DEF Get, Goto, Take, TInv, Local
    <3> QED
      BY <3>1 DEF InHand
  <2>2. ASSUME NEW cmd \in Command[t], Take(t, cmd) PROVE InHand(t)'
    <3>1. pc'[t] = First(cmd.op) /\ job'[t] = cmd
      BY <2>2 DEF Take, Goto, TInv, Local
    <3>2. cmd.op \in Ops
      BY CommandAssumption
    <3> QED
      BY <3>1, <3>2 DEF InHand, First, Ops
  <2> QED
    BY <2>1, <2>2
<1>9. \A p \in Process : Fps(mem'[p]) \subseteq Stored
  BY <1>4 DEF Decided, Stored, TInv, Local
<1> QED
  BY <1>2, <1>5, <1>7, <1>8, <1>9 DEF Decided

LEMMA DecidedAssign == ASSUME TInv, Decided, NEW t \in Thread, Assign(t) PROVE Decided'
<1>1. Home(t) \in Process /\ AtWork(t)
  BY HomeOf DEF Assign, TInv, Local
<1>2. UNCHANGED <<file, pending, kept, unsaved, filed, dismissed, copy, job>> /\ t \notin Saving
  BY DEF Assign, Stays, disk, Saving
<1>3. /\ pc'[t] = "copy" /\ job[t].op # "remove"
      /\ \A u \in Thread \ {t} : pc'[u] = pc[u]
  BY <1>1 DEF Assign, AtWork, Path, Commands, Ops, Goto, TInv, Local
<1>4. Stored \subseteq Stored' /\ fp(t) \in Stored'
  <2>1. Stored \subseteq Stored'
    BY <1>2, <1>3, SavingKept
  <2>2. t \in Saving' /\ fp(t)' = fp(t)
    BY <1>2, <1>3 DEF Saving, fp
  <2> QED
    BY <2>1, <2>2 DEF Stored
<1>5. \A p \in Process :
        Fps(mem'[p]) = IF p = Home(t) THEN Fps(mem[p]) \cup {fp(t)} ELSE Fps(mem[p])
  <2>1. \A p \in Process : mem'[p] = IF p = Home(t) THEN Put(mem[p], job[t].bundle) ELSE mem[p]
    BY DEF Assign, TInv, Local
  <2> QED
    BY <2>1, PutFacts DEF fp
<1>6. \A u \in Thread \ {t} : InHand(u)'
  BY <1>2, <1>3, <1>4, <1>5, HomeOf, InHandKept DEF Decided
<1>7. InHand(t)'
  BY <1>1, <1>2, <1>3, <1>5 DEF InHand, fp
<1> QED
  BY <1>2, <1>4, <1>5, <1>6, <1>7 DEF Decided

LEMMA DecidedPop == ASSUME TInv, Decided, NEW t \in Thread, Pop(t) PROVE Decided'
<1>1. Home(t) \in Process /\ t \in Home(t) /\ AtWork(t)
  BY HomeOf DEF Pop, TInv, Local
<1>2. job[t].op = "remove"
  BY <1>1 DEF Pop, AtWork, Path, Commands, Ops
<1>3. Home(t) \notin LongLived
  BY <1>1, <1>2, CommandAssumption DEF AtWork
<1>4. UNCHANGED <<file, pending, kept, unsaved, filed, dismissed>> /\ t \notin Saving
  BY DEF Pop, disk, Saving
<1>5. CASE Ends(t)
  <2>1. Stored \subseteq Stored'
    BY <1>4, <1>5, EndsLeaves, SavingKept
  <2>2. \A u \in Thread \ {t} : InHand(u)'
    BY <1>5, <2>1, EndsLeaves, InHandKept DEF Decided
  <2>3. InHand(t)'
    BY <1>5, EndsLeaves DEF InHand
  <2> QED
    BY <1>4, <1>5, <2>1, <2>2, <2>3, EndsLeaves, FpsFacts DEF Decided
<1>6. CASE ~Ends(t)
  <2>1. /\ pc'[t] = "copy" /\ \A u \in Thread \ {t} : pc'[u] = pc[u]
        /\ mem' = [mem EXCEPT ![Home(t)] = Drop(@, fp(t))]
        /\ UNCHANGED <<job, copy>>
    BY <1>6 DEF Pop, Goto, Stays, TInv, Local
  <2>2. Stored \subseteq Stored'
    BY <1>4, <2>1, SavingKept
  <2>3. \A u \in Thread \ {t} : mem'[Home(u)] = mem[Home(u)]
    BY <1>3, <2>1, Alone, HomeOf DEF TInv, Local
  <2>4. \A u \in Thread \ {t} : InHand(u)'
    BY <2>1, <2>2, <2>3, InHandKept DEF Decided
  <2>5. InHand(t)'
    BY <1>2, <2>1 DEF InHand
  <2>6. \A p \in Process : Fps(mem'[p]) \subseteq Fps(mem[p])
    BY <2>1, DropFacts DEF TInv, Local
  <2> QED
    BY <1>4, <2>2, <2>4, <2>5, <2>6 DEF Decided
<1> QED
  BY <1>5, <1>6

LEMMA DecidedCopy == ASSUME TInv, Decided, NEW t \in Thread, Copy(t) PROVE Decided'
<1>1. /\ UNCHANGED <<file, pending, mem, kept, unsaved, filed, dismissed, job>>
      /\ pc[t] = "copy" /\ pc'[t] = "write" /\ copy'[t] = mem[Home(t)]
      /\ \A u \in Thread \ {t} : pc'[u] = pc[u] /\ copy'[u] = copy[u]
  BY DEF Copy, Goto, disk, TInv, Local
<1>2. Stored' = Stored
  BY <1>1 DEF Stored, Saving, fp
<1>3. \A u \in Thread \ {t} : InHand(u)'
  BY <1>1, <1>2, InHandKept DEF Decided
<1>4. InHand(t)'
  BY <1>1 DEF InHand, Decided, fp
<1> QED
  BY <1>1, <1>2, <1>3, <1>4 DEF Decided

LEMMA DecidedWrite == ASSUME TInv, Decided, NEW t \in Thread, Write(t) PROVE Decided'
<1>1. /\ UNCHANGED <<pending, unsaved, filed, dismissed>> /\ pc[t] = "write"
      /\ file' = copy[t] /\ kept' = kept \cup Fps(copy[t])
  BY DEF Write, Notes
<1>2. /\ pc'[t] \in {"idle", "exists"}
      /\ \A u \in Thread \ {t} : /\ pc'[u] = pc[u] /\ job'[u] = job[u] /\ copy'[u] = copy[u]
                                 /\ mem'[Home(u)] = mem[Home(u)]
      /\ \A p \in Process : mem'[p] \in {mem[p], {}}
      /\ pc'[t] = "exists" => job'[t] = job[t] /\ job[t].op # "remove"
  <2>1. CASE Uninvites(t)
    BY <2>1 DEF Write, Goto, Stays, Uninvites, TInv, Local
  <2>2. CASE ~Uninvites(t)
    BY <2>2, EndsLeaves DEF Write
  <2> QED
    BY <2>1, <2>2
<1>3. job[t].op # "remove" => fp(t) \in kept'
  BY <1>1 DEF Decided, InHand
<1>4. Stored \subseteq Stored'
  <2>1. \A u \in Saving \ {t} : u \in Saving' /\ fp(u)' = fp(u)
    BY <1>2 DEF Saving, fp
  <2>2. t \in Saving => fp(t) \in kept'
    BY <1>3 DEF Saving
  <2> QED
    BY <1>1, <2>1, <2>2 DEF Stored
<1>5. \A u \in Thread \ {t} : InHand(u)'
  BY <1>2, <1>4, InHandKept DEF Decided
<1>6. InHand(t)'
  BY <1>2, <1>3 DEF InHand, fp, Stored
<1>7. \A p \in Process : Fps(mem'[p]) \subseteq Stored
  BY <1>2, FpsFacts DEF Decided
<1> QED
  BY <1>1, <1>4, <1>5, <1>6, <1>7 DEF Decided

(* A command that ends with a change of the list, or with an error.        *)
LEMMA DecidedEnd ==
    ASSUME TInv, Decided, NEW t \in Thread, Ends(t),
           Get(t) \/ Unlink(t) \/ File(t) \/ WriteFails(t)
    PROVE  Decided'
<1>1. /\ UNCHANGED <<file, kept>> /\ unsaved \subseteq unsaved'
      /\ t \in Saving => fp(t) \in unsaved'
  BY DEF Get, Unlink, File, WriteFails, disk, Saving
<1>2. Stored \subseteq Stored'
  <2>1. \A u \in Saving \ {t} : u \in Saving' /\ fp(u)' = fp(u)
    BY EndsLeaves DEF Saving, fp
  <2> QED
    BY <1>1, <2>1 DEF Stored
<1>3. \A u \in Thread : InHand(u)'
  <2>1. \A u \in Thread \ {t} : InHand(u)'
    BY <1>2, EndsLeaves, InHandKept DEF Decided
  <2>2. InHand(t)'
    BY EndsLeaves DEF InHand
  <2> QED
    BY <2>1, <2>2
<1>4. filed' \subseteq Fps(pending)' \cup dismissed' \cup Stored'
  <2>1. CASE Get(t) \/ WriteFails(t)
    BY <1>2, <2>1 DEF Get, WriteFails, disk, Decided
  <2>2. CASE File(t)
    <3>1. Fps(pending)' = Fps(pending) \cup {fp(t)} /\ UNCHANGED dismissed
      BY <2>2, PutFacts DEF File, fp
    <3> QED
      BY <1>2, <2>2, <3>1 DEF File, Decided
  <2>3. CASE Unlink(t)
    <3>1. /\ Fps(pending)' = Fps(pending) \ {fp(t)} /\ dismissed \subseteq dismissed'
          /\ UNCHANGED filed
      BY <2>3, DropFacts DEF Unlink
    <3>2. fp(t) \in dismissed' \cup Stored
      BY <2>3 DEF Unlink, Decided, InHand
    <3> QED
      BY <1>2, <3>1, <3>2 DEF Decided
  <2> QED
    BY <2>1, <2>2, <2>3
<1> QED
  BY <1>1, <1>2, <1>3, <1>4, EndsLeaves, FpsFacts DEF Decided

LEMMA DecidedLife ==
    ASSUME TInv, Decided, NEW p \in Process, Crash(p) \/ Restart(p)
    PROVE  Decided'
<1>1. \A t \in Thread : t \notin p => Home(t) # p
  BY HomeOf
<1>2. UNCHANGED <<file, pending, kept, filed, dismissed>>
  BY DEF Crash, Restart, disk
<1>3. CASE Crash(p)
  <2>1. \A u \in Thread : IF u \in p THEN pc'[u] = "idle"
                          ELSE /\ pc'[u] = pc[u] /\ job'[u] = job[u] /\ copy'[u] = copy[u]
                               /\ mem'[Home(u)] = mem[Home(u)]
    BY <1>1, <1>3, HomeOf DEF Crash, TInv, Local
  <2>2. Stored \subseteq Stored'
    <3>1. \A u \in Saving : u \notin p => u \in Saving' /\ fp(u)' = fp(u)
      BY <2>1 DEF Saving, fp
    <3>2. unsaved \subseteq unsaved' /\ \A u \in Saving : u \in p => fp(u) \in unsaved'
      BY <1>3 DEF Crash, Saving
    <3> QED
      BY <1>2, <3>1, <3>2 DEF Stored
  <2>3. \A u \in Thread : InHand(u)'
    <3>1. \A u \in Thread \ p : InHand(u)'
      BY <2>1, <2>2, InHandKept DEF Decided
    <3>2. \A u \in Thread : u \in p => InHand(u)'
      BY <2>1 DEF InHand
    <3> QED
      BY <3>1, <3>2
  <2>4. \A q \in Process : mem'[q] \in {mem[q], {}}
    BY <1>3 DEF Crash, TInv, Local
  <2> QED
    BY <1>2, <2>2, <2>3, <2>4, FpsFacts DEF Decided
<1>4. CASE Restart(p)
  <2>1. UNCHANGED <<pc, job, copy, unsaved>>
    BY <1>4 DEF Restart
  <2>2. Stored' = Stored
    BY <1>2, <2>1 DEF Stored, Saving, fp
  <2>3. \A u \in Thread : Home(u) = p => pc[u] = "idle"
    BY <1>4 DEF Restart, TInv, Local, AtWork
  <2>4. \A q \in Process : mem'[q] = IF q = p THEN file ELSE mem[q]
    BY <1>4 DEF Restart, Load, TInv, Local
  <2>5. \A u \in Thread : InHand(u)'
    BY <2>1, <2>2, <2>3, <2>4, HomeOf DEF Decided, InHand, fp
  <2> QED
    BY <1>2, <2>2, <2>4, <2>5 DEF Decided, Stored
<1> QED
  BY <1>3, <1>4

LEMMA DecidedStep == TInv /\ Decided /\ [Next]_vars => Decided'
<1> SUFFICES ASSUME TInv, Decided, [Next]_vars PROVE Decided'
  OBVIOUS
<1>1. ASSUME NEW t \in Thread, Step(t) PROVE Decided'
  <2>1. Unlink(t) \/ File(t) \/ WriteFails(t) => Ends(t)
    BY DEF Unlink, File, WriteFails
  <2> QED
    BY <1>1, <2>1, DecidedQuiet, DecidedRead, DecidedAssign, DecidedPop, DecidedCopy,
       DecidedWrite, DecidedEnd DEF Step, Quiet
<1>2. CASE \E p \in Process : Crash(p) \/ Restart(p)
  BY <1>2, DecidedLife
<1>3. CASE UNCHANGED vars
  BY <1>3 DEF vars, disk, history, Decided, InHand, Stored, Saving, fp
<1> QED
  BY <1>1, <1>2, <1>3 DEF Next

(* A request does not get lost, whatever crashes and whoever decides it at *)
(* the same time: it stays on the list until it is dismissed or its key is *)
(* stored (invites.py:164, server.py:169), unless a save was cut short.    *)
THEOREM RequestsAreKept == Spec => []NoRequestVanishes
<1>1. Decided => NoRequestVanishes
  <2>1. {fp(t) : t \in Saving} \subseteq {fp(t) : t \in {u \in Thread : pc[u] \in {"copy", "write"}}}
    BY DEF Saving
  <2> QED
    BY <2>1 DEF Decided, Stored, NoRequestVanishes
<1> QED
  BY <1>1, DecidedInit, DecidedStep, TypeHolds, PTL DEF Spec

-----------------------------------------------------------------------------
(* What the copies agree on. *)

LEMMA AgreesInit == Init => Agrees
BY ProcessAssumption DEF Init, Agrees, MemAgrees, CopyAgrees, HasRead

(* A process, or a copy, that nothing happens to. *)
LEMMA MemKept ==
    ASSUME NEW p, MemAgrees(p), UNCHANGED file, mem'[p] = mem[p], HasRead(p)' => HasRead(p),
           own[p] \subseteq own'[p], behind[p] \subseteq behind'[p]
    PROVE  MemAgrees(p)'
BY DEF MemAgrees

LEMMA CopyKept ==
    ASSUME NEW t, CopyAgrees(t), UNCHANGED file, pc'[t] = "write" => pc[t] = "write",
           copy'[t] = copy[t], mem'[Home(t)] = mem[Home(t)], own[Home(t)] \subseteq own'[Home(t)],
           behind[Home(t)] \subseteq behind'[Home(t)], late[t] \subseteq late'[t]
    PROVE  CopyAgrees(t)'
BY DEF CopyAgrees

(* A command that ends takes a command line process with it. *)
LEMMA AgreesEnds ==
    ASSUME TInv, Agrees, NEW t \in Thread, Ends(t), UNCHANGED <<file, own, behind>>,
           \A u \in Thread \ {t} : late[u] \subseteq late'[u]
    PROVE  Agrees'
<1>1. Home(t) \in Process /\ t \in Home(t)
  BY HomeOf
<1>2. ASSUME NEW p \in Process PROVE MemAgrees(p)'
  <2>1. CASE p = Home(t) /\ Home(t) \notin LongLived
    BY <2>1 DEF MemAgrees, HasRead, Ends
  <2>2. CASE p = Home(t) /\ Home(t) \in LongLived
    BY <2>2, MemKept DEF MemAgrees, HasRead, Ends, Agrees
  <2>3. CASE p # Home(t)
    <3>1. \A u \in p : pc'[u] = pc[u] /\ job'[u] = job[u]
      BY <2>3, EndsLeaves, HomeOf, ProcessAssumption
    <3>2. mem'[p] = mem[p] /\ (p \in up' => p \in up)
      BY <2>3 DEF Ends, TInv, Local
    <3> QED
      BY <3>1, <3>2, MemKept DEF HasRead, Agrees
  <2> QED
    BY <2>1, <2>2, <2>3
<1>3. \A u \in Thread \ {t} : CopyAgrees(u)'
  BY EndsLeaves, CopyKept DEF Agrees
<1>4. CopyAgrees(t)'
  BY EndsLeaves DEF CopyAgrees
<1> QED
  BY <1>2, <1>3, <1>4 DEF Agrees

LEMMA AgreesQuiet == ASSUME TInv, Agrees, NEW t \in Thread, Quiet(t) PROVE Agrees'
<1>1. UNCHANGED <<file, own, behind, late>> /\ pc[t] # "get"
  BY QuietSteps DEF disk, history
<1>2. CASE Ends(t)
  BY <1>1, <1>2, AgreesEnds
<1>3. ASSUME NEW step, Moves(t, step), Because(t, step) PROVE Agrees'
  <2>1. \A p \in Process : HasRead(p)' => HasRead(p)
    BY <1>1, <1>3, MovesLeaves, ProcessAssumption DEF HasRead
  <2>2. step # "write"
    BY <1>3 DEF Because
  <2> QED
    BY <1>1, <1>3, <2>1, <2>2, MovesLeaves, MemKept, CopyKept DEF Agrees
<1> QED
  BY <1>2, <1>3, QuietSteps

(* A process that has just read the file agrees with it. *)
LEMMA AgreesRead ==
    ASSUME TInv, Agrees, NEW t \in Thread, UNCHANGED <<file, copy, late>>,
           \A u \in Thread \ {t} : pc'[u] = pc[u] /\ job'[u] = job[u],
           pc'[t] # "write",
           IF Home(t) \in LongLived \/ pc'[t] = "get" \/ job'[t].op = "dismiss"
           THEN UNCHANGED <<mem, own, behind>> /\ up' = up \cup {Home(t)}
           ELSE Load(Home(t)),
           Home(t) \in LongLived => Home(t) \in up
    PROVE  Agrees'
<1>1. Home(t) \in Process /\ t \in Home(t)
  BY HomeOf
<1>2. CASE Home(t) \in LongLived \/ pc'[t] = "get" \/ job'[t].op = "dismiss"
  <2>1. ASSUME NEW p \in Process PROVE HasRead(p)' => HasRead(p)
    <3>1. CASE p = Home(t)
      BY <1>1, <1>2, <3>1 DEF HasRead
    <3>2. CASE p # Home(t)
      <4>1. \A u \in p : pc'[u] = pc[u] /\ job'[u] = job[u]
        BY <3>2, HomeOf, ProcessAssumption
      <4> QED
        BY <1>2, <3>2, <4>1 DEF HasRead
    <3> QED
      BY <3>1, <3>2
  <2> QED
    BY <1>2, <2>1, MemKept, CopyKept DEF Agrees
<1>3. CASE ~(Home(t) \in LongLived \/ pc'[t] = "get" \/ job'[t].op = "dismiss")
  <2>1. Load(Home(t)) /\ Home(t) \notin LongLived
    BY <1>3
  <2>2. \A u \in Thread \ {t} : Home(u) # Home(t)
    BY <2>1, Alone
  <2>3. ASSUME NEW p \in Process, p # Home(t)
        PROVE  /\ mem'[p] = mem[p] /\ own'[p] = own[p] /\ behind'[p] = behind[p]
               /\ p \in up' <=> p \in up
    BY <2>1, <2>3 DEF Load, TInv, Local, Shared
  <2>4. ASSUME NEW p \in Process PROVE MemAgrees(p)'
    <3>1. CASE p = Home(t)
      BY <1>1, <2>1, <3>1 DEF Load, MemAgrees, TInv, Local
    <3>2. CASE p # Home(t)
      <4>1. \A u \in p : pc'[u] = pc[u] /\ job'[u] = job[u]
        BY <3>2, HomeOf, ProcessAssumption
      <4> QED
        BY <2>3, <3>2, <4>1, MemKept DEF HasRead, Agrees
    <3> QED
      BY <3>1, <3>2
  <2>5. \A u \in Thread \ {t} : CopyAgrees(u)'
    BY <2>2, <2>3, HomeOf, CopyKept DEF Agrees
  <2>6. CopyAgrees(t)'
    BY DEF CopyAgrees
  <2> QED
    BY <2>4, <2>5, <2>6 DEF Agrees
<1> QED
  BY <1>2, <1>3

LEMMA AgreesTake ==
    ASSUME TInv, Agrees, NEW t \in Thread, NEW cmd \in Command[t], Take(t, cmd)
    PROVE  Agrees'
<1>1. cmd.op \in Ops
  BY CommandAssumption
<1>2. /\ pc'[t] = First(cmd.op) /\ job'[t] = cmd /\ UNCHANGED <<file, copy, late>>
      /\ \A u \in Thread \ {t} : pc'[u] = pc[u] /\ job'[u] = job[u]
  BY DEF Take, Goto, disk, TInv, Local
<1>3. pc'[t] # "write" /\ (pc'[t] = "get" <=> cmd.op = "accept")
  BY <1>1, <1>2 DEF First, Ops
<1>4. /\ IF Home(t) \in LongLived \/ cmd.op \in {"accept", "dismiss"}
         THEN UNCHANGED <<mem, own, behind>> /\ up' = up \cup {Home(t)}
         ELSE Load(Home(t))
      /\ Home(t) \in LongLived => Home(t) \in up
  BY DEF Take
<1> QED
  BY <1>2, <1>3, <1>4, AgreesRead

LEMMA AgreesGet == ASSUME TInv, Agrees, NEW t \in Thread, Get(t) PROVE Agrees'
<1>1. UNCHANGED <<file, late>>
  BY DEF Get, disk
<1>2. CASE Ends(t) /\ UNCHANGED <<behind, own>>
  BY <1>1, <1>2, AgreesEnds
<1>3. CASE ~(Ends(t) /\ UNCHANGED <<behind, own>>)
  <2>1. PICK b \in Entry(pending, fp(t)) :
            /\ job' = [job EXCEPT ![t].bundle = b] /\ Goto(t, "check")
            /\ IF Home(t) \in LongLived THEN UNCHANGED <<up, mem, behind, own>>
               ELSE Load(Home(t))
            /\ UNCHANGED <<found, copy>>
    BY <1>3 DEF Get
  <2>2. AtWork(t)
    BY DEF Get, TInv, Local
  <2>3. job[t].op = "accept"
    BY <2>2 DEF Get, AtWork, Path, Commands, Ops
  <2>4. /\ pc'[t] = "check" /\ job'[t].op = "accept"
        /\ \A u \in Thread \ {t} : pc'[u] = pc[u] /\ job'[u] = job[u]
    BY <2>1, <2>2, <2>3 DEF Goto, AtWork, Commands, TInv, Local
  <2>5. UNCHANGED copy /\ Home(t) \in up
    BY <2>1, <2>2 DEF AtWork
  <2>6. IF Home(t) \in LongLived \/ pc'[t] = "get" \/ job'[t].op = "dismiss"
        THEN UNCHANGED <<mem, own, behind>> /\ up' = up \cup {Home(t)}
        ELSE Load(Home(t))
    BY <2>1, <2>4, <2>5
  <2> QED
    BY <1>1, <2>4, <2>5, <2>6, AgreesRead
<1> QED
  BY <1>2, <1>3

(* A change of the store is noted as the process's own. *)
LEMMA AgreesChange ==
    ASSUME TInv, Agrees, NEW t \in Thread, Assign(t) \/ Pop(t)
    PROVE  Agrees'
<1>1. Home(t) \in Process /\ t \in Home(t)
  BY HomeOf
<1>2. UNCHANGED <<file, behind, late>>
  BY DEF Assign, Pop, disk
<1>3. CASE Ends(t)
  <2>1. UNCHANGED own
    BY <1>3 DEF Assign, Pop, Ends, Goto, TInv, Local
  <2> QED
    BY <1>2, <1>3, <2>1, AgreesEnds
<1>4. CASE ~Ends(t)
  <2>1. /\ pc'[t] = "copy" /\ pc[t] # "get" /\ \A u \in Thread \ {t} : pc'[u] = pc[u]
        /\ UNCHANGED <<job, copy, up>>
        /\ own'[Home(t)] = own[Home(t)] \cup {fp(t)}
        /\ \A p \in Process \ {Home(t)} : mem'[p] = mem[p] /\ own'[p] = own[p]
    BY <1>1, <1>4 DEF Assign, Pop, Goto, Stays, TInv, Local, Shared
  <2>2. \A f : f # fp(t) => Entry(mem'[Home(t)], f) = Entry(mem[Home(t)], f)
    <3>1. mem'[Home(t)] \in {Put(mem[Home(t)], job[t].bundle), Drop(mem[Home(t)], fp(t))}
      BY <1>1, <1>4 DEF Assign, Pop, TInv, Local
    <3> QED
      BY <3>1, PutFacts, DropFacts DEF fp
  <2>3. ASSUME NEW p \in Process PROVE MemAgrees(p)'
    <3>1. HasRead(p)' => HasRead(p)
      BY <2>1, ProcessAssumption DEF HasRead
    <3>2. CASE p = Home(t)
      BY <1>2, <2>1, <2>2, <3>1, <3>2 DEF Agrees, MemAgrees
    <3>3. CASE p # Home(t)
      BY <1>2, <2>1, <3>1, <3>3, MemKept DEF Agrees
    <3> QED
      BY <3>2, <3>3
  <2>4. ASSUME NEW u \in Thread PROVE CopyAgrees(u)'
    <3>1. CASE Home(u) = Home(t)
      BY <1>2, <2>1, <2>2, <3>1 DEF Agrees, CopyAgrees
    <3>2. CASE Home(u) # Home(t)
      BY <1>2, <2>1, <3>2, HomeOf, CopyKept DEF Agrees
    <3> QED
      BY <3>1, <3>2
  <2> QED
    BY <2>3, <2>4 DEF Agrees
<1> QED
  BY <1>3, <1>4

LEMMA AgreesCopy == ASSUME TInv, Agrees, NEW t \in Thread, Copy(t) PROVE Agrees'
<1>1. Home(t) \in Process /\ t \in Home(t) /\ AtWork(t)
  BY HomeOf DEF Copy, TInv, Local
<1>2. /\ UNCHANGED <<file, up, mem, job, own, behind>>
      /\ pc[t] = "copy" /\ pc'[t] = "write" /\ copy'[t] = mem[Home(t)] /\ late'[t] = {}
      /\ \A u \in Thread \ {t} : pc'[u] = pc[u] /\ copy'[u] = copy[u] /\ late'[u] = late[u]
  BY DEF Copy, Goto, disk, TInv, Local, Shared
<1>3. HasRead(Home(t))
  <2>1. job[t].op # "dismiss"
    BY <1>1, <1>2 DEF AtWork, Path, Commands, Ops
  <2>2. Home(t) \notin LongLived => \A u \in Home(t) : u = t
    BY <1>1, Alone, HomeOf, ProcessAssumption
  <2> QED
    BY <1>1, <1>2, <2>1, <2>2 DEF HasRead, AtWork
<1>4. \A p \in Process : MemAgrees(p)'
  <2>1. \A p \in Process : HasRead(p)' => HasRead(p)
    BY <1>2, ProcessAssumption DEF HasRead
  <2> QED
    BY <1>2, <2>1, MemKept DEF Agrees
<1>5. CopyAgrees(t)'
  BY <1>1, <1>2, <1>3 DEF Agrees, MemAgrees, CopyAgrees
<1>6. \A u \in Thread \ {t} : CopyAgrees(u)'
  BY <1>2, CopyKept DEF Agrees
<1> QED
  BY <1>4, <1>5, <1>6 DEF Agrees

(* A save is noted by every other process and by every other thread that   *)
(* is about to save.                                                       *)
LEMMA AgreesWrite == ASSUME TInv, Agrees, NEW t \in Thread, Write(t) PROVE Agrees'
<1>1. Home(t) \in Process /\ t \in Home(t)
  BY HomeOf
<1>2. /\ UNCHANGED own /\ pc[t] = "write" /\ file' = copy[t]
      /\ \A p \in Process : behind'[p] = IF p = Home(t) THEN behind[p] ELSE behind[p] \cup Written(t)
      /\ \A u \in Thread : late'[u] = IF pc[u] = "write" /\ u # t THEN late[u] \cup Written(t) ELSE {}
  BY DEF Write, Notes
<1>3. \A f \in Fps(Bundle) : Entry(file, f) = Entry(file', f) \/ f \in Written(t)
  BY <1>2 DEF Written
<1>4. /\ pc'[t] # "write" /\ up' \subseteq up
      /\ \A u \in Thread \ {t} : /\ pc'[u] = pc[u] /\ job'[u] = job[u] /\ copy'[u] = copy[u]
                                 /\ mem'[Home(u)] = mem[Home(u)]
      /\ \A p \in Process : p \in up' => mem'[p] = mem[p]
      /\ pc'[t] = "exists" => job'[t] = job[t]
      /\ pc'[t] # "exists" => Ends(t)
  <2>1. CASE Uninvites(t)
    BY <2>1 DEF Write, Goto, Stays, TInv, Local
  <2>2. CASE ~Uninvites(t)
    <3>1. Ends(t)
      BY <2>2 DEF Write
    <3>2. /\ up' \subseteq up
          /\ \A p \in Process : p \in up' => mem'[p] = mem[p]
      BY <3>1 DEF Ends, TInv, Local
    <3> QED
      BY <3>1, <3>2, EndsLeaves
  <2> QED
    BY <2>1, <2>2
<1>5. ASSUME NEW p \in Process PROVE MemAgrees(p)'
  <2>1. CASE p = Home(t)
    BY <1>2, <1>4, <2>1 DEF Agrees, MemAgrees, CopyAgrees, HasRead
  <2>2. CASE p # Home(t)
    <3>1. \A u \in p : pc'[u] = pc[u] /\ job'[u] = job[u]
      BY <1>4, <2>2, HomeOf, ProcessAssumption
    <3>2. HasRead(p)' => HasRead(p) /\ mem'[p] = mem[p]
      BY <1>4, <3>1 DEF HasRead
    <3> QED
      BY <1>2, <1>3, <2>2, <3>2 DEF Agrees, MemAgrees
  <2> QED
    BY <2>1, <2>2
<1>6. ASSUME NEW u \in Thread PROVE CopyAgrees(u)'
  <2>1. CASE u = t
    BY <1>4, <2>1 DEF CopyAgrees
  <2>2. CASE u # t
    <3>1. /\ pc'[u] = pc[u] /\ copy'[u] = copy[u] /\ mem'[Home(u)] = mem[Home(u)]
          /\ UNCHANGED own /\ behind[Home(u)] \subseteq behind'[Home(u)] /\ CopyAgrees(u)
      <4>1. Home(u) \in Process
        BY HomeOf
      <4>2. behind[Home(u)] \subseteq behind'[Home(u)]
        BY <1>2, <4>1
      <4>3. CopyAgrees(u)
        BY DEF Agrees
      <4> QED
        BY <1>2, <1>4, <2>2, <4>2, <4>3
    <3>2. pc[u] = "write" => late'[u] = late[u] \cup Written(t)
      BY <1>2, <2>2
    <3> QED
      BY <1>3, <3>1, <3>2 DEF CopyAgrees
  <2> QED
    BY <2>1, <2>2
<1> QED
  BY <1>5, <1>6 DEF Agrees

LEMMA AgreesRequests ==
    ASSUME TInv, Agrees, NEW t \in Thread, Unlink(t) \/ File(t) \/ WriteFails(t)
    PROVE  Agrees'
<1>1. Ends(t) /\ UNCHANGED <<file, own, behind>>
  BY DEF Unlink, File, WriteFails, disk
<1>2. \A u \in Thread \ {t} : late[u] \subseteq late'[u]
  BY DEF Unlink, File, WriteFails, TInv, Shared
<1> QED
  BY <1>1, <1>2, AgreesEnds

LEMMA AgreesLife ==
    ASSUME TInv, Agrees, NEW p \in Process, Crash(p) \/ Restart(p)
    PROVE  Agrees'
<1>1. UNCHANGED file
  BY DEF Crash, Restart, disk
<1>2. \A q \in Process \ {p} : \A u \in q : u \notin p /\ u \in Thread
  BY ProcessAssumption
<1>3. CASE Crash(p)
  <2>1. ASSUME NEW q \in Process PROVE MemAgrees(q)'
    <3>1. CASE q = p
      BY <1>3, <3>1 DEF Crash, MemAgrees, HasRead
    <3>2. CASE q # p
      <4>1. HasRead(q)' => HasRead(q)
        BY <1>2, <1>3, <3>2 DEF Crash, HasRead
      <4>2. mem'[q] = mem[q] /\ UNCHANGED <<own, behind>>
        BY <1>3, <3>2 DEF Crash, TInv, Local
      <4> QED
        BY <1>1, <4>1, <4>2, MemKept DEF Agrees
    <3> QED
      BY <3>1, <3>2
  <2>2. ASSUME NEW u \in Thread PROVE CopyAgrees(u)'
    <3>1. CASE u \in p
      BY <1>3, <3>1 DEF Crash, CopyAgrees
    <3>2. CASE u \notin p
      <4>1. Home(u) # p /\ Home(u) \in Process
        BY <3>2, HomeOf
      <4>2. /\ pc'[u] = pc[u] /\ copy'[u] = copy[u] /\ late'[u] = late[u]
            /\ mem'[Home(u)] = mem[Home(u)] /\ UNCHANGED <<own, behind>>
        BY <1>3, <3>2, <4>1 DEF Crash, TInv, Local
      <4> QED
        BY <1>1, <4>2, CopyKept DEF Agrees
    <3> QED
      BY <3>1, <3>2
  <2> QED
    BY <2>1, <2>2 DEF Agrees
<1>4. CASE Restart(p)
  <2>1. UNCHANGED <<pc, job, copy, late>> /\ p \notin up
    BY <1>4 DEF Restart
  <2>2. \A q \in Process \ {p} : /\ mem'[q] = mem[q] /\ own'[q] = own[q] /\ behind'[q] = behind[q]
                                 /\ q \in up' => q \in up
    BY <1>4 DEF Restart, Load, TInv, Local, Shared
  <2>3. mem'[p] = file
    BY <1>4 DEF Restart, Load, TInv, Local
  <2>4. ASSUME NEW q \in Process PROVE MemAgrees(q)'
    <3>1. CASE q = p
      BY <1>1, <2>3, <3>1 DEF MemAgrees
    <3>2. CASE q # p
      <4>1. HasRead(q)' => HasRead(q)
        BY <2>1, <2>2, <3>2 DEF HasRead
      <4> QED
        BY <1>1, <2>2, <3>2, <4>1, MemKept DEF Agrees
    <3> QED
      BY <3>1, <3>2
  <2>5. ASSUME NEW u \in Thread PROVE CopyAgrees(u)'
    <3>1. CASE Home(u) = p
      <4>1. pc'[u] # "write"
        BY <2>1, <3>1 DEF TInv, Local, AtWork
      <4> QED
        BY <4>1 DEF CopyAgrees
    <3>2. CASE Home(u) # p
      <4>1. /\ mem'[Home(u)] = mem[Home(u)] /\ own'[Home(u)] = own[Home(u)]
            /\ behind'[Home(u)] = behind[Home(u)]
        BY <2>2, <3>2, HomeOf
      <4>2. pc'[u] = pc[u] /\ copy'[u] = copy[u] /\ late'[u] = late[u] /\ CopyAgrees(u)
        BY <2>1 DEF Agrees
      <4> QED
        BY <1>1, <4>1, <4>2, CopyKept
    <3> QED
      BY <3>1, <3>2
  <2> QED
    BY <2>4, <2>5 DEF Agrees
<1> QED
  BY <1>3, <1>4

LEMMA AgreesStep == TInv /\ Agrees /\ [Next]_vars => Agrees'
<1> SUFFICES ASSUME TInv, Agrees, [Next]_vars PROVE Agrees'
  OBVIOUS
<1>1. ASSUME NEW t \in Thread, Step(t) PROVE Agrees'
  BY <1>1, AgreesQuiet, AgreesTake, AgreesGet, AgreesChange, AgreesCopy, AgreesWrite,
     AgreesRequests DEF Step, Quiet
<1>2. CASE \E p \in Process : Crash(p) \/ Restart(p)
  BY <1>2, AgreesLife
<1>3. CASE UNCHANGED vars
  BY <1>3 DEF vars, disk, history, Agrees, MemAgrees, CopyAgrees, HasRead
<1> QED
  BY <1>1, <1>2, <1>3 DEF Next

(* A save changes in contacts.json only what its own process changed, or   *)
(* undoes what others wrote since the process read the file or the thread  *)
(* took its copy (contacts.py:60).                                         *)
THEOREM SavesAreTheirOwn == Spec => SavesChangeTheirOwn
<1>1. TInv /\ Agrees /\ [Next]_vars =>
        [\A f \in Fps(Bundle) : Entry(file, f) # Entry(file', f) =>
            \E t \in Thread :
                /\ pc[t] = "write" /\ pc'[t] # "write"
                /\ f \in own[Home(t)] \cup behind[Home(t)] \cup late[t]]_vars
  <2> SUFFICES ASSUME TInv, Agrees, [Next]_vars, NEW f \in Fps(Bundle),
                      Entry(file, f) # Entry(file', f)
               PROVE  \E t \in Thread :
                        /\ pc[t] = "write" /\ pc'[t] # "write"
                        /\ f \in own[Home(t)] \cup behind[Home(t)] \cup late[t]
    OBVIOUS
  <2>1. ASSUME NEW t \in Thread, Step(t) PROVE file' = file \/ Write(t)
    BY <2>1, QuietSteps
       DEF Step, Quiet, Take, Get, Assign, Pop, Copy, Unlink, File, WriteFails, disk
  <2>2. ASSUME NEW p \in Process, Crash(p) \/ Restart(p) PROVE file' = file
    BY <2>2 DEF Crash, Restart, disk
  <2>3. UNCHANGED vars => file' = file
    BY DEF vars, disk
  <2>4. PICK t \in Thread : Write(t)
    BY <2>1, <2>2, <2>3 DEF Next
  <2>5. pc[t] = "write" /\ file' = copy[t]
    BY <2>4 DEF Write
  <2>6. pc'[t] # "write"
    BY <2>4, EndsLeaves DEF Write, Goto, TInv, Local
  <2>7. f \in own[Home(t)] \cup behind[Home(t)] \cup late[t]
    BY <2>5 DEF Agrees, CopyAgrees
  <2> QED
    BY <2>5, <2>6, <2>7
<1> QED
  BY <1>1, AgreesInit, AgreesStep, TypeHolds, PTL DEF Spec, SavesChangeTheirOwn
=============================================================================
