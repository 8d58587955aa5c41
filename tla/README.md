# A verification of QuMail

QuMail sends end-to-end encrypted mail over ordinary SMTP and IMAP. This
directory holds TLA+ modules that model what the program does with the mail it
receives and sends, with the files it keeps, and with those who log in at its
web inbox; the TLC configurations that check them on small instances; and
proofs that the TLA+ proof system checks for every instance. `PROJECT.json`
lists the runs, the theorems, the source lines behind each definition and the
hazards the properties are aimed at. File names are relative to `src/qumail/`.

## 1. Inventory

| Part | State | Operations | Hard behaviour |
|---|---|---|---|
| Replay guard (`replay.py`) | ids with timestamps in memory, `replay.json` | check freshness, check unseen, record (prune, save), load | crash between memory, file and delivery; clock set back; the cap; a damaged file |
| Receive pipeline (`receiver.py`) | stop flag, the poll in progress, the backoff | poll, process, file an invitation, sleep, stop | order of checks and effects; a failing step; what is flagged read; a stop during a wait |
| IMAP access (`transport/imap.py`) | the connection; on the server the mailbox and its flags | search, fetch, flag | lost connections; flags changed by other clients; the limit of a search |
| Delivery (`delivery.py`) | the output directory | write the text, its metadata, optional HTML | two files, one message |
| Trust store (`contacts.py`) | keys by fingerprint in memory, `contacts.json` | add, learn, remove, look up | several copies of one file; threads on one copy; memory ahead of the file |
| Invitations (`invites.py`) | one file per request | add, list, accept, dismiss | the limit; accept and dismiss at once |
| Web application (`web/server.py`, `web/store.py`) | poller thread, send lock, shared stores, sent log | send, invite, add, accept, dismiss, read | handler threads beside the poller; sent but not recorded; recorded but not answered |
| Web login (`web/auth.py`) | failed attempts per client; the session secret | lock, fail, succeed; issue and validate sessions; check CSRF | attempts in flight; a clock set back; pages left over |
| Atomic files (`fsutil.py`) | the file and its temporary | write, read | crash and power loss inside the write; removal first on Windows |
| Envelope, keys, KEM, AEAD (`crypto/`) | none | seal, parse, verify, open | binding of every field; order of checks |
| Armor (`armor.py`) | none | armor, find the one block | quoted, repeated and truncated blocks |
| Keystore (`crypto/keystore.py`) | one encrypted file | save, load, keygen, restore at start | commands at once; checks of every field; forms of a number |
| SMTP (`transport/smtp.py`) | the connection | connect, STARTTLS, log in, hand over, quit | failure after the server accepted |
| Command line, configuration (`cli.py`, `config.py`) | none that lasts | start, keygen, send, receive, contacts, requests | several commands beside the web process |
| TLS settings, pages, errors, logging, tools, tests | none | | |

The parts meet in the receiver. A poll opens a connection, searches, and takes
one mail at a time through armor, envelope, replay guard, trust store,
decryption, replay record and delivery; then it sets the `\Seen` flag. The
command line runs the pipeline in a loop, the web application in a thread
beside its request handlers. Sending goes the other way: trust store, envelope,
armor, SMTP, and in the web application the sent log. All processes of one
installation share the files below the home directory and no lock; each file is
written through `fsutil.py`.

What makes each part correct:

- replay guard: no message inside its window is accepted twice, whatever is
  interrupted; the record is on disk before the message is; it stays small;
- pipeline: a rejected message leaves no trace in the record; a wanted one is
  not dropped and is eventually reached; what is in the inbox is vouched for; what
  was dealt with leaves the search;
- trust store: a key is in it because somebody decided so; a save changes what
  its process changed and nothing else;
- invitations: bounded; none vanishes undecided;
- delivery and files: a reader sees all of a file or message or none of it;
- login: one throttle key gets no more attempts than the limit and the threads
  under way allow; a lockout ends; a session that has ended does nothing more
  than what was in hand;
- envelope: what opens is what was sealed, by whom and for whom it says; an
  identity that is mixed up comes in only if all that names it was made up too;
- keystore: what was saved is what is loaded, and nothing else loads; no
  command destroys an identity by mistake;
- sending: what is called sent was sent; nothing is sent twice unless its
  outcome is in doubt or the user did not wait; messages leave in the order they
  were sealed; every request ends and the send lock is free again;
- loops: a stop is prompt, a backoff grows to its limit and no further.

## 2. Modules

| Module | What it is |
|---|---|
| `ReplayRules` | The arithmetic of `replay.py`: freshness, pruning, the cap. No state. |
| `ReplayGuard` | The guard in one process: clock, memory, file, and the points of `process_body` at which a crash can fall. |
| `Acceptance` | The abstract promise: each message goes from new to claimed and then to delivered or lost; nothing comes back from there. |
| `Receiver` | One process's receive pipeline with the mail server, the disk and their faults. It refines `ReplayGuard`. |
| `PollLoop` | The loops around a poll: backoff, sleeping, stopping. |
| `TrustStore` | `contacts.json` and the pending requests under several processes and threads. |
| `Envelope` | A message from `seal` to `open_envelope` and an invitation to its parsing, over symbolic terms. |
| `AtomicFile` | The write of `fsutil.py`, step by step, with failure, death and power loss. |
| `Keystore` | The keystore's format and the commands on it; composed on `AtomicFile`. |
| `WebLogin` | The throttle, the sessions and the CSRF check under several handler threads. |
| `Outbox` | Sending from the web and the command line over SMTP, the sent log and the answer to the user. |
| `*Proofs` | The theorems about `ReplayGuard`, `Receiver`, `TrustStore`, `Envelope`, `Keystore` (with the lemmas about `AtomicFile`), `WebLogin`, `Outbox` and `PollLoop`. |
| `MC*` | Small instances. |

Some operators have a variant before them that makes one plausible mistake
(`ClearAlways` before `Clear`, `SealUnlocked` before `Seal`). No specification
uses one: `PROJECT.json` pairs each with the property that notices the mistake.

### ReplayRules and ReplayGuard

`seen` is `ReplayGuard._seen` and `file` the contents of `replay.json`, both as
sets of (id, timestamp) pairs. `Prune` yields a set of possible results, because
`sorted` keeps entries of equal timestamp in dict order, which the model leaves
open. Of a message only the two signed header fields the guard looks at remain.
`pc` cuts `process_body` where something outside the process's memory changes:

    idle --Check--> opening --Record--> saving --Save--> delivering --Deliver--> idle

`Refuse` stands for any later rejection, `WriteFails` for an exception out of a
write, `Crash` and `Restart` for the life of the process, `Damage` for a file
that no longer parses (`_load` then starts empty). Other damage that `_load`
handles in the same way (too large, not a dict) has no action of its own, and
damage that it does not handle (bytes that are not UTF-8) is not modelled; it is
among the hazards.

`time.time()` need not be monotonic: `Tick` may set the clock back by up to
`ClockBack`, which is at most the skew allowance. That is the amount `_prune`
provides for. `high`, `recorded`, `saved` and `delivered` are history variables.
A start from a damaged file resets the last three: what happened before is then
outside the guard's knowledge, as the comment at `replay.py:53` says.

### Receiver

`box` is the mailbox by uid, `flagged` the `\Seen` flags. A mail is a record of
what the pipeline tells apart: its kind (message, malformed, invitation,
malformed invitation, other mail, oversized, or one whose processing raises what
no handler of the pipeline names), its message, its sender, and
whether it is addressed here, carries the sender's key, and verifies. Decoding,
verification and decryption appear as the outcome they have. Names of actions
follow the code: `Poll` is connect and `search_unseen`, `Fetch` is `fetch`,
`Examine` is `process_body` up to `check_unseen`, `KnownSender`, `LearnSender`
and `Defer` are the three ways out of `_resolve_sender`, `Reject` and `Record`
those of `open_envelope`; `Pin`, `Save`, `WriteBody`, `WriteSidecar` and `Flag`
are the five writes of a message. An invitation is looked at and counted in
`ReadInvitation` and written in `FileInvitation`. `Unhandled` is a mail that makes
`process_body` or the parsing of an invitation raise an exception that
`receiver.py:157-176` does not catch: the poll ends and the mail stays unread.
`recorded`, `saved` and `unkept` are history variables; `unkept` are the keys
whose save failed, or that a save of another process took out of `contacts.json`.

The module is about one process with a pipeline. Commands on the same home
directory (`import-contact`, `remove-contact`, `pending`) are other processes:
`LoadCopy` is the load at their start, and `SaveCopy` the save of that copy with
one key more or less, however much later, so that what the receiver pinned in
between is lost. `Decide` takes a request off the list. The handler threads of
the web process, which share the receiver's copy, are in `TrustStore`.

The order is the code's. The header of `receiver.py` (lines 3-11) and
`SECURITY.md` list the checks in another order: in the code the sender is looked
up, and learned, after the replay check and before the signature is verified.

The faults are the disturbances the code can meet: a crash at any point; a write
that fails, after which the web poller carries on (`Abandons`) and the command
line daemon dies (`Ends`); a connection lost in fetch or while flagging; a
refused fetch or store; a stop request; another client that changes flags; the
commands of other processes. `Disturbances`, `MaxFaults` and `MaxBox`
choose and bound them for the model checker.

Left out: the HTML copy, written after the metadata; the log-once set
`_deferred`, which only affects logging. The seconds slept are in `PollLoop`.

### PollLoop

`loop` says which of the two loops runs. `Receiver.run_forever` sleeps in slices
of at most a second (`Test`, `Slice`, `Wake`) and backs off on a
`TransportError`; any other exception ends it. `WebApp._poll_loop` waits on an
event, which a stop sets, and backs off on anything; the daemon waits for the
backoff and then doubles it, the web loop doubles it and then waits. `left` and
`nap` are the ticks to the deadline and to the end of the slice, instead of
clock readings. The clock is read in the loop's condition and again for the
slice: when the deadline passes between the readings `time.sleep` is given a
negative number and the daemon ends (`Slice`, to `dead`). `wait`, `failed` and
`overdue` are history variables.

### TrustStore

`file` is `contacts.json`, `mem` each process's copy, `pending` the request
files. A command line process loads its copy when it starts; the web process
loads once and its threads share the dict. Between two steps of a thread
anything may happen, so a command is cut wherever it reads or writes something
shared:

    accept:  get -> check -> scan -> assign -> copy -> write -> exists -> unlink
    add:     check ...            learn:  learn -> assign ...
    dismiss: exists -> unlink     remove: pop -> copy -> write
    offer:   known -> room -> file

`Scan` is the loop over the dict in `add` that looks for a namesake; it raises
when another thread has changed the size of the dict since the loop began
(`ScanFails`). `Write` replaces the file by the copy; `WriteFails` leaves the
change in memory. Two bundles share a fingerprint only if their addresses differ
in case, so a bundle is a fingerprint and a spelling. `remove` belongs to the
command line only (`cli.py:135`), and the pending requests that are there at the
start are within `MAX_PENDING`. A request whose file
cannot be read back, and the size limits, are left out. `own`, `behind` and
`late` are history: what a process changed itself, what other processes changed
since it read the file, what its other threads wrote since a copy was taken.

### Envelope

Keys, signatures and ciphertexts are terms that are equal when they are built
from the same parts, so a message is bound to exactly what `Canonical`,
`Transcript` and `SignedBytes` put into those terms, and no more. `Write` and
`Invite` put a block into a mail; `Examine`, `Resolve`, `Verify`, `Open` and
`ReadInvitation` are the receiver's steps in the code's order. The mail path is
external: it may exchange any field for that of another message or make it odd
(`DamageMessage`), change one field of an identity (`DamageInvitation`), quote an
older block, or cut off the end line (`CutOff`). It may also make an identity up:
a bundle with a key or an address exchanged and then the claimed fingerprint left
out or computed anew (`MadeUp`), offered in an invitation (`ForgeInvitation`) or
attached to a message whose header names it (`ForgeSender`); `forged` remembers
that it did. `known` ranges over every contact store the reader may have: anyone
but the reader, under one spelling each, and the made-up identities of
`Strangers`, which earlier mail may have brought. The replay guard and the order of deferral are in `Receiver`.

### AtomicFile and Keystore

`file` is what a process finds at the path; `survivors` is the set of contents
that may be found there after a loss of power, which is more than one as long as
a rename has not reached the disk, since nothing syncs the directory. `temp` is
each writer's temporary file and how far it has come. `windows` chooses whether
the target is removed before the rename.

`Keystore` uses those steps for its two writers, `save` under `keygen` and
the restore from the environment at the start of every command (`Start`,
`Restore`, as `main` calls `bootstrap_keystore`). A file's content is a record of
its fields. A number has a form besides a value (`1`, `1.0`, `"1"`), because the
header is authenticated as Python reads it and writes it out again. A ciphertext
opens under the key, nonce and associated data it was made with. `Damage` changes
one field, to another value or another form; a ciphertext that was altered opens
under no associated data (`OddCiphertextAssumption`: AES-GCM authenticates).
`Expose` opens the file to other
users. `sealed`, `loaded` and `destroyed` are history.

### WebLogin

Time is in ticks, several to a second, because the code takes `int()` of a
remaining time and cuts the expiry of a token to a whole second. The model keeps
the age of the last failure and what is left of a token in place of readings;
`SetBack` makes failures younger and tokens longer. `Refuse` and `Admit` are
`_handle_login` up to the password; between them and `WrongPassword` or
`RightPassword` other threads may pass under the same key. The key is that of
`_client()`: the first entry of `X-Forwarded-For`, whoever wrote it, and the
peer's address without one (`KeyOf`), so a browser may count under several keys
and several browsers under one. `Post` checks the session, and `Act` or `Forbid`
the form, later. `Render` gives a browser a page
with the token derived from its session; `Logout` clears the cookie and nothing
on the server. `Restart` forgets the counters, and the sessions unless a secret
is configured. Hashing and signing are opaque. `wrong`, `quiet`, `late` are
history.

### Outbox

A sender is a handler thread of the web inbox or a process of the command line.

    resolve -> send lock -> seal -> connect -> [STARTTLS] -> log in
    -> hand over -> QUIT -> record as sent -> unlock -> answer

The command line takes no lock and records nothing. `relayed` is what the server
accepted (external), `sent` the sent log, `told` what the user last heard of each
text: an answer, or that the connection closed. A user submits a text again at any
moment until told that it was sent, also while an attempt is under way, since
nothing in the code knows a text again; `hasty` remembers the texts for which
that happened, and `doubt` the messages that the server accepted and of which
nobody was told so. Between the acceptance and the answer there are four steps,
and each may be the last: the answer to the message is lost (`AnswerLost`), QUIT
is refused (`Fail`), the record cannot be written (`RecordFails`), the browser
has gone before the redirect (`RedirectLost`), or the process dies (`Crash`, of
the web process with all its threads or of one command). The end of smtplib's
`with` block lets a server that has gone away before it answers QUIT pass, and
raises on an answer other than 221; so `Quit` covers both an answer and its loss.

A message is named by its place in the order of sealing. The clock is left out:
what is claimed is the order in which messages leave, which does not depend on
what `time.time()` says.

## 3. Runs

| Run | Shows |
|---|---|
| `replay_guard` | The guard with a cap smaller than the number of messages, a clock that is set back, crashes, failed writes and a damaged file. |
| `replay_guard_below_cap` | While the cap is not reached and the file is undamaged the guard implements Acceptance: each message is accepted at most once. |
| `receiver` | Mails that clash (a message, its forgery, a sender to learn, requests) under a crash, a failed write, a lost connection, a stop request and a mail client that changes flags. |
| `receiver_backlog` | Every kind of mail, read mail included in the search, so that every mail is met again and again, while other processes load contacts.json and later save their copies of it, with a crash, a failed write or a lost connection: who vouches for what is delivered. |
| `receiver_live` | With mail in the queue that lingers or that ends every poll, a crash and network faults: wanted mail is taken and what was dealt with leaves the search, unless it is out of the reach of every poll. |
| `receiver_starved` | Violation: Mail that stays unread fills the limit of a poll for ever and keeps newer mail out. |
| `trust_store` | The web process with two threads and a command line process work on contacts.json and the pending requests at once, with a crash or a failed write: who becomes a contact, which requests survive, what a save may overwrite. |
| `web_login` | Two handler threads and two throttle keys, one of them out of a header, login attempts in flight, sessions that expire while a form is being read, pages left over from earlier sessions, a restart with and without a configured secret, and a clock that is set back. |
| `keystore` | Two processes make, restore and open one keystore, on POSIX and on Windows, with a failed write, a death, a loss of power or damage to any field. |
| `envelope` | Two messages among three people, any field of one exchanged for that of the other or made odd, an identity made up with or without its fingerprint, a block quoted or cut off, every contact store the reader may have: what opens, and as what. |
| `outbox` | Two web handlers and the command line send two texts through a server that fails at any point, with answers lost and processes that die in each step, a user who may not wait for the answer, and new contacts: what was sent, what is recorded, what is sent again, in which order it leaves, and that every request ends. |
| `poll_loop` | Both loops around a poll with poll intervals below and above the longest backoff, any series of failures, and a stop request at any moment. |

A violation run checks one sentence of the documentation, quoted with its line
in `PROJECT.json`, against what the code does; its counterexample is the
scenario. `receiver_live` states what does hold instead: `WantedMailIsTaken`
excepts mail behind `Limit` older mails that stay in the search, and mail behind
one that ends every poll.

Exceptions that the properties name are in the code: `AtMostOnce` excepts
messages crowded out by the cap; `GuessesAreBounded` allows one attempt more for
each further thread; `PendingIsBounded` likewise; `SavesChangeTheirOwn` excepts
what others wrote meanwhile, which such a save undoes; `StaysInPlace` and
`NoStrayKeygen` are about platforms where a rename replaces the target;
`DeliveredIsVouchedFor` excepts keys whose save failed and keys that another
process's save took out; `WholeUnlessForged` excepts identities made up whole;
`TwiceOnlyInDoubt` excepts texts submitted while an attempt was under way;
`SessionsEndOnce` lets a token live again when the clock is set back.

### Bounds

- Messages. Four for the guard: the interesting relations between two messages
  are equal id, equal timestamp, neither; all occur. Three for the receiver.
- Clock. The guard's clock runs from before the first timestamp until every
  message has left the window even after the largest step back. The receiver's
  runs over three readings with a window of one, so that mail expires while it
  waits; steps back are left to the guard, whose refinement by the receiver
  (`ClockBack <- 0`) is checked.
- Cap. 2 with three ids, so that recording the third evicts one of three, and
  two timestamps, so that some evictions choose among equals; for `Acceptance` 4.
- Mailbox. Two mails for safety, three for liveness: one that is wanted and two
  that stand in its way. The limit of a poll is 1 or 2, at or below that. In
  `receiver_backlog` any number of commands may hold each version of
  `contacts.json` that there has been. `receiver_live` has no failed writes, after
  which a mail that is on record but was not saved is taken for a replay and
  flagged, and nobody removes a contact in it.
- `trust_store`. Two threads of the web process on one copy and a command line
  process on another, four commands, two requests with a limit of two, one
  fault: enough for three writers to overlap and a fourth command to meet what
  they left. Each thread has the commands that clash with those of the others.
- `web_login`. One browser and two keys, its address and a header. Two threads,
  two attempts, a lockout of two seconds and a lifetime of one at two ticks each,
  so that a fraction can be lost; one token, with and without its page; one
  restart or one step back of a tick. The proofs have any number of each.
- `keystore`. Two processes (interchangeable: symmetry, no liveness), three
  commands, one fault. The third command opens what two writers left.
- `envelope`. Three people, two messages, one change: every pair of messages
  with equal or different sender, recipient and subject, and every field. One
  change is enough to make up an identity and its names at once; what a made-up
  identity of an earlier mail does is in the contact stores of the start. Each
  person is known under one spelling; for one sender and the reader it is not that
  of their own identity.
- `outbox`. Two handlers and a command, two texts, two submissions that reach a
  contact and two faults: two attempts at one text or at two, at once or after each
  other, and a fault in each.
- `poll_loop`. Nothing is scaled down: intervals of 5 s to an hour, a backoff from
  5 to 300 s, at two ticks to the second; up to two ticks may pass between two
  readings of the clock.
- Faults. One or two of each kind chosen; the second falls into the recovery
  from the first. The proofs need none of these bounds.

### Fairness

`Receiver!FairSpec` assumes weak fairness of `Process`, the disjunction of the
process's own steps: the loops in `run_forever` and `_poll_loop` go on whatever
a poll does, and after a crash the service manager starts the process again
(`deploy/qumail-receiver.service`: `Restart=on-failure`; `docker-compose.yml`:
`restart: unless-stopped`). A clean exit on request is not restarted by systemd,
so the liveness run has no stop requests. Nothing is assumed of the
environment: mail, clock and faults may occur or not; faults are finitely many
by `MaxFaults`, without which a connection that always fails would keep all mail
out.

`WebLogin!FairSpec` assumes that time passes, and nothing of threads or clients:
a lockout ends even if nobody does anything and even if the client keeps trying.

`Outbox!FairSpec` assumes strong fairness of each sender's own steps: every
network step ends by an answer or by the timeout that `smtp.py` sets on the
connection, and `_send_lock` is granted to each waiter eventually. It does not
assume that sending succeeds: a fault may take the place of any step, and the run
bounds the faults.

## 4. Proofs

Every theorem holds for every value of the constants that the named assumptions
of its module allow.

**`ReplayGuardProofs`** (any set of messages with natural timestamps, any clock,
window and cap): `TypeCorrect`; `AcceptedAtMostOnce`; `RecordedBeforeDelivery`;
`RecordIsBounded`, that memory and file never exceed the cap;
`NothingTwiceBelowCap`; `ImplementsAcceptance`. The assumption with content is
`ClockBackAssumption`, that the clock is never set back by more than the skew
allowance.

At-most-once is not inductive. The invariant `Inv` adds that each copy of the
record *answers* for every saved message: it holds the id with a timestamp at
least as late, or the message is older than the horizon measured from the
highest clock reading, or it was crowded out. Each disjunct survives every step:
pruning drops an entry only below the horizon or in favour of `MaxTracked`
entries at least as recent (`PruneDrops`), the highest reading never falls, and
recorded messages only accumulate (`AnswersPersist`). A message that passes both
checks although it was saved must then have been crowded out
(`FreshUnseenIsCrowded`): its id is not in the record, and as the clock is at
most `MaxSkew` behind its highest reading it is not below the horizon.

**`ReceiverProofs`** (any mails, senders, limits and disturbances): `TypeCorrect`,
whose invariant `TInv` adds what `process_body` has established about the mail in
hand at each point; `InboxIsWhole` from `RecordsInv`, that every record, in memory,
on disk or in the inbox, is covered by the one written before it;
`NoIdIsConsumed`, from `VouchedInv` and `WelcomeInv`: what was ever recorded came
in a genuine mail addressed here, and its sender was a contact at that moment,
which only somebody introduced can be;
`NobodyImportsThemselves`; `NothingWantedIsEverDropped`;
`DeliveriesAreVouchedFor`, whose invariant `VouchedInv` says that whom the process
trusts is in `contacts.json`, but for the sender it is about to pin and for the
keys in `unkept`, and that the sender of each mail past the lookup is trusted: so
neither a crash nor a later save of the receiver takes a key out, and a save from
another process's copy puts what it drops into `unkept`;
`ImplementsGuard`, step by step: each action of the pipeline is an action of
`ReplayGuard` or leaves the guard's state alone. Through it (`Carried`) the
theorems about the guard hold of the pipeline: `WrittenAtMostOnce`,
`NeverWrittenTwice`, `RecordedBeforeWritten`, and `ImplementsAcceptance`, so that
below the cap the whole pipeline implements the abstract promise.

One of them has hypotheses. `NothingWantedIsEverDropped` assumes that two
different genuine messages never share an id (`IdsAreUnique`; an id is 16
random bytes, `envelope.py:59`) and that senders' clocks run ahead by the allowance at most
(`ClocksAgree`): a colliding id is taken for a replay, and a message from too far
ahead is rejected, by design.

**`TrustStoreProofs`** (any bundles and commands, any number of processes, of
threads in the long-lived ones, and of crashes and failed writes): `TypeCorrect`;
`NobodyIsTrustedUnasked`; `RequestsAreKept`; `PendingStaysBounded`, where somebody
files requests at all; `SavesAreTheirOwn`. Each has an invariant about threads that
are half-way. `Origin`: what a thread holds between reading a request and writing
the file was decided by somebody. `Decided`: a request that has left the list is
dismissed, stored, or in the hands of a thread that has yet to copy and write it;
this is where the order of `accept`, file first and request afterwards, counts.
`Spare`: the requests on the list and the threads that have passed the test for
room together exceed the limit by at most the number of filing threads less one.
`Agrees`: a process's memory differs from the file only in what it changed itself
and in what others wrote since it read it, and a copy only in what its own threads
wrote since besides; both must be stated of every process at once, since a save of
one makes the others fall behind. A fresh process has read the file as it is.

**`EnvelopeProofs`** (any people, spellings and subjects, any number of messages,
any number of changes): `OpensAsSealed`, `LayersBind`, `NothingUndamagedIsRefused`,
`StrangersAreForged`. The invariant says of each sealed message that it is made
as `seal` makes it (`Authentic`), of each block on its way that its fields come
from sealed messages or are odd, and that its signature is one that somebody made
or garbled (`FieldsOK`), and of a mail without damage that it is as sent
(`AsSent`). Of an identity it says that it is somebody's, under some spelling, as
long as nothing was forged (`Identities`); after that nothing is said of the
identity attached, and the rest must follow from the header and the signature: a
signature made by a person covers a header that names that person's whole
identity, so nothing verifies under another (`VerifiedIsSealed`). That what verifies is a sealed message follows from what the signature
covers (`SignatureCoversAll`), that a key names its recipient and header from what
goes into the derivation (`KeyNamesRecipientAndHeader`): a field left out of
`Canonical`, `Transcript` or `SignedBytes` ends these proofs. The assumptions are
those of the module: the reader is one of the people, no address is
empty, and the spellings of one address are equal in lower case. Cryptography is
symbolic, so the theorems are about what is bound to what and not about strength.

**`WebLoginProofs`** (any number of clients and threads, any limits):
`TypeCorrect`, which bounds what a token has left by its lifetime and the steps
back; `GuessesAlwaysBounded`; `SessionsRunDry`; `SessionsEndForGood`. A
wrong guess is counted after it is tried, so the bound is not inductive:
`CountedWithUnderWay` bounds the count plus the attempts under that key that are
past the lockout test. `Remembered` ties the guesses made to the count, and
`NeverLooksOlder` says a counted failure never looks older than the time since
the last guess, so a lockout is forgotten only after a pause as long. An attempt
is let through only below the limit (`BelowTheLimit`), so its coming under way
keeps the bound; the clock being set back only makes failures look younger.
The sessions rest on `SInv`: a token that was issued is signed with a secret of
this process or an earlier one (`Signed`), and a post that is past the session
check carries a token that was issued (`PostsOfSessions`). `SessionsRunDry` counts
what was done late together with the requests that are past the check
(`LateOK`): only a session that is valid lets another one past.

**`KeystoreProofs`** (any processes, addresses, passphrases and damage, any
number of failures and power losses): `TypeCorrect`, `KeystoreNeverTorn`,
`KeystoreStaysInPlace`, `KeygenNeverStrays`, `LoadsAreExact`. The first part of
the module shows for each step of the write of `AtomicFile` that it keeps
`FileInv`: what is cleared or renamed into place was synced, and nothing that a
loss of power may leave was written in part. The keystore's steps are cited from
it, one lemma per group. `KeygenNeverStrays` adds that while a command that
found a keystore runs there is one (`Found`), and that a plain keygen that has
come to writing found none (`BeganWithout`); both hold where a rename replaces
the target and neither where it is removed first. Power loss ends every command,
so `Found` survives it. `LoadsAreExact` is about the content instead of the
file: wherever a keystore may be read from (the file, what a loss of power may
leave, a temporary file, the backup) its ciphertext is one that a save made or
was altered (`Genuine`), and the associated data of a ciphertext is the whole
header, so it opens in the very file that was written and nowhere else
(`OpensWhatWasSealed`, `OpensNowhereElse`, `AlteredNeverOpens`).

**`PollLoopProofs`** (any intervals, backoff, slice and delay):
`StopAlwaysPrompt`, `BackoffAlwaysSane`. `PromptInv` says that where a slice or a
wait may begin no tick has passed since the request, and that inside a slice the
time overdue and the rest of the slice add up to at most a second and one delay.
`BackoffInv` relates the last wait to the backoff for either order of waiting and
doubling.

**`OutboxProofs`** (any handlers, commands, texts and contacts, any number of
faults): `TypeCorrect`, `SentLogAlwaysTrue`, `TwiceAlwaysInDoubt`,
`OrderAlwaysKept`. The invariant has two parts beside the types. `UserInv` says of
every text that is not in `hasty` that one sender at most has it under way, and
that it has not been reported as sent. `MailInv` says of every message the server
accepted that it is in doubt, was reported as sent, or is held by the sender that
has its text under way, which is still to give the answer. A text is handed over
only while it is under way, so an earlier message with the same text is in doubt
(`FirstButForDoubt`); the four steps between acceptance and answer keep the
message in the hands of its sender, and each way of ending between them puts it in
doubt. For the order (`OInv`), what handlers have handed over was sealed before
what a handler holds (`OldestFirst`). That is inductive only because the lock lets
one handler at a time hold a message between sealing it and handing it over.

All safety properties that the runs check of these modules are proved. Only
model-checked: liveness under fairness (`WantedMailIsTaken`,
`HandledMailIsFlagged`, `LockoutEnds`, `AnswersCome`). Liveness, ENABLED and
induction over data are out of the prover's reach.

## 5. What the code does that its documents do not say

`receiver_starved` is the one disagreement with a run of its own. These were met
while modelling, and the properties above are worded around them:

- At the cap, an id inside the window is forgotten (`replay.py:68`), where
  `replay.py:9` says nothing inside the window is processed twice.
  `NothingTwiceBelowCap` proves the sentence below the cap.
- A running receiver never reads `contacts.json` again, so a key imported from the
  command line is not known "on the next poll" (`receiver.py:106`,
  `SECURITY.md:170`) but after a restart.
- A message whose text could not be written is on record, so the next poll takes
  it for a replay and flags it read: a mail is flagged read although it was not
  handled (`transport/imap.py:171`).
- A key that `learn` failed to save stays in memory, and mail from it is accepted
  until the process ends (`contacts.py:136`). A key that was saved is lost when a
  command that loaded `contacts.json` earlier saves its copy (`contacts.py:60`).
- A mail can end the poll with an exception that `receiver.py:157-176` does not
  catch: an attached identity that is JSON nested too deep (`RecursionError`,
  `crypto/keys.py:141`), an address without a UTF-8 form (`UnicodeEncodeError`,
  `crypto/keys.py:85`), an integer of more than 4300 digits (`ValueError`,
  `crypto/envelope.py:179`). It stays unread, is met first by every later poll, and
  nothing behind it is reached, against `receiver.py:13-14`.
- The fingerprint in an identity catches "tampering" (`crypto/keys.py:129`) only
  where it is there and was not computed anew: without it, or with a new one, a bundle of mixed keys is read back and is an
  identity of its own, with a fingerprint nobody has.
- A row of `contacts.json` that does not parse is skipped (`contacts.py:51`), and
  the next save erases it.
- The header of `receiver.py` (lines 3-11) and `SECURITY.md` list the checks in
  another order; in the code the sender is looked up, and learned, after the
  replay check and before the signature is verified. The header of
  `contacts.py` says there is no trust on first use; `learn` is that.
- `private=False` in `cli.py:74` has no effect on POSIX: `mkstemp` makes the
  file 0600 and the rename keeps that.
- `transport/smtp.py:48` says the user's subject is encrypted; it is a field of
  the envelope's clear header, which is signed and authenticated.
- Five failed logins lock out a throttle key, which `web/server.py:202-206` takes
  from `X-Forwarded-For`; they lock out a client (`SECURITY.md:142`) where a proxy
  sets that header. A lockout also lets the attempts through that were past its
  test. `GuessesAreBounded` is stated for each key.
- A message can go out twice: its acceptance may be lost, QUIT refused, its record
  not written, or the redirect lost, and the form may be submitted again before the
  first attempt has ended (`web/server.py:115-137`).
- The date of a received message is written in UTC and read with `mktime` as local
  time (`web/store.py:119`): in a conversation it is shown off by the zone beside
  the sent messages, and where the zone has summer time two received messages
  around the change may be shown in the wrong order.
- With an interval above 300 seconds a failure in the web loop makes the next
  wait shorter (`web/server.py:103`).
- The daemon ends on exceptions other than `TransportError` out of a poll
  (`receiver.py:246`) and on a negative sleep (`receiver.py:257`); the service
  manager starts it again.

## 6. Not modelled

- TLS settings, pages, the error classes (they appear as the branches they
  select), logging, tools and tests: no state the properties speak of.
- Configuration, but for the backup and the SMTP security setting: it is read
  once, and its limits are constants of the modules. A change of configuration
  between two runs (a wider replay window, say) is not modelled.
- MIME decoding, address validation, base64 and the headers of the mails: values
  that parse or do not.
- The conversations shown (`web/store.py`, `threads`): they read files and change
  nothing. No property is claimed of their order (section 5).
- Sending an invitation from the web (`invite`): it takes the send lock as a message
  does and records nothing. `Outbox` also leaves out that `seal` refuses a subject or
  a text that is too long, which ends the request with an error before anything is
  sent.
- Rows of `contacts.json` that do not parse. The program writes none.
- The HTML copy of a delivered message and the path check of `delivery.py`.
- Commands that only print: `export-identity`, `contacts`, `doctor`,
  `set-web-password`.
- The strength of cryptography: signatures, KEM, AEAD, scrypt and hashes are
  symbolic or opaque.
- Two receivers on one home directory: each keeps a replay record in memory and
  overwrites the file, so each accepts what the other accepted. Nothing in the
  documents promises more.
- A `replay.json` that is not UTF-8, which `_load` does not handle.

## 7. Plan

Done: the guard, its abstract specification and proofs; the receiver, and that it
implements the guard; the loops; the trust store and invitations; the envelope; the
atomic file and the keystore; the login; sending. Each component's safety
properties are model-checked and proved.

Left, in this order:

1. Corollaries worth a name: that a process which is alone loses and revives
   nothing in `contacts.json` (from `SavesAreTheirOwn`), and that with one thread no
   key has a guess above the limit (from `GuessesAlwaysBounded`).
2. Lemmas about the steps behind the liveness properties that need no fairness:
   what crowds a mail out stays, and what does not never comes back.
3. Two receivers on one home, composed from `ReplayRules`, to state how far
   at-most-once goes there.
