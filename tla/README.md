# A TLA+ development for xen-api

This directory holds TLA+ models of parts of xen-api (the xapi toolstack), the
TLC configurations that check them on small instances, and TLAPS proofs of what
holds on all instances. `PROJECT.json` is the index: components, runs, mutants,
the map from definitions to source lines, findings, hazards and theorems.

To check it: `tlc -config <run>.cfg <module>` for every run of `PROJECT.json`,
`tlapm` on every module that holds theorems (`MessageSwitchProofs`,
`SwitchRpcProofs`, `WorkQueuesProofs`, `NbdProofs`, `NbdManagerProofs`,
`UsbProofs`, `ExtauthHookProofs`, `Qcow2Proofs`).

## The system

xen-api is a set of daemons on every host of a pool of Xen hosts. xapi keeps the
pool's database and serves the API; xenopsd runs VMs; squeezed balances memory,
xcp-networkd and xcp-rrdd do networks and statistics; storage is reached through
SMAPI plug-ins. The daemons talk to each other over the message switch. Around
them, Python programs do what is done once per device or per event: attach NBD
devices, export disks, scan and hand over USB devices, configure the host for
Active Directory.

| part | state | operations | what is hard | what makes it correct |
|---|---|---|---|---|
| message switch, queues (`message-switch/switch/q.ml`) | named queues with messages and a counter, index by owner | add, remove, send, ack, transfer | the counter is mutable and not persisted | the index agrees with the queues, identifiers are fresh |
| message switch, daemon (`switch_main.ml`, `mswitch.ml`, `traceext.ml`) | queues, connections and sessions, one mutex, one condition, dump and redo-log | requests, blocking Transfer and Trace, clean-up of closed connections, flush, restart | Lwt interleavings, cancelled waits, a full or failing log, crashes | no lost wake-up, atomic requests, files and memory in step, every request answered |
| RPC library (`unix/protocol_unix.ml`) | wakeners, Ivars, cursors, worker threads | `Client.rpc`, event thread, `Server.listen` | reply before registration, timeouts, retries, crashes of either side | every call returns its own answer, requests are processed and acknowledged |
| work queues (`libs/xapi-work-queues`) and xenopsd's use of them | queues per tag, overrides, aliases, private queues, pool | push, pop, finished, alias, incr, decr, set_size | locks released between pop and redirection, workers that wait for workers | per-VM serialisation, nothing lost, no starvation, no deadlock |
| task server, updates, scheduler (`xapi-idl/lib`) | tasks, update counters, barriers, timers | add, run, cancel, destroy; add, remove, inject_barrier, get | cancellation races, order of updates and barriers | a cancel is seen, an update after a cursor is delivered |
| database redo log (`database/block_device_io.ml`, `redo_log.ml`) | two halves and a validity byte on a block device | writedb, writedelta, read, empty | crash or timeout at every write | what is read is the last database acknowledged, plus a prefix of the deltas |
| database (`database/db_cache_impl.ml`, `db_lock.ml`, ...) | tables, generation, reentrant lock | reads, writes, flush | flush beside writes | a flush is a consistent generation |
| new pool master (`xapi/xapi_pool_transition.ml`, `xapi_ha.ml`) | role, proposal and its time on every host | propose, commit, abort | proposer dies between the phases, proposals expire | no two masters |
| HA planning (`xapi_ha_vm_failover.ml`, `binpack.ml`) | a plan for n host failures | compute, check | combinatorics | a plan that is accepted survives the failures |
| VDI datapaths (`vdi_automaton.ml`, `storage_smapiv1_wrapper.ml`) | state per datapath, leaked ones | attach, activate, deactivate, detach, destroy | failures half-way | the VDI's state is the superstate of its datapaths' |
| events (`xapi_event.ml`) | generations of objects, subscriptions | `Event.from`, inject | batching, deletions | nothing after a token is missed |
| squeezed (`squeezed/lib/squeeze.ml`) | targets and domain behaviour | balance, reserve | uncooperative domains | targets in range, memory conserved |
| vTPM cache (`xapi-guard/lib/disk_cache.ml`) | mode, bounded queue, files | write, read, watch | two Lwt threads over files | the last write is the one that reaches xapi |
| NBD client (`vhd-tool/scripts/python_nbd_client.py`) and `get_nbd_extents.py` | phase, handle, unread replies, unflushed writes | options, connect, write, read, flush, block status, close | a stream without framing, generators, timeouts, refusals | replies are read exactly, writes are durable on close, extents cover the area |
| NBD client manager (`python3/libexec/nbd_client_manager.py`) | devices, one file per connection, a lock file | connect, disconnect | processes that interleave and are killed, a kernel that takes its time | a client keeps its own device, files tell the truth, commands end |
| USB scan and reset (`usb_scan.py`, `usb_reset.py`) | policy, list offered; files and mounts of a chroot | scan; attach, detach, cleanup | devices that come and go between two steps, commands that stop half way | only allowed devices are offered, an attached device can be used |
| qcow2 export (`qcow2-to-stdout.py`) | bitmaps, counts, layout | one run | nothing written can be changed; counts that count themselves; sizes that are no multiples | the image restores the disk and its metadata is true |
| Active Directory hook (`python3/plugins/extauth-hook-AD.py`, `xapi/extauth.ml`, `xapi_subject.ml`, `at_least_once_more.ml`) | nsswitch, sshd and PAM files, lists of administrators; auth type and subjects in the database | refresh on enabling, disabling, start and changes of subjects | changes during a run, locks of pool and host, crashes, failures half way | files and lists are those of the database |

The rest (networkd, rrdd, forkexecd, the Xen backend of xenopsd, data model,
SDKs, command line, other Python scripts) drives the operating system or is generated
or textual; `PROJECT.json` lists it with the reason it is not modelled.

## Modules

| module | models |
|---|---|
| `SwitchQueues` | `q.ml` as pure operators on a record of two maps |
| `QueueStore` | abstract: mailboxes whose operations are atomic |
| `MessageSwitch` | the daemon; extends `SwitchQueues`, implements `QueueStore` |
| `MessageSwitchProofs` | theorems about `MessageSwitch`: types, index and wake-ups; the mutex and what rests on it, and the files |
| `SwitchRpc`, `SwitchRpcProofs` | client and service over an atomic switch; extends `SwitchQueues`; theorems |
| `WorkQueues`, `WorkQueuesProofs` | work queues, workers, pool, operations with parallel atoms; theorems |
| `NbdClient`, `NbdExtents`, `NbdProofs` | `python_nbd_client.py` with any server; `get_nbd_extents.py` on top of it; theorems about both |
| `NbdManager`, `NbdManagerProofs` | `nbd_client_manager.py`; theorems |
| `UsbScan`, `UsbReset`, `UsbProofs` | `usb_scan.py`; `usb_reset.py` composed with it; theorems about both |
| `Qcow2Export`, `Qcow2Proofs` | `qcow2-to-stdout.py`, and the image as its reader sees it; theorems |
| `KeyValueFile`, `ExtauthHook`, `ExtauthHookProofs` | the hook's editing of files; the hook and its callers; theorems about both |
| `MC...` | instances for TLC |

Definitions called "mutant" in a comment are plausible mistakes in the code next
to them; each makes one property of one run fail (`mutants` of `PROJECT.json`).

### SwitchQueues and MessageSwitch

Each connection has one thread (`th`): its request handler, or the clean-up
after it was closed. cohttp reads the next request of a connection only after
the previous answer, so one is enough. An action runs from one Lwt yield to the
next: `Arrive` is `callback` up to the first wait, `Wake` and `TransferTimeout`
the blocking poll, `Enqueue` and `Resume` the queue of the mutex (first come,
first served), `Push` one push to the redo-log, `Close` is `conn_closed`, which
reads the session's queues before it queues for the mutex. Every request is
modelled: Login, CreatePersistent, CreateTransient, Destroy, Send, Transfer,
Ack, Trace, Get; List, Diagnostics, Shutdown's answer and requests without a
session change nothing and are `Query`. `perform` broadcasts to the blocked
Transfers even if it has nothing to perform. An identifier is taken from the
queue's counter in place, before the push, so it stays taken if the push fails.

A Trace waits inside the critical section. `Lwt_condition.wait ~mutex` releases
the mutex and takes it again; when `Lwt.pick` cancels it on a timeout the
re-acquisition goes on in the background (a waiter with `bg`) or leaves the
mutex's queue, and the Trace continues without the mutex (`TraceTimeout`).

With a statedir, the redo-log's consumer (`FlushBegin`, `FlushApply`,
`FlushSave`, `FlushAdvance`) folds the operations into `on_disk_queues`, renames
a complete dump over the old one and only then advances the log; `Crash` may
come between any two steps, and `Start` and `Replayed` load and replay.
`Lwt_mutex` and `Shared_block.Journal` are external and modelled from how they
are used. The rename is taken to be durable. Entry times, the queue's copy of
its name, and the unused `length` are left out. So are a save that raises
(`switch_main.ml:102`, a full disk), after which the consumer is dead and pushes
block for good, and the creation of the files at the first start (`:151`): the
model starts with an empty dump and an empty log.

`ImplementsStore` maps the directory to mailboxes and their counters. It is
checked with a redo-log, failing pushes and without crashes. No run has every
request: `SwitchRedoLog` has no Destroy, Ack, Trace or failing push, `SwitchStore`
no Trace; the theorems are about all of them, but for the hypotheses named there.

### SwitchRpc

One client process with two calls, one with a timeout, its event thread, one
service. A request to the switch is one step, which is what `ImplementsStore`
justifies. `requests_m` is held from `RpcLock` to `RpcRegister`; the event
thread takes it for every message. The reply and the time-out meet in an Ivar,
whose `fill` overwrites (`protocol_unix.ml:46`) although its comment says it can
only be set once: a late reply replaces a time-out that nobody has read yet. The
service starts a thread per request; its threads share the reply connection under
a mutex, which matters for no property and is merged with the step. A service that
crashes starts again with no cursor; a switch that restarts comes back empty, which
is its default configuration (no statedir). When connections are lost the event
thread and the service connect again with the cursor they had, or with none if an
exception has sent them through `thread_forever` (`EventReconnect`,
`ServerReconnect`). A thread whose reconnection fails without an exception ends (the
`assert false` at `protocol_unix.ml:25`); that can only be after the switch went
away, and `Returns` and `Drained` promise nothing then. The client's own crash ends
its calls and is not modelled. `Returns` does not say that a call returns before its
time-out, as `s.ml:154` has it: the timer only fills the Ivar, and a call that is
still connecting or sending notices later.

### WorkQueues

`Push` follows `Redirector.push`: alias, override, coalescing. A worker's round
is `Test`, `Pop`, `Redirect`, the execution, `Finished`, `Finally`. `Pop` is the
end of `Queues.pop`, `Redirect` the section under the global lock; the
redirector's mutex is held from one to the other, which `Pop`'s guard says, and
because threads that wait for that mutex are interchangeable, waiting for it is
not a state of its own. One waiter at most blocks on the queues' condition, so
that condition is modelled by `Pop` being enabled. Executing an item means
setting its alias (migration), then pushing its atoms and waiting for them,
chunk by chunk. The wait may time out (`Expire`); the atom runs on. `Idle` and
`Processing` serve only diagnostics and are left out; cancellation of tasks
belongs to the task server. Items of a tag are numbered in the order they are
pushed, which loses nothing, and tags are ordered as the strings they stand for.
A queue never holds two equal checks, so coalescing looks at the new item only.
`alone` remembers the last `set_size` to begin, as long as none has run with it. The
wait's look at its own task's cancellation (`event_wait`) is left out with the task
server.
`gc` turns the pool's list round on each call, as the code does.

### NbdClient and NbdExtents

What the server has sent is a stream of headers and payloads; one step of the
client reads a header and the payload it announces, as `_parse_option_reply`,
`_parse_simple_reply` and `_parse_structured_reply_chunk` do, and checks magic
number, option or handle, and type. A call is sent in one step (`Call...`) and
answered in others (`Read...`); `ReadFails` is the socket's timeout or the end
of the stream at any point. `Raise` leaves the `with` block, whose `close()` then
runs with whatever is left in the stream; an error number of the server can be
caught by the user, who goes on. The generator of a structured read can be left
before its end (`Leave`). The server (external) may refuse options with or
without a message, fail requests, answer with either kind of reply where the
protocol lets it, and stop. Data is not modelled, except the block status:
`NbdExtents` has the server give any list of descriptors that follows its
status: the marks between which they lie rise from the offset, the status is the
same from mark to mark, and the last begins inside the request (`Marks`). The name of
the context that was selected and the identifier in an answer are the server's, so
the checks of them (`get_nbd_extents.py:50`, `:87`) may fail on any answer (`Fail`).

### NbdManager

A client is a user of a device with the processes it runs, one after the other.
An action is the code between two calls of `nbd-client`, file operations or
waits. The kernel (external) sets a connection up and tears it down some time
after `nbd-client` returns, which is why the code waits; while it tears one down
`nbd-client -check` still reports it. Each of its commands may fail: `-check` in the
search and the waits, the attaching, and `-disconnect` whether or not the device is
connected. `_find_unused_nbd_device` is one step per
device, so that disconnects interleave with it. Any process may be killed. The
constants `NbdsMax` and `MaxRetries` are 24 and 30 in the code; sleeps take no
step of their own.

### UsbScan and UsbReset

udev (external) plugs devices in, brings their interfaces up one by one and
takes them away, while `usb_scan.py` lists devices (`ListDevices`), then
interfaces (`ListInterfaces`), and puts them together by name
(`MakePusbsList`). A device stands for vendor, class and interface classes; a
policy line for its shape, action and pairs, so that the parser's decisions
(skipped, parsed, fatal) are there and its characters are not. A listing is one
step, which is one reading of sysfs; a policy file that cannot be read ends the script,
as one that does not parse does. `UsbReset` attaches what the scan offered: a step each
for device file, owner, `/sys` and `/proc/self`, each of which may fail and end the
command, as a missing chroot does. A domain has one QEMU, so which pid is bound to
`/proc/self` is not recorded.

The header of `usb_reset.py` and its code disagree twice, and the model follows the
code (`findings` of `PROJECT.json`). The header says that detach unmounts
`/proc/self` (lines 30 to 34); the code's detach removes the device's file and leaves
both mounts to cleanup (201 to 205). With the header's detach, the mutant
`DetachUmounts`, `AttachedUsable` fails in the run as soon as a second device is
attached, so the code is right. And the header says that attach gives the file to the
domain's user (line 28); after a `chown` that failed the next attach finds the file,
takes it as done and succeeds, and the file stays root's. The history variable
`spoilt` has the files this happened to, and `AttachedUsable` says that they are
root's and all others the domain's.

### Qcow2Export

The whole program, with its branches by map, by map against a base, by reading
and raw, one step per cluster looked at and per part written. Sizes are scaled
down (a cluster of 4 bytes in sectors of 2, 2 entries per table, 2 refcounts per
block) so that disks of five clusters need several tables and blocks of each
kind. The properties read the image by the format's rules (`Img...`), from the
header on, and compare it with the disk. With a data file the entries of the L2 tables
are followed into that file, which is the raw disk.

### ExtauthHook

One host, the pool's database of subjects, and the callers of the hook: the
three once-more threads of subject changes (`Again`, `ManagerEnds`), the start of
xapi, and `host.enable_external_auth` and `disable`. A call passes the pool's
lock, reads the type for the parameters (`GetEventParams`), tests it
(`CanExecute`) and gets the host's lock (`CallPlugin`); enabling and disabling
hold the host's lock over their own run. A run goes through nsswitch, sshd and
its reload, the lists of users and groups, and PAM; subjects are read one by
one. A configuration file is a sequence of lines (`KeyValueFile`), a list the set
of subjects it permits. The pool has one authentication type, which is that of the
host whose files are modelled: the host a call of `call_extauth_hook_script_in_pool`
starts from looks at its own (`extauth.ml:171`), which enabling and disabling set on
all hosts. The once-more threads live in the pool's master, whose crash is not
modelled; the host that crashes is one of its others. The event after-subject-update
(`xapi_subject.ml:149`), raised when the directory's information about subjects has
changed, is left out: a list is the set of the subjects in it, and their names, which
that event writes anew, do not change here.
Enabling and disabling are guarded by an idle hook unless `SwitchAnyTime`, a guard the
code lacks (see below). A file is written to a temporary one that is then moved into
its place (`shutil.move`), which is taken as one step. `pam_winbind.conf` is the same with and without AD and is left out.

## Runs

Passing:

| run | instance | states | shows |
|---|---|---|---|
| `SwitchMemory` | no redo-log, 3 connections of 2 sessions, one of which traces, 2 queues, 2 identifiers | 400k | `TypeOK`, `NoLostWakeup`, `NothingSkipped`, `SessionDeallocated` |
| `SwitchRedoLog` | redo-log of 2, one crash, a session that reconnects | 808k | `IndexAgrees`, `InSync`, `SessionKeepsQueues` |
| `SwitchStore` | redo-log of 1, failing pushes, two senders, reader, Destroy | 79k | `ImplementsStore`, `Answered` |
| `Rpc` | two calls, one timed, one crash of the service or restart of the switch | 102k | `NoReplyPassedOver`, `Correlated`, `ProcessedOnce`, `Returns`, `Drained` |
| `WorkSerial` | two workers, four items (two equal checks) on a VM, two on another | 22k | `NothingLost`, `Serialised`, `RoundRobin`, `CheckCovered` |
| `WorkEnds` | two redirectors with two workers each, an operation with an atom, a time-out and an alias, a `set_size` that shrinks the pools and one that grows them again, in any order or at once | 264k | `EveryItemEnds`, `PoolSized` |
| `NbdManager` | three clients, two devices, two tries, failing commands, one kill | 337k | `TypeOK`, `HeldIsMine`, `InfoImpliesAttached`, `NoClash`, `CommandsEnd` |
| `NbdExtents` | an export of 4 units, requests of 2, 4 requests, any server | 71k | `StreamInStep`, `DurableOnClose`, `ExtentsCover`, `CallsEnd` |
| `Usb` | two ports, four models, five policies, two devices plugged, three attach commands, every step may fail | 1.2M | `OfferedAllowed`, `QuietScanExact`, `AttachedUsable` |
| `Qcow2` | all disks of five clusters and their bases, disks that end within a cluster | 176k | `Restores`, `RefcountsTrue`, `OnlyDifferences`, `Ends` |
| `Extauth` | a user and a group, two changes, one switch of AD, one crash | 241k | `ListsExact`, `FilesAgree`, `OtherLinesKept`, `RevokedLeaves` |

Violated: `Qcow2Discarded`, the instance of `Qcow2` with three clusters and disks
that lack clusters their base has. `Interval.__contains__` "removes" a cluster
from the middle of an interval by making it the end of the left part, where it
stays; it is counted twice and the refcounts claim clusters that are not in the
image. `Restores` is not affected: the image is larger on paper than in the pipe.

### Where the code does not keep the property

A passing run leaves out what the code does not promise or does not keep.

- Identifiers are not fresh after a crash: replaying a Send does not move the
  queue's counter (`q.ml:67`, `q.ml:202`), so that one is given out twice. No
  property claims that they are.
- Requests do not exclude each other when there is a Trace: one that times out
  while it waits for events unlocks somebody else's mutex (`traceext.ml:185`).
  `SwitchRedoLog` and `SwitchStore` do not trace. `SwitchMemory` does, but without a
  redo-log no request waits while it holds the mutex, so its properties hold all the
  same and say nothing about this.
- `NothingLost` and `Serialised` with two redirectors on one tag (a migration that
  receives memory beside another operation): a private queue put back overwrites
  items that waited. `WorkSerial` has one redirector; nor does it have aliases,
  which `finished` forgets while items pushed through them still wait.
- `PoolSized` is about the last `set_size` that ran with no other, whether earlier ones
  overlapped or not: the pools start with two workers each, so the one that shrinks them
  may come first and the one that grows them take back workers that are still stopping
  and replace those that have ended. Two at once may both remove the same surplus. `gc`
  keeps the workers that were asked to stop: `get_state` reports that they were.
- `Returns` and `Drained` except behaviours in which the switch restarted: the
  client does not repeat calls whose messages were lost. `NothingSkipped` is about
  clients that poll one queue, `SessionDeallocated` about a switch that stays up.
- `SessionKeepsQueues` when two sessions create queues of one name: a clean-up
  removes by name what its session owned when it closed, so that one that waits for
  the mutex takes a queue that was destroyed and made again by another session
  before it. Clients name their reply queues, and their session, by program and process
  (`argv0:pid`, `protocol_unix.ml:87`, `:272`), which two processes of a host do not share.
- `HeldIsMine` with `MaxDisconnects = 2`: a disconnect repeated after its wait
  timed out detaches the connection of whoever has the device by then.
- `OfferedAllowed` leaves out a device that took the place of another between the two
  listings, which the names do not show. `QuietScanExact` is about scans during which
  nothing is plugged or unplugged.
- `FilesAgree` with `SwitchAnyTime`: a call that looked at the type before AD was
  switched off configures the host for AD afterwards. After a failed reload of
  sshd (`run_cmd` does not catch what `check_output` raises) nothing is promised
  until the next full refresh.
- A map of a disk that is no multiple of the cluster size loses its last cluster
  (`qcow2-to-stdout.py:545`); maps in the runs are of whole clusters.

Bounds. Two sessions, two queues and three connections give every pair of
roles (sender, receiver, newcomer with an old session) once. Two identifiers
are enough for a cursor to lie between messages; one crash separates every pair
of adjacent steps of the flush. Identifiers are bounded in `Askable`, the log by
`JournalSize` (real: 32 MiB), crashes by `MaxCrash`. Two workers and two tags
are the smallest instance in which two items of a tag could overlap and one tag
could overtake another. Three clients on two devices make one wait, one attach
and one detach at once, and the search fail. An export of twice the maximal
request has requests that end inside an extent, at one and at the export's end.
Two devices on two ports are enough for one to take the other's place; three
attach commands to follow a failed one by another and a detach. Five clusters
with two entries per table need three L2 tables, two L1 clusters and enough
refcount blocks for the count to grow more than once. Two changes let one come
while a run for the other is anywhere. Runs may end because clients stop asking,
so deadlock is not checked; that nobody waits for ever is `Answered`, `Returns`,
`EveryItemEnds`, `CommandsEnd`, `CallsEnd`, `Ends` and `RevokedLeaves`.

Fairness. Lwt runs every runnable thread and timers fire: weak fairness of
threads, of the consumer and of time-outs. A Trace's timer has fired once and
for all even if the Trace is woken repeatedly, hence strong fairness of
`TraceTimeout`; pushes are served in turn, hence of `PushStep`. A call that
failed sleeps five seconds before it takes `requests_m` again, hence strong
fairness of `RpcStep` and of `EventStep`. Threads of xenopsd are scheduled
preemptively: weak fairness of the workers' and setters' steps together, which is
less than of each; a time-out of an atom is not assumed. A process of
`NbdManager` that is not killed goes on (weak fairness for each client; the
kernel is not assumed to do anything, the waits have deadlines). Sockets have
timeouts: weak fairness of `Receive`; the server need not answer. The qcow2
export is sequential. In `ExtauthHook`, something that can go on does; the locks
need no more since only a change in the database makes a thread go round again.
Crashes, kills, closing of connections and new requests are never fair.

## Proofs

Every theorem is for all values of the constants that satisfy the assumptions the
modules name: any number of clients, queues, workers, devices, crashes, and any
bounds. Besides types the assumptions say that the markers (`None`, an Ivar's time-out)
are no values, that bounds are numbers, that a policy is a sequence of lines.
A theorem that needs more has it as a hypothesis, and below is why. The shape is the
same throughout: the property is not inductive, so a stronger invariant is, with one
lemma per action and one for the initial states.

### The message switch

`TypeCorrect` and `IndexCorrect` (`MessageSwitchProofs`): `IndexAgrees` alone is not
inductive: a directory is published from `newq` of a thread, `acc` of the consumer
or the dump, so each of these has to be well typed and indexed (`Good`). The
invariant `Inv` says so in three parts: what handlers share, what concerns clients,
and the files. Lemmas show that each operation of `q.ml` preserves `Good`.

`NoWakeupIsLost`, from `WakeInv == Inv /\ Quiet /\
NoLostWakeup`: a step either leaves every queue's messages and the cursors of
blocked Transfers as they are, or ends in a broadcast after which nobody is blocked.
`Quiet` (no open connection before the replay is over) is needed for `Replayed`,
which publishes without a broadcast.

Its second half first shows that a step of a client's thread, in whichever of
the many actions, is of one of eight kinds (`Kind`), about one session and one
request (`Serving`), and has one of three effects on the directory (`Effect`).
Then it shows that the mutex excludes (`Exclusive`: one thread at a time inside,
who asked is queued once, the mutex is free only if nobody has or wants it), for
clients that do not trace (`NoTrace`): a Trace whose time is up unlocks a mutex it
does not hold. From exclusion follows `Aside`: the directory a thread has prepared
and is pushing is still what its request makes of the present one.

- `SwitchImplementsStore`: every step is one of `QueueStore` or a stutter. It needs
  that identifiers are below the counters (`IdsBelow`), also the one a Send under way
  has taken, and that nothing is on disk before the first start (`Fresh`). With a
  statedir it is for clients that do not trace, and not across a restart, since
  `next_id` is recomputed from the dump and an identifier is given out twice.
- `GoneSessionsOwnNothing`: an owned queue has an active session, or a clean-up that
  names it (`Owned`). One session a connection, since `conn_closed` cleans up after
  only one; with a statedir no failing pushes and no restart, either of which loses
  removals.
- `PollersMissNothing`: a client's cursor is below what its queue gives out next and
  below what a Send under way has taken, and what is at or below it the client has
  seen (`CursorBelow`). One queue a client, and polled queues stay, since a queue that
  is made again counts from zero while cursors do not. `ServersMissNothing` shows that
  they do stay if they are persistent and nobody destroys them: clean-ups name only
  queues that some client of the session created as transient ones (`HomesOK`, in
  memory, on disk and in the redo-log).
- `SessionsKeepTheirQueues`: who asks for the mutex with the session of a clean-up
  waits behind it (`CleanupFirst`), so the clean-up never finds a queue promised since
  the session came back (`Spared`). It holds with crashes, restarts and failing pushes;
  it needs the mutex (`NoTrace`) and sessions with queue names of their own
  (`OwnNames`).
- `FilesInSync`: the consumer saves a dump that has operations which the redo-log
  still has, so that they are replayed a second time after a crash; the theorem is
  that this makes no difference to a client. Two directories are `Alike` if they have
  the same queues, owners and messages, whatever their counters. For a redo-log that
  is `Valid` (each message is for a queue that is there when it is replayed, or that
  is removed later on), a replay from the directory reached after some of its
  operations leads to one alike that of a replay from the beginning: both go through
  their stages in step (`Stages`, `Lockstep`), by induction over the length of the
  log. `Readable` says that the log is valid for the dump, before and after the
  consumer's operations are in it; `Writers`, that the directory a thread has prepared
  is what its operations make of the present one; `Synced`, that replaying the log on
  the dump gives the queues in memory, but for what a clean-up has removed in the log
  alone (`Forgone`). It is about a switch with a statedir. It needs the mutex
  (`NoTrace`); and pushes must not fail: a clean-up that fails after its first push
  has removed queues in the log that stay in memory.

### The RPC library

`RepliesCorrelated`, `NoRepliesPassedOver` and `RequestsProcessedOnce`
(`SwitchRpcProofs`), without hypotheses. Before the switch is restarted an identifier
is one call's, a wakener is that of the call that waits for it, and every message,
thread and reply in hand names the identifier of its call (`CorrelatedInv`). After a
restart nobody makes the reply queue again, so no reply reaches the client at all
(`FaultsOK`). No reply is passed over because the call holds `requests_m` from its
Send to its registration and the event thread takes it for each message: a reply that
is awaited is still ahead of the event thread (`AwaitedOK`). A request is processed
once for each time it is sent and each fault: `Quota` counts what may still happen (a
thread about to process, a request above the service's cursor, a call about to send)
and no step makes the sum grow but a crash or a restart, by one.

### Work queues

`TurnsTaken`: the times a waiting tag was passed over and its cyclic distance from
the last tag served add up to less than the number of tags (`TurnsInv`).
`NoItemLost`, `ChecksMadeUp` and `ItemsSerialised` rest on there being one queue per
tag, with its redirector or private to a worker, which `Redirect` and `Finished` only
move (`TagsOK`, `OthersEmpty`); every item under way is in one place of it or with one
worker (`PlacesInv`). They need `TagsApart`, items of a tag pushed to one redirector:
the overrides are shared by the redirectors and the queues are not, and without it a
private queue put back overwrites items that wait. `ItemsSerialised` needs
`NoAliases` too: when an alias is forgotten an item may be left in the queue of the
tag it led to. `PoolIsSized` has no hypothesis: a worker ends only if it was asked to
stop, so `gc` keeps all that are active, whichever way round its list is, each `incr`
adds one, by taking a worker back or creating one, and each `decr` takes one, and what
a `set_size` that no other runs with has still to do makes up the difference
(`SizesOK`).

### The NBD client

`NothingLeftUnread`, `ClosedIsDurable` and `ExtentsDoCover` (`NbdProofs`), for any
server that frames its answers. As long as the user has seen no exception there is one request or the
rest of one answer under way (`InStep`), and the header that makes the call return is
the last, with its payload (`Ends`). `ClosedIsDurable` adds that what the client takes
for flushed was acknowledged and is durable (`FlushedIsTrue`) and that a success in
the stream is true of the server (`Truthful`). `ExtentsDoCover` needs that the answer
to a request for a piece of the area, under way or read, is about that piece
(`Asking`), which `InStep` gives, and that what was yielded lies between rising marks
from the area's first unit to the position (`Tiles`): the marks of an answer, cut at
the end of the area (`ClippedIs`), go on where the last answer's ended (`TilesJoin`),
and such a list is the status run by run (`TilesCover`, by induction over the marks).

### The NBD client manager

`TypeCorrect`, `ConnectsExclude`, `HoldersKeepTheirs` and `FilesDescribe`
(`NbdManagerProofs`), the last two for `MaxDisconnects` at most 1, without which they
do not hold. The type of `retries` needs `TryLeft` (a connect under way has a try
left), and `NoClash` needs `LockHeld` (a process in the locked section is the lock's
holder), so both are in `TypeInv`. What a client was given is kept by `UseInv`: from
the attaching to the detaching the device is owned by the client and connected
(`DeviceUsed`), so two such clients have different devices (lemma `UsesApart`) and no
step of one touches what another relies on; the file is there between persist and
forget (`InfoUsed`); and a disconnect that failed has used up the client's only one
(`EndsCounted`), so it is never a failed one that goes on. Most steps leave device and
files alone and take a client out of use: lemma `QuietUseInv`.

### USB

`OfferedDevicesAllowed` and `QuietScansExact` (`UsbProofs`): a number identifies a
device and its model for ever (`HostInv`), so what two listings say of one number is
about one device (`ScanInv`), and while nothing changes it is all there is
(`QuietInv`). The policy's `check` is a recursive function; lemma `CheckAdmits`
characterises it by the first rule that matches, by a smallest counterexample.
`AttachedDevicesUsable`: what a command under way has done is there, and what is
attached is complete (`ChrootOK`); a file is root's if its `chown` is still to come or
has failed, and otherwise the domain's.

### The Active Directory hook

`OtherLinesStay`, `ListsAreExact` and `FilesDoAgree` (`ExtauthHookProofs`). A file is
any sequence of lines and the hook's keys are any sequence, which may repeat a key;
an update is shown to keep the file's length or to add a line at its end, to set what
the file's users take for the key (`UpdateEffective`), to leave what they take for
another key (`UpdateOtherKey`) and every line that is nobody's entry at its place
(`UpdateOthers`). `UpdateKeys` folds updates over the keys; lemma `EditKeeps` carries
what a single update keeps through the fold, by induction over the keys.

The two others rest on `Control`: who holds the host's lock is the caller of the run
that is under way, or a disabling that has not cleared the type yet (`Holder`).

- `ListsAreExact`: `Owed` says that some caller will yet have the lists refreshed. As
  long as nothing is owed, a run has read rightly the subjects it has looked at, and
  those before it are all still there (`ReadSoFar`), so the lists it has installed are
  exact (`Listed`): a change that would make them stale makes a refresh owed, and the
  once-more thread keeps it owed over the end of the run under way. It has no
  hypothesis: AD may be switched while the hook of the start is under way, subjects
  may vanish while they are read, and the host may crash anywhere.
- `FilesDoAgree`: what a full run has done to the files is done (`DoneByRun`), for
  files that before the hook ever ran were those of a host without AD, which is
  assumed of `NssFile` and `SshdFile`. It needs that AD is not switched while the
  hook of the start is under way (`~SwitchAnyTime`, kept by `StartApart`); otherwise a
  call that looked at the type before configures the host for AD after it was switched
  off, as said above.

### The qcow2 export

`DiskIsRestored` (`Qcow2Proofs`), for any disk and base, any sizes of clusters, tables
and refcount blocks, every kind of map and of data file. Its hypothesis `MapsTrue` is
what the program expects of `qemu-img map`: extents in order, and no data in a cluster
that no extent has in full. A map of a disk whose size is no multiple of the cluster size
breaks the latter in its last cluster, which the division of the extent's end
(`qcow2-to-stdout.py:545`) then leaves out; reading the disk has no such case.

The invariant has two halves. `LoopInv`: each cluster of the disk is allocated, or what
is beneath it (the base, or zeroes) reads the same (`Settled`), or the loop under way
will come to it, or the loop over what is left of the base's map will (`Chosen`). The
search in the intervals is shown to return only an interval that has the cluster
(`SearchFinds`); that it finds all of them is not needed, as a cluster it misses is
allocated, and so the removal that leaves a cluster behind (`Qcow2Discarded`) does no
harm here. `ImageInv`: what has been written ends where the layout says the next part
begins (`LaidOut`), and every part written has at its place what the reader looks for
there (`HeaderWritten`, `RefcountTableWritten`, `RefcountBlocksWritten`, `L1Written`,
`L2Written`, `DataWritten`): a table or cluster comes after as many as there are set
indices before its own (`Before`). There is one lemma per action, and `ReaderReads`
follows the format's rules from the header to the cluster.

`RefcountsAreTrue` and `OnlyDifferencesExported` say that the image has nothing too much:
each cluster is referred to once and counted once, and none is there that is the same in
the base. They have two more hypotheses. `MapsInside`: the extents of a map follow one
another and end with the disk, which is so of every output of `qemu-img map`.
`NothingDiscarded`: the disk's map lists all that the base's does. Without it the code
does break the counts (`Qcow2Discarded`): a cluster in the middle of an interval stays in
it, and is allocated again. The instance of `Qcow2` satisfies both (`MapsAreTrue`).

The invariant `ExactInv` adds to the first one: a loop goes up, through clusters of the
disk that are not yet allocated (`TodoExact`), so that the count of clusters is the size
of the bitmap and none is in it that is the same in the base (`BitmapsExact`); what is
left of the base's intervals is apart, is still to be looked at, and has all of the
base's clusters that are (`LeftExact`). So the cluster a loop looks at is the first of
its interval, the search finds it (`SearchMisses`), the removal takes it and no other
(`TakeFirst`), and the loop over the leftover has nothing to do. `CountsExact`: the total
is the sum of the parts, and when the growth of the refcount blocks has ended they and
their table have room for all. At the end the six kinds of references cover the clusters
of the file side by side, each one once (`PlacedOnce`, `UsesAre`), and the refcount read
through the table is 1 up to the end of the file and 0 after it (`RefcountsAre`).

### What is only model-checked

Liveness (`Answered`, `CallsEnd`, `CommandsEnd`, `Drained`, `Ends`, `EveryItemEnds`,
`Returns`, `RevokedLeaves`), since fairness and ENABLED are out of the prover's reach.
Every invariant and action property that a passing run checks is stated by a theorem. Induction over the numbers is at hand:
a lemma (`Induction`) that takes a set in place of a predicate follows from the
well-foundedness of the numbers, and with it go the replay of a log, the fold over the
hook's keys, the descriptors of an answer and the loops of the export. The runs'
instances satisfy the hypotheses of the theorems about their properties, but for the
polled transient queue of `SwitchMemory`, which goes with its session.

## Not modelled

OCaml, of which the plan says more: tasks and updates, the database's redo log
and cache, the election of a master, HA planning, VDI datapaths, events, memory
ballooning, the vTPM cache. Drivers of the operating system or the hypervisor
(networkd, forkexecd, the Xen backend) have their state outside the repository.
Python: `observer.py` wraps functions for tracing and keeps no state; `rrdd.py`
encodes measurements for a reader in another language and sleeps; the IGMP
injector waits on xenstore and sends packets; the SR metadata, metrics and
power-on scripts are one pass over API records; `pytype_reporter.py` is a
developer's tool.

## Plan

1. `Tasks` and `Updates`: `task_server.ml` with cancellation points, and
   `updates.ml` with barriers and blocking `get`; compose with `WorkQueues` in
   place of `status`, so that an atom's end is seen through `Updates.get`.
2. `BlockRedoLog`: the two halves, with a crash or a timeout at every write;
   abstract specification: a database and the deltas acknowledged since.
3. `NewMaster`: two-phase commit with lost calls, failures and expiry.
4. `DiskCache`, `VdiAutomaton`, `EventFrom`; squeezed and HA planning as pure
   operators against reference definitions.
