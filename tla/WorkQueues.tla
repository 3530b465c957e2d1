------------------------------- MODULE WorkQueues -------------------------------
(***************************************************************************)
(* The work queues of xenopsd (libs/xapi-work-queues/xapi_work_queues.ml)  *)
(* and the operations xenopsd runs on them (xenopsd/lib/xenops_server.ml). *)
(* A work item carries a tag, the name of its VM.  Each redirector has its *)
(* queues, one per tag, and its workers.  While a worker executes an item, *)
(* the items with its tag are redirected to the worker's private queue.    *)
(* An item may split into atoms, items of their own on another redirector, *)
(* and waits for them.                                                     *)
(*                                                                         *)
(* The threads are preemptive; an action is what happens under one lock.   *)
(* Threads that wait for a redirector's mutex are interchangeable, so a    *)
(* worker takes it together with the item it then pops.                    *)
(***************************************************************************)
EXTENDS Integers, Sequences, FiniteSets

CONSTANTS
    None,
    Redirectors,    \* the redirectors, in the order set_size visits them
    NTags,          \* tags are 1 .. NTags, compared like the strings they stand for
    NWork,          \* work items are 1 .. NWork
    TagOf,          \* [Work -> Tag]: the tag it is pushed with,
    Home,           \* [Work -> Redirector]: and where it is pushed to
    Check,          \* [Work -> name or None]: the *_check_state it is, if any
    Atoms,          \* [Work -> Seq(Work)]: the parallel atoms it splits into
    Alias,          \* [Work -> Tag or None]: the alias of its tag it sets up
    MaxParallelAtoms,
    MayExpire,      \* TRUE iff the wait for an atom may time out
    NWorkers,       \* bound: worker threads ever created
    StartSize,      \* WorkerPool.start's argument
    Setter,         \* callers of WorkerPool.set_size,
    SizeOf          \* [Setter -> Nat]: and their arguments

Tag        == 1 .. NTags
Work       == 1 .. NWork
Worker     == 1 .. NWorkers
Redirector == {Redirectors[i] : i \in DOMAIN Redirectors}
AtomsOf(x) == {Atoms[x][i] : i \in DOMAIN Atoms[x]}
IsAtom(x)  == \E y \in Work : x \in AtomsOf(y)

ASSUME WorkAssumption ==
    /\ NTags \in Nat /\ NWork \in Nat /\ MaxParallelAtoms \in Nat \ {0}
    /\ Redirectors \in Seq(Redirector) /\ None \notin Redirector \cup Int
    /\ TagOf \in [Work -> Tag] /\ Home \in [Work -> Redirector]
    /\ Alias \in [Work -> Tag \cup {None}]
    /\ Atoms \in [Work -> Seq(Work)] /\ DOMAIN Check = Work
    /\ MayExpire \in BOOLEAN /\ StartSize \in Nat
    /\ NWorkers \in Nat /\ StartSize * Len(Redirectors) <= NWorkers
    /\ SizeOf \in [Setter -> Nat] /\ None \notin Setter

VARIABLES
    qs,          \* per redirector and tag: the items that wait, in order
    last,        \* per redirector: last_tag
    overrides,   \* per tag: the worker whose private queue has it, or None
    private,     \* per worker: its private queue, of its item's tag
    aliases,     \* per tag: the tag it stands for, or None
    pc, home, tag, job,   \* per worker: its place, redirector, tag and item,
    step,        \*   how far the item's execution is,
    stop,        \*   and shutdown_requested
    pool,        \* the list of workers
    expired,     \* the atoms whose parents no longer wait for them
    setAt, setBy,\* per caller of set_size: the redirector it is at, and by how
                 \*   much the pool is still to grow, None before it counted
    alone,       \* history: the last set_size to begin, None if others ran with it
    status,      \* history: per item, how far it got
    skips,       \* history: per redirector and tag, how often it was passed over
    due          \* history: the checks asked for and not begun since

poolVars   == <<pool, stop, home, setAt, setBy, alone>>
queueVars  == <<qs, last, overrides, private, aliases>>
threadVars == <<pc, tag, job, step, expired>>
history    == <<status, skips, due>>
vars       == <<poolVars, queueVars, threadVars, history>>

-----------------------------------------------------------------------------
(* Redirector.push *)

RealTag(x) == IF aliases[TagOf[x]] # None THEN aliases[TagOf[x]] ELSE TagOf[x]

\* Mutant of Coalesced: a check that is already running counts too.
CoalescedRunning(x, q) ==
    Check[x] # None /\ \E y \in Work :
        Check[y] = Check[x] /\ status[y] \in {"queued", "taken", "running"}

\* should_keep: a check_state is dropped if one like it waits already.
Coalesced(x, q) == Check[x] # None /\ \E i \in DOMAIN q : Check[q[i]] = Check[x]

\* push_with_coalesce, on a queue without duplicates.
PushTo(x, q) == IF Coalesced(x, q) THEN q ELSE Append(q, x)

\* Mutant of Push: every item goes to the default queues.
PushDefault(x) ==
    LET r == Redirectors[1]
        t == RealTag(x)
        o == overrides[t]
        q == IF o = None THEN qs[r][t] ELSE private[o]
    IN  /\ qs' = IF o = None THEN [qs EXCEPT ![r][t] = PushTo(x, q)] ELSE qs
        /\ private' = IF o = None THEN private ELSE [private EXCEPT ![o] = PushTo(x, q)]
        /\ status' = [status EXCEPT ![x] = IF Coalesced(x, q) THEN "dropped" ELSE "queued"]
        /\ due' = IF Check[x] = None THEN due ELSE due \cup {Check[x]}
        /\ UNCHANGED <<last, overrides, aliases, skips>>

\* Redirected to the private queue of the worker that has the tag, if any.
Push(x) ==
    LET t == RealTag(x)
        o == overrides[t]
        q == IF o = None THEN qs[Home[x]][t] ELSE private[o]
    IN  /\ qs' = IF o = None THEN [qs EXCEPT ![Home[x]][t] = PushTo(x, q)] ELSE qs
        /\ private' = IF o = None THEN private ELSE [private EXCEPT ![o] = PushTo(x, q)]
        /\ status' = [status EXCEPT ![x] = IF Coalesced(x, q) THEN "dropped" ELSE "queued"]
        /\ due' = IF Check[x] = None THEN due ELSE due \cup {Check[x]}
        /\ UNCHANGED <<last, overrides, aliases, skips>>

\* queue_operation, by a client or by the event thread.  The items of one tag
\* are numbered in the order they come in.
Submit(x) ==
    /\ status[x] = "new" /\ ~IsAtom(x)
    /\ \A y \in 1 .. x - 1 : TagOf[y] = TagOf[x] => status[y] # "new"
    /\ Push(x)
    /\ UNCHANGED <<poolVars, threadVars>>

-----------------------------------------------------------------------------
(* A worker's round *)

Waiting(r) == {t \in Tag : qs[r][t] # <<>>}

Least(S) == CHOOSE t \in S : \A u \in S : t <= u

\* Mutant of NextTag: the search starts at the last tag, not after it.
NextTagSame(r) ==
    LET after == {t \in Waiting(r) : t >= last[r]}
    IN  Least(IF after = {} THEN Waiting(r) ELSE after)

\* Queues.pop: the first tag after the last one, round and round.
NextTag(r) ==
    LET after == {t \in Waiting(r) : t > last[r]}
    IN  Least(IF after = {} THEN Waiting(r) ELSE after)

\* The loop's condition: the state becomes Shutdown under the worker's lock.
Test(w) ==
    /\ pc[w] = "test"
    /\ pc' = [pc EXCEPT ![w] = IF stop[w] THEN "ended" ELSE "pop"]
    /\ UNCHANGED <<poolVars, queueVars, history, tag, job, step, expired>>

\* Redirector.pop keeps the redirector's mutex from here,
Pop(w) ==
    /\ pc[w] = "pop" /\ Waiting(home[w]) # {}
    /\ \A v \in Worker : home[v] = home[w] => pc[v] # "redirect"
    /\ LET r == home[w]
           t == NextTag(r)
       IN  /\ qs' = [qs EXCEPT ![r][t] = Tail(@)]
           /\ last' = [last EXCEPT ![r] = t]
           /\ tag' = [tag EXCEPT ![w] = t]
           /\ job' = [job EXCEPT ![w] = Head(qs[r][t])]
           /\ status' = [status EXCEPT ![Head(qs[r][t])] = "taken"]
           /\ skips' = [skips EXCEPT ![r] = [u \in Tag |->
                           IF u # t /\ qs[r][u] # <<>> THEN @[u] + 1 ELSE 0]]
    /\ pc' = [pc EXCEPT ![w] = "redirect"]
    /\ UNCHANGED <<poolVars, overrides, private, aliases, step, expired, due>>

\* Mutant of Redirect: the tag is not redirected.
RedirectForgets(w) ==
    /\ pc[w] = "redirect"
    /\ private' = [private EXCEPT ![w] = qs[home[w]][tag[w]]]
    /\ qs' = [qs EXCEPT ![home[w]][tag[w]] = <<>>]
    /\ pc' = [pc EXCEPT ![w] = "execute"]
    /\ step' = [step EXCEPT ![w] = 0]
    /\ status' = [status EXCEPT ![job[w]] = "running"]
    /\ due' = due \ {Check[job[w]]}
    /\ UNCHANGED <<poolVars, last, overrides, aliases, tag, job, expired, skips>>

\* to here: the rest of the tag's queue becomes the worker's private queue,
\* and the execution begins.
Redirect(w) ==
    /\ pc[w] = "redirect"
    /\ private' = [private EXCEPT ![w] = qs[home[w]][tag[w]]]
    /\ qs' = [qs EXCEPT ![home[w]][tag[w]] = <<>>]
    /\ overrides' = [overrides EXCEPT ![tag[w]] = w]
    /\ pc' = [pc EXCEPT ![w] = "execute"]
    /\ step' = [step EXCEPT ![w] = 0]
    /\ status' = [status EXCEPT ![job[w]] = "running"]
    /\ due' = due \ {Check[job[w]]}
    /\ UNCHANGED <<poolVars, last, aliases, tag, job, expired, skips>>

\* Mutant of Finished: what came in the meantime is not put back.
FinishedDrops(w) ==
    /\ pc[w] = "finish"
    /\ private' = [private EXCEPT ![w] = <<>>]
    /\ overrides' = [overrides EXCEPT ![tag[w]] = None]
    /\ aliases' = [t \in Tag |-> IF aliases[t] = tag[w] THEN None ELSE aliases[t]]
    /\ pc' = [pc EXCEPT ![w] = "finally"]
    /\ UNCHANGED <<poolVars, qs, last, tag, job, step, expired, history>>

\* Redirector.finished: what came in the meantime goes back, and with it the
\* tag; the aliases of the tag are forgotten.
Finished(w) ==
    /\ pc[w] = "finish"
    /\ qs' = IF private[w] = <<>> THEN qs
             ELSE [qs EXCEPT ![home[w]][tag[w]] = private[w]]
    /\ private' = [private EXCEPT ![w] = <<>>]
    /\ overrides' = [overrides EXCEPT ![tag[w]] = None]
    /\ aliases' = [t \in Tag |-> IF aliases[t] = tag[w] THEN None ELSE aliases[t]]
    /\ pc' = [pc EXCEPT ![w] = "finally"]
    /\ UNCHANGED <<poolVars, last, tag, job, step, expired, history>>

\* Work.finally: the task's end is signalled.
Finally(w) ==
    /\ pc[w] = "finally"
    /\ status' = [status EXCEPT ![job[w]] = "done"]
    /\ job' = [job EXCEPT ![w] = None]
    /\ pc' = [pc EXCEPT ![w] = "test"]
    /\ UNCHANGED <<poolVars, queueVars, tag, step, expired, skips, due>>

-----------------------------------------------------------------------------
(* Executing an item: its alias, its atoms chunk by chunk, its end *)

\* Redirector.alias, which does nothing unless the tag is being worked on.
SetAlias(w) ==
    /\ pc[w] = "execute" /\ step[w] = 0
    /\ LET a == Alias[job[w]]
           t == TagOf[job[w]]
       IN  aliases' = IF a # None /\ overrides[t] # None
                      THEN [aliases EXCEPT ![a] = t] ELSE aliases
    /\ step' = [step EXCEPT ![w] = 1]
    /\ UNCHANGED <<poolVars, qs, last, overrides, private, pc, tag, job, expired, history>>

\* Chunk k of an item's atoms.
Chunk(x, k) ==
    {Atoms[x][i] : i \in {j \in DOMAIN Atoms[x] : (j - 1) \div MaxParallelAtoms = k - 1}}

\* queue_atomic_int, one atom of the chunk after another,
PushAtom(w, x) ==
    /\ pc[w] = "execute" /\ step[w] > 0
    /\ x \in Chunk(job[w], step[w]) /\ status[x] = "new"
    /\ \A i, j \in DOMAIN Atoms[job[w]] :
          i < j /\ Atoms[job[w]][j] = x => status[Atoms[job[w]][i]] # "new"
    /\ Push(x)
    /\ UNCHANGED <<poolVars, threadVars>>

\* event_wait gives up on an atom, which is cancelled and goes on all the same,
Expire(w, x) ==
    /\ MayExpire /\ pc[w] = "execute" /\ step[w] > 0
    /\ x \in Chunk(job[w], step[w]) \ expired
    /\ \A y \in Chunk(job[w], step[w]) : status[y] # "new"
    /\ status[x] # "done"
    /\ expired' = expired \cup {x}
    /\ UNCHANGED <<poolVars, queueVars, pc, tag, job, step, history>>

\* or the chunk's atoms have ended, and the next chunk's turn comes (an earlier
\* event on an atom's task may show its end before the end is signalled),
EndChunk(w) ==
    /\ pc[w] = "execute" /\ step[w] > 0 /\ Chunk(job[w], step[w]) # {}
    /\ \A y \in Chunk(job[w], step[w]) :
          status[y] \in {"ran", "done"} \/ (y \in expired /\ status[y] # "new")
    /\ step' = [step EXCEPT ![w] = @ + 1]
    /\ UNCHANGED <<poolVars, queueVars, history, pc, tag, job, expired>>

\* or there is no chunk left: the item has succeeded or failed.
Executed(w) ==
    /\ pc[w] = "execute" /\ step[w] > 0 /\ Chunk(job[w], step[w]) = {}
    /\ status' = [status EXCEPT ![job[w]] = "ran"]
    /\ pc' = [pc EXCEPT ![w] = "finish"]
    /\ UNCHANGED <<poolVars, queueVars, tag, job, step, expired, skips, due>>

-----------------------------------------------------------------------------
(* WorkerPool *)

InPool == {pool[i] : i \in DOMAIN pool}

\* get_state: a request to stop hides that the worker has stopped.
ReportsShutdown(w) == ~stop[w] /\ pc[w] = "ended"

CountActive(r) ==
    Cardinality({w \in InPool : home[w] = r /\ ~stop[w] /\ pc[w] # "ended"})

\* `gc' goes through the list, leaves out the workers of r in state Shutdown
\* and turns the others round.
Gc(r) ==
    LET acc[i \in 0 .. Len(pool)] ==
            IF i = 0 THEN <<>>
            ELSE IF home[pool[i]] = r /\ ReportsShutdown(pool[i]) THEN acc[i - 1]
            ELSE <<pool[i]>> \o acc[i - 1]
    IN  acc[Len(pool)]

\* Mutant of CanRestart: a worker that has stopped is taken back, too.
CanRestartEnded(w) == stop[w]

\* Worker.restart, Worker.shutdown.
CanRestart(w) == stop[w] /\ pc[w] # "ended"
CanStop(w)    == ~stop[w]

\* The first worker of r in the list p for which the flag can be changed.
FirstOf(r, p, S) ==
    {p[i] : i \in {j \in DOMAIN p : /\ p[j] \in S /\ home[p[j]] = r
                                    /\ \A k \in 1 .. j - 1 :
                                          ~(p[k] \in S /\ home[p[k]] = r)}}

\* Take a worker that has not stopped yet back, or create one.
Incr(r) ==
    LET p   == Gc(r)
        old == FirstOf(r, p, {w \in Worker : CanRestart(w)})
    IN  \/ /\ old # {}
           /\ stop' = [w \in Worker |-> IF w \in old THEN FALSE ELSE stop[w]]
           /\ pool' = p
           /\ UNCHANGED <<home, pc>>
        \/ /\ old = {}
           /\ \E v \in Worker : pc[v] = "none"
           /\ LET v == Least({w \in Worker : pc[w] = "none"})
              IN  /\ pc' = [pc EXCEPT ![v] = "test"]
                  /\ home' = [home EXCEPT ![v] = r]
                  /\ pool' = <<v>> \o p
           /\ UNCHANGED stop

\* Ask a worker to stop.
Decr(r) ==
    LET p   == Gc(r)
        one == FirstOf(r, p, {w \in Worker : CanStop(w)})
    IN  /\ stop' = [w \in Worker |-> IF w \in one THEN TRUE ELSE stop[w]]
        /\ pool' = p
        /\ UNCHANGED <<home, pc>>

\* set_size: for each redirector count, then add or remove one at a time; the
\* pool's lock is released in between.
Count(s) ==
    /\ setAt[s] \in DOMAIN Redirectors /\ setBy[s] = None
    /\ setBy' = [setBy EXCEPT ![s] = SizeOf[s] - CountActive(Redirectors[setAt[s]])]
    /\ UNCHANGED <<pool, stop, home, setAt, queueVars, threadVars, history>>

Adjust(s) ==
    /\ setAt[s] \in DOMAIN Redirectors /\ setBy[s] # None /\ setBy[s] # 0
    /\ LET r == Redirectors[setAt[s]]
       IN  \/ setBy[s] > 0 /\ Incr(r) /\ setBy' = [setBy EXCEPT ![s] = @ - 1]
           \/ setBy[s] < 0 /\ Decr(r) /\ setBy' = [setBy EXCEPT ![s] = @ + 1]
    /\ UNCHANGED <<setAt, queueVars, tag, job, step, expired, history>>

Adjusted(s) ==
    /\ setAt[s] \in DOMAIN Redirectors /\ setBy[s] = 0
    /\ setAt' = [setAt EXCEPT ![s] = @ + 1]
    /\ setBy' = [setBy EXCEPT ![s] = None]
    /\ UNCHANGED <<pool, stop, home, queueVars, threadVars, history>>

-----------------------------------------------------------------------------

\* WorkerPool.start has created StartSize workers for every redirector.  They
\* are interchangeable, and so is the order of the list.
Init ==
    /\ qs = [r \in Redirector |-> [t \in Tag |-> <<>>]]
    /\ last = [r \in Redirector |-> 0]
    /\ overrides = [t \in Tag |-> None]
    /\ private = [w \in Worker |-> <<>>]
    /\ aliases = [t \in Tag |-> None]
    /\ pool = [i \in 1 .. StartSize * Len(Redirectors) |-> i]
    /\ pc = [w \in Worker |-> IF w \in InPool THEN "test" ELSE "none"]
    /\ home = [w \in Worker |->
                 IF w \in InPool THEN Redirectors[1 + ((w - 1) % Len(Redirectors))]
                 ELSE None]
    /\ tag = [w \in Worker |-> 0]
    /\ job = [w \in Worker |-> None]
    /\ step = [w \in Worker |-> 0]
    /\ stop = [w \in Worker |-> FALSE]
    /\ expired = {}
    /\ setAt = [s \in Setter |-> 1]
    /\ setBy = [s \in Setter |-> None]
    /\ alone = None
    /\ status = [x \in Work |-> "new"]
    /\ skips = [r \in Redirector |-> [t \in Tag |-> 0]]
    /\ due = {}

WorkerStep(w) ==
    \/ Test(w) \/ Pop(w) \/ Redirect(w) \/ Finished(w) \/ Finally(w)
    \/ SetAlias(w) \/ EndChunk(w) \/ Executed(w)
    \/ \E x \in Work : PushAtom(w, x)

\* A set_size has not begun, or has returned.
NotBegun(s) == setAt[s] = 1 /\ setBy[s] = None
Returned(s) == setAt[s] \notin DOMAIN Redirectors

SetterStep(s) ==
    /\ Count(s) \/ Adjust(s) \/ Adjusted(s)
    /\ alone' = IF /\ NotBegun(s) \/ alone = s
                   /\ \A t \in Setter \ {s} : NotBegun(t) \/ Returned(t)
                THEN s ELSE None

Next ==
    \/ \E x \in Work : Submit(x)
    \/ \E w \in Worker : WorkerStep(w) \/ \E x \in Work : Expire(w, x)
    \/ \E s \in Setter : SetterStep(s)

Spec == Init /\ [][Next]_vars

\* Some thread that can run does, a fairness weaker than the scheduler's; a
\* time-out need not happen.
FairSpec ==
    Spec /\ WF_vars((\E w \in Worker : WorkerStep(w)) \/ (\E s \in Setter : SetterStep(s)))

-----------------------------------------------------------------------------
(* Properties *)

\* Where an item is: in a redirector's queue, in a private queue, or with a
\* worker that popped it.
Positions(q, x) == {i \in DOMAIN q : q[i] = x}

Places(x) ==
    (UNION {UNION {{<<r, t, i>> : i \in Positions(qs[r][t], x)} : t \in Tag} : r \in Redirector})
    \cup (UNION {{<<w, i>> : i \in Positions(private[w], x)} : w \in Worker})
    \cup {<<w>> : w \in {v \in Worker : job[v] = x}}

\* No item is lost or doubled on its way between the queues: one that was
\* pushed and has not ended is in exactly one place, and a private queue with
\* items belongs to a worker that will put them back.
NothingLost ==
    /\ \A x \in Work : status[x] \in {"queued", "taken", "running", "ran"} =>
          \E p \in Places(x) : Places(x) = {p}
    /\ \A w \in Worker : private[w] # <<>> => pc[w] \in {"execute", "finish"}

\* "Items with the same [tag] are serialised": an item begins to execute only
\* when those pushed before it with its tag have been executed, by whichever
\* worker.  The items of a tag are those of one redirector.
Serialised ==
    \A x, y \in Work : x < y /\ TagOf[x] = TagOf[y] /\ ~IsAtom(x) /\ ~IsAtom(y)
                       /\ status[y] \in {"running", "ran", "done"}
        => status[x] \in {"dropped", "ran", "done"}

\* "[tag]s get scheduled in a round-robin fashion": while a tag waits in a
\* redirector's queues, no other tag gets more than one turn.
RoundRobin == \A r \in Redirector, t \in Tag : skips[r][t] < NTags

\* A check_state that was coalesced away is made up for: as long as no check
\* like it has begun since it was asked for, one waits to be executed.
CheckCovered ==
    \A c \in due : \E x \in Work : Check[x] = c /\ status[x] \in {"queued", "taken"}

\* "[set_size n] sets the worker pool size to [n]": a set_size that no other ran
\* with has left, when it returns, as many active workers on each redirector as
\* asked, whatever the workers are doing, and although workers that an earlier
\* set_size asked to stop may be working still, to be taken back, or have ended,
\* to be replaced.  Of two that overlap it says nothing: each counts and then
\* changes one worker after another, and both may remove the same surplus.
PoolSized ==
    alone # None /\ Returned(alone) =>
        \A r \in Redirector : CountActive(r) = SizeOf[alone]

\* Every item that is pushed ends, although items hold their worker while they
\* wait for their atoms ("a situation where Parallel atoms can not progress
\* because all the workers available for the default queue are used up"): the
\* items being finitely many, there comes a time when none is under way.
Underway(x) == status[x] \notin {"new", "dropped", "done"}
EveryItemEnds == (\E x \in Work : Underway(x)) ~> (\A x \in Work : ~Underway(x))
=============================================================================
