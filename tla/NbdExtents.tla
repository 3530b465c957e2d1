----------------------------- MODULE NbdExtents -----------------------------
(***************************************************************************)
(* get_nbd_extents.py on top of the NBD client: it asks the server for the *)
(* block status of an area, in requests of bounded length, and returns the *)
(* list of extents.  Offsets and lengths are in units of 512 bytes.  The   *)
(* client is driven either by this program or by any other user.           *)
(***************************************************************************)
EXTENDS NbdClient, SequencesExt, FiniteSetsExt

CONSTANTS
    MAX_REQUEST_LEN,   \* 2^32 - 512 bytes in the code
    Areas              \* areas asked for, as records of offset and length

ASSUME ExtentsAssumption ==
    /\ MAX_REQUEST_LEN \in Nat \ {0}
    /\ \A a \in Areas : a.offset \in Int /\ a.length \in Int

VARIABLES
    caller,   \* "extents" for _get_extents, "any" for another user
    at,       \* where _get_extents is
    area,     \* its arguments
    offset,   \* its position
    extents,  \* what it has yielded
    status    \* the server's allocation status of every unit of the export

programVars == <<caller, at, area, offset, extents, status>>
allVars == <<vars, programVars>>

End == area.offset + area.length

ProgramInit ==
    /\ Init
    /\ caller \in {"any", "extents"}
    /\ at = "start"
    /\ area \in Areas
    /\ caller = "any" => area = CHOOSE a \in Areas : TRUE
    /\ offset = area.offset
    /\ extents = <<>>
    /\ status \in (IF caller = "any" THEN {[u \in 0..(ExportSize - 1) |-> 0]}
                   ELSE [0..(ExportSize - 1) -> {0, 1}])
    /\ caller = "extents" => newStyle /\ ~useTls /\ sendFlush

-----------------------------------------------------------------------------
(* Descriptor lists of a server, n extents from mark to mark: they start   *)
(* at o, follow the status, may stop early or split an extent, and only    *)
(* the last may exceed the request.                                        *)
Marks(o, l, n) ==
    {m \in [1..(n + 1) -> o..ExportSize] :
        /\ m[1] = o /\ m[n] < o + l
        /\ \A i \in 1..n : /\ m[i] < m[i + 1]
                         /\ \A u \in m[i]..(m[i + 1] - 1) : status[u] = status[m[i]]}

Descriptors(m, n) == [i \in 1..n |-> [length |-> m[i + 1] - m[i], flags |-> status[m[i]]]]

Statuses(o, l) == UNION {{Descriptors(m, n) : m \in Marks(o, l, n)} : n \in 1..l}

-----------------------------------------------------------------------------
(* _get_extents *)

Goto(label) == at' = label /\ UNCHANGED <<caller, area, status>>
KeepResult == UNCHANGED <<offset, extents>>

ReadyAt(label) == caller = "extents" /\ at = label /\ call = "none" /\ user = "using"

Negotiate ==
    /\ ReadyAt("start") /\ CallOption("structured")
    /\ Goto("negotiated") /\ KeepResult

SelectContext ==
    /\ ReadyAt("negotiated") /\ CallOption("set_meta")
    /\ Goto("selected") /\ KeepResult

ConnectToExport ==
    /\ ReadyAt("selected") /\ Len(replies) = 1
    /\ CallConnect
    /\ Goto("connected") /\ KeepResult

InBounds == area.offset >= 0 /\ area.length > 0 /\ End <= size

QueryFromStart ==    \* mutant: the position does not advance
    /\ ReadyAt("connected") /\ InBounds /\ offset < End
    /\ CallRequest("status", area.offset, Min({MAX_REQUEST_LEN, End - offset}))
    /\ Goto("queried") /\ KeepResult
Query ==
    /\ ReadyAt("connected") /\ InBounds /\ offset < End
    /\ CallRequest("status", offset, Min({MAX_REQUEST_LEN, End - offset}))
    /\ Goto("queried") /\ KeepResult

(* Where each descriptor begins, and where the last one ends. *)
Starts(ds) ==
    LET start[i \in 1..(Len(ds) + 1)] ==
            IF i = 1 THEN offset ELSE start[i - 1] + ds[i - 1].length
    IN  start
EndOf(ds) == Starts(ds)[Len(ds) + 1]

(* The last descriptor is cut at the end of the area. *)
Clipped(ds) == [ds EXCEPT ![Len(ds)].length = Min({@, End - Starts(ds)[Len(ds)]})]

IsStatusReply == Len(replies) = 1 /\ replies[1].says = "status"

Collect ==
    /\ ReadyAt("queried") /\ IsStatusReply
    /\ LET ds == Clipped(replies[1].data)
       IN  /\ EndOf(ds) <= End
           /\ extents' = extents \o ds
           /\ offset' = EndOf(ds)
    /\ Goto("connected")
    /\ UNCHANGED vars

(* Exceptions of the program leave the with block; so does its end.  The   *)
(* name of the context that is selected, and the identifier of the one an  *)
(* answer is about, are the server's choice and left out: the checks of    *)
(* them may fail on any answer, and the checks that there is one context,  *)
(* and one status of it that stays within the area, fail on others too.    *)
Fail ==
    /\ \/ ReadyAt("selected") \/ ReadyAt("queried")
       \/ ReadyAt("connected") /\ ~InBounds
    /\ Leave /\ Goto("failed") /\ KeepResult

Finish ==
    /\ ReadyAt("connected") /\ InBounds /\ offset >= End
    /\ Close
    /\ Goto("done") /\ KeepResult

ExitBlock ==
    /\ caller = "any" \/ user = "left"
    /\ Close /\ UNCHANGED programVars

Program ==
    \/ Negotiate \/ SelectContext \/ ConnectToExport
    \/ Query \/ Collect \/ Fail \/ Finish

Serve ==
    /\ ServeOption \/ ServeRequest(Statuses(Req.offset, Req.length))
    /\ UNCHANGED programVars
Receive == Read /\ UNCHANGED programVars
OtherUser == caller = "any" /\ UserCalls /\ UNCHANGED programVars

Next == Program \/ OtherUser \/ ExitBlock \/ Receive \/ Serve

(* A call that waits ends by the socket's timeout at the latest; the       *)
(* program and the end of its with block do not stop by themselves.        *)
Spec ==
    /\ ProgramInit /\ [][Next]_allVars
    /\ WF_allVars(Receive) /\ WF_allVars(Program)
    /\ WF_allVars(caller = "extents" /\ ExitBlock)

-----------------------------------------------------------------------------
(* Between two calls of a user who has seen no exception, nothing of an    *)
(* earlier answer is left unread: every method reads exactly its own       *)
(* replies and payloads, so the next one does not start in the middle.     *)
StreamInStep ==
    call = "none" /\ user = "using" => stream = <<>> /\ sent = <<>>

(* If close() returns, every write that returned is on permanent storage,  *)
(* although replies may be late, a flush may fail, and the block may be    *)
(* left by an exception with answers still unread.                         *)
DurableOnClose ==
    closed /\ sendFlush => acked \subseteq server.durable

(* What get_nbd_extents.py promises of its result: the extents are         *)
(* consecutive, in order, exactly cover the area asked for, and their      *)
(* flags are the server's, however it splits or cuts its descriptors.      *)
Expanded == FlattenSeq([i \in DOMAIN extents |->
                [k \in 1..extents[i].length |-> extents[i].flags]])
ExtentsCover ==
    caller = "extents" =>
        /\ Expanded = [k \in 1..(offset - area.offset) |-> status[area.offset + k - 1]]
        /\ at = "done" => offset = End

(* Every call ends, and so does get_nbd_extents: a server that stops       *)
(* answering, or answers what was not asked, does not block it for ever.   *)
CallsEnd ==
    /\ call # "none" ~> call = "none"
    /\ caller = "extents" ~> user = "gone"
=============================================================================
