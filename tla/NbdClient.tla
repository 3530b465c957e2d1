------------------------------ MODULE NbdClient ------------------------------
(***************************************************************************)
(* PythonNbdClient (python_nbd_client.py): a synchronous NBD client used   *)
(* in a with block.  The replies of the server form a stream of headers    *)
(* and of payloads without a name of their own, so the client must take    *)
(* exactly what belongs to a reply.  A stream element that is read where a *)
(* header is expected and is none fails the check of the magic number.     *)
(* The server is modelled from the requests and replies of the client.     *)
(***************************************************************************)
EXTENDS Integers, Sequences

CONSTANTS
    MaxRequests,  \* bound on the requests of the transmission phase
    ExportSize    \* size of the export, in units of 512 bytes

ASSUME ClientAssumption ==
    /\ MaxRequests \in Nat
    /\ ExportSize \in Nat \ {0}

VARIABLES
    newStyle,    \* new_style_handshake, use_tls: arguments of the constructor
    useTls,
    sendFlush,   \* the export's NBD_FLAG_SEND_FLUSH
    call,        \* the method that runs, "none" between calls
    closing,     \* it runs on behalf of close()
    user,        \* using the client, left the block by an exception, or gone
    phase,       \* new, options or transmission (_transmission_phase)
    structured,  \* _structured_reply
    flushed,     \* _flushed
    closed,      \* _closed
    handle,      \* _handle
    lastOption,  \* _last_sent_option
    size,        \* _size, 0 while it has no value
    replies,     \* replies or chunks the current call has gathered
    sent,        \* requests on their way to the server
    stream,      \* what the server has sent and the client has not read
    server,      \* the server's side of the connection
    acked        \* history: writes whose success the client has seen

args == <<newStyle, useTls, sendFlush>>
clientVars == <<args, call, closing, user, phase, structured, flushed,
                closed, handle, lastOption, size, replies, acked>>
vars == <<clientVars, sent, stream, server>>

NBD_OPT_EXPORT_NAME == 1
NBD_OPT_ABORT == 2
NBD_OPT_STARTTLS == 5
NBD_OPT_INFO == 6
NBD_OPT_STRUCTURED_REPLY == 8
NBD_OPT_LIST_META_CONTEXT == 9
NBD_OPT_SET_META_CONTEXT == 10

OptionOf == [starttls |-> NBD_OPT_STARTTLS, info |-> NBD_OPT_INFO,
             structured |-> NBD_OPT_STRUCTURED_REPLY,
             list_meta |-> NBD_OPT_LIST_META_CONTEXT,
             set_meta |-> NBD_OPT_SET_META_CONTEXT]
OptionCalls == DOMAIN OptionOf

(* An element of the stream: its kind of header or "bytes", the option or  *)
(* handle it answers, what it says, the payloads that follow, whether it   *)
(* is the last chunk, and the block status descriptors of a payload.       *)
Item(t, id, says, n, done, data) ==
    [t |-> t, id |-> id, says |-> says, n |-> n, done |-> done, data |-> data]
Bytes(id) == Item("bytes", id, "data", 0, FALSE, <<>>)
Request(cmd, id, offset, length) ==
    [cmd |-> cmd, id |-> id, offset |-> offset, length |-> length]

Init ==
    /\ newStyle \in BOOLEAN
    /\ useTls \in (IF newStyle THEN BOOLEAN ELSE {FALSE})
    /\ sendFlush \in BOOLEAN
    /\ call = "handshake" /\ closing = FALSE /\ user = "using"
    /\ phase = "new" /\ structured = FALSE
    /\ flushed = TRUE /\ closed = FALSE
    /\ handle = 0 /\ lastOption = 0 /\ size = 0
    /\ replies = <<>> /\ acked = {}
    /\ sent = <<>>
    /\ stream \in {<<Item("greet", 0, "new", 0, TRUE, <<>>)>>,
                   <<Item("greet", 0, "old", 1, TRUE, <<>>), Bytes(0)>>}
    /\ server = [structured |-> FALSE, meta |-> FALSE, shut |-> FALSE,
                 volatile |-> {}, durable |-> {}]

-----------------------------------------------------------------------------
(* How a call ends.  Leaving the constructor by an exception leaves no     *)
(* object to close; leaving close() by one leaves the client open.         *)
Raise ==
    /\ call' = "none" /\ closing' = FALSE
    /\ user' = IF phase = "new" \/ closing THEN "gone" ELSE "left"

(* NBDTransmissionError: the user may also catch it and go on. *)
RaiseErrno == Raise \/ (~closing /\ call' = "none" /\ UNCHANGED <<closing, user>>)

Return == call' = "none" /\ UNCHANGED <<closing, user>>

SendOption(option) ==
    /\ sent' = Append(sent, Request("option", option, 0, 0))
    /\ lastOption' = option

SendRequest(cmd, offset, length) ==
    /\ handle' = handle + 1
    /\ sent' = Append(sent, Request(cmd, handle + 1, offset, length))

(* _disconnect and the end of close() *)
Disconnect ==
    /\ closed' = TRUE /\ user' = "gone" /\ call' = "none" /\ closing' = FALSE
    /\ \/ /\ phase = "transmission" /\ SendRequest("disc", 0, 0)
          /\ UNCHANGED lastOption
       \/ /\ phase # "transmission" /\ SendOption(NBD_OPT_ABORT)
          /\ UNCHANGED handle

-----------------------------------------------------------------------------
(* The public methods, up to the first reply. *)

CallOption(c) ==    \* request_info, negotiate_structured_reply, *_meta_contexts
    /\ call = "none" /\ user = "using" /\ phase = "options"
    /\ call' = c /\ replies' = <<>>
    /\ SendOption(OptionOf[c])
    /\ UNCHANGED <<args, closing, user, phase, structured, flushed, closed,
                   handle, size, acked, stream, server>>

CallConnect ==
    /\ call = "none" /\ user = "using" /\ phase = "options"
    /\ call' = "connect"
    /\ SendOption(NBD_OPT_EXPORT_NAME)
    /\ UNCHANGED <<args, closing, user, phase, structured, flushed, closed,
                   handle, size, replies, acked, stream, server>>

(* write, read and query_block_status *)
CallRequest(c, offset, length) ==
    /\ call = "none" /\ user = "using" /\ phase = "transmission"
    /\ call' = c /\ replies' = <<>>
    /\ flushed' = (flushed /\ c # "write")
    /\ SendRequest(c, offset, length)
    /\ UNCHANGED <<args, closing, user, phase, structured, closed, lastOption,
                   size, acked, stream, server>>

(* _need_flush fails: nothing is sent. *)
CallFlush ==
    /\ call = "none" /\ user = "using" /\ phase = "transmission"
    /\ IF sendFlush
       THEN call' = "flush" /\ SendRequest("flush", 0, 0) /\ UNCHANGED flushed
       ELSE flushed' = TRUE /\ UNCHANGED <<call, handle, sent>>
    /\ UNCHANGED <<args, closing, user, phase, structured, closed, lastOption,
                   size, replies, acked, stream, server>>

(* The body of the with block raises, as _check_alignment does, or does    *)
(* not consume the generator of a structured read to its end.              *)
Leave ==
    /\ user = "using"
    /\ \/ call = "none" /\ phase # "new"
       \/ call = "read" /\ structured
    /\ call' = "none" /\ user' = "left"
    /\ UNCHANGED <<args, closing, phase, structured, flushed, closed, handle,
                   lastOption, size, replies, acked, sent, stream, server>>

(* close(), called by __exit__, up to the reply to the flush if there is one. *)
Close ==
    /\ call = "none" /\ user # "gone" /\ ~closed
    /\ IF phase = "transmission" /\ ~flushed /\ sendFlush
       THEN /\ call' = "flush" /\ closing' = TRUE
            /\ SendRequest("flush", 0, 0)
            /\ UNCHANGED <<user, flushed, closed, lastOption>>
       ELSE Disconnect /\ flushed' = TRUE
    /\ UNCHANGED <<args, phase, structured, size, replies, acked, stream, server>>

-----------------------------------------------------------------------------
(* Reading replies.  One step reads a header and the payload it announces. *)

Head1 == Head(stream)
Skip(n) == stream' = SubSeq(stream, n + 1, Len(stream))

(* _parse_option_reply up to the payload; an error's payload stays unread. *)
Expected == {"ack"} \cup (CASE call = "info" -> {"info"}
                           [] call \in {"list_meta", "set_meta"} -> {"meta"}
                           [] OTHER -> {})
IsMyOption(i) == i.t = "option" /\ i.id = lastOption /\ i.says # "error"
IsAnyReply(i) == i.t = "simple"    \* mutant
(* The checks of the magic number and, _check_handle, of the handle. *)
IsMyReply(i) == i.t = "simple" /\ i.id = handle
IsMyChunk(i) == i.t = "chunk" /\ i.id = handle /\ (i.says = "none" => i.done)

Simple == call \in {"write", "flush"} \/ (call = "read" /\ ~structured)
Chunked == call = "status" \/ (call = "read" /\ structured)

ZeroesUnread == 0    \* mutant
(* 124 bytes of zeroes follow the size and the flags of the export. *)
Zeroes == 1

(* The payload elements read after the header before anything is decided:  *)
(* _parse_simple_reply reads the data of a read before it looks at errno.  *)
Payload ==
    CASE call \in OptionCalls -> IF IsMyOption(Head1) THEN Head1.n ELSE 0
      [] Simple -> IF IsMyReply(Head1) /\ call = "read" THEN 1 ELSE 0
      [] Chunked -> IF IsMyChunk(Head1) THEN Head1.n ELSE 0
      [] call = "connect" \/ (call = "handshake" /\ ~newStyle) -> Zeroes
      [] OTHER -> 0
Arrived == stream # <<>> /\ Len(stream) > Payload

(* _fixed_new_style_handshake and _old_style_handshake *)
ReadGreeting ==
    /\ call = "handshake" /\ Arrived /\ Skip(1 + Payload)
    /\ \/ /\ newStyle /\ Head1.says = "new" /\ useTls
          /\ call' = "starttls" /\ SendOption(NBD_OPT_STARTTLS)
          /\ UNCHANGED <<closing, user, phase, size>>
       \/ /\ newStyle /\ Head1.says = "new" /\ ~useTls
          /\ Return /\ phase' = "options" /\ UNCHANGED <<sent, lastOption, size>>
       \/ /\ ~newStyle /\ Head1.says = "old"
          /\ Return /\ phase' = "transmission" /\ size' = ExportSize
          /\ UNCHANGED <<sent, lastOption>>
       \/ /\ newStyle # (Head1.says = "new")
          /\ Raise /\ UNCHANGED <<sent, lastOption, phase, size>>
    /\ UNCHANGED <<args, structured, flushed, closed, handle, replies, acked,
                   server>>

(* The reply that ends the loop of an option is an ack; those before it    *)
(* carry what was asked for.  An ack to STARTTLS is followed by the        *)
(* handshake of TLS, which fails or ends the constructor.                  *)
ReadOptionReply ==
    /\ call \in OptionCalls /\ Arrived
    /\ Skip(1 + Payload)
    /\ \/ /\ IsMyOption(Head1) /\ Head1.says = "ack"
          /\ Return
          /\ structured' = (structured \/ call = "structured")
          /\ phase' = "options" /\ UNCHANGED replies
       \/ /\ IsMyOption(Head1)
          /\ Head1.says \in Expected \ {"ack"}
          /\ replies' = Append(replies, Head1)
          /\ UNCHANGED <<call, closing, user, phase, structured>>
       \/ /\ ~(IsMyOption(Head1) /\ Head1.says \in Expected) \/ call = "starttls"
          /\ Raise /\ UNCHANGED <<replies, phase, structured>>
    /\ UNCHANGED <<args, flushed, closed, handle, lastOption, size, acked,
                   sent, server>>

(* connect(): size, flags and zeroes, without a magic number to check. *)
ReadExport ==
    /\ call = "connect" /\ Arrived
    /\ Skip(1 + Payload) /\ Return
    /\ size' = (IF Head1.t = "export" THEN ExportSize ELSE -1)
    /\ phase' = "transmission"
    /\ UNCHANGED <<args, structured, flushed, closed, handle, lastOption,
                   replies, acked, sent, server>>

(* _parse_simple_reply, and what follows it in write, read, flush, close *)
ReadSimpleReply ==
    /\ Simple /\ Arrived
    /\ Skip(1 + Payload)
    /\ \/ /\ IsMyReply(Head1) /\ Head1.says = "ok"
          /\ acked' = acked \cup (IF call = "write" THEN {handle} ELSE {})
          /\ flushed' = (flushed \/ call = "flush")
          /\ IF closing THEN Disconnect
             ELSE Return /\ UNCHANGED <<closed, handle, lastOption, sent>>
       \/ /\ IsMyReply(Head1) /\ Head1.says = "error"
          /\ RaiseErrno /\ UNCHANGED <<acked, flushed, closed, handle, lastOption, sent>>
       \/ /\ ~IsMyReply(Head1)
          /\ Raise /\ UNCHANGED <<acked, flushed, closed, handle, lastOption, sent>>
    /\ UNCHANGED <<args, phase, structured, size, replies, server>>

(* _parse_structured_reply_chunk(s): the call ends with the final chunk. *)
ReadChunk ==
    /\ Chunked /\ Arrived
    /\ Skip(1 + Payload)
    /\ \/ /\ IsMyChunk(Head1)
          /\ replies' = Append(replies,
                 [says |-> Head1.says, data |-> IF Payload = 1 THEN stream[2].data ELSE <<>>])
          /\ IF Head1.done THEN Return ELSE UNCHANGED <<call, closing, user>>
       \/ /\ ~IsMyChunk(Head1)
          /\ Raise /\ UNCHANGED replies
    /\ UNCHANGED <<args, phase, structured, flushed, closed, handle, lastOption,
                   size, acked, sent, server>>

ReadFailsAtEnd ==    \* mutant: no timeout
    /\ call # "none" /\ ~Arrived /\ server.shut
    /\ stream' = <<>> /\ Raise
    /\ UNCHANGED <<args, phase, structured, flushed, closed, handle, lastOption,
                   size, replies, acked, sent, server>>
(* _recvall: the socket's timeout, or the end of the stream, with part of  *)
(* what is needed read already.                                            *)
ReadFails ==
    /\ call # "none" /\ ~Arrived
    /\ stream' = <<>> /\ Raise
    /\ UNCHANGED <<args, phase, structured, flushed, closed, handle, lastOption,
                   size, replies, acked, sent, server>>

Read ==
    \/ ReadGreeting \/ ReadOptionReply \/ ReadExport
    \/ ReadSimpleReply \/ ReadChunk \/ ReadFails

-----------------------------------------------------------------------------
(* The server answers requests in order.  It may refuse an option, with or *)
(* without a message, and fail a request; with structured replies it may   *)
(* use them for any reply and must for reads.                              *)
Req == Head(sent)
Answer(items) == stream' = stream \o items

OptionError == {<<Item("option", Req.id, "error", 0, TRUE, <<>>)>>,
                <<Item("option", Req.id, "error", 1, TRUE, <<>>), Bytes(Req.id)>>}
Ack == <<Item("option", Req.id, "ack", 0, TRUE, <<>>)>>
Said(s) == <<Item("option", Req.id, s, 1, FALSE, <<>>), Bytes(Req.id)>>

ServeOption ==
    /\ sent # <<>> /\ Req.cmd = "option" /\ ~server.shut
    /\ sent' = Tail(sent)
    /\ \/ /\ Req.id \in {NBD_OPT_STARTTLS, NBD_OPT_STRUCTURED_REPLY}
          /\ Answer(Ack)
          /\ server' = [server EXCEPT !.structured = @ \/ Req.id = NBD_OPT_STRUCTURED_REPLY]
       \/ /\ Req.id = NBD_OPT_INFO
          /\ Answer(Said("info") \o Said("info") \o Ack) /\ UNCHANGED server
       \/ /\ Req.id \in {NBD_OPT_LIST_META_CONTEXT, NBD_OPT_SET_META_CONTEXT}
          /\ server.structured
          /\ \E some \in BOOLEAN :
                /\ Answer((IF some THEN Said("meta") ELSE <<>>) \o Ack)
                /\ server' = [server EXCEPT
                    !.meta = IF Req.id = NBD_OPT_SET_META_CONTEXT THEN some ELSE @]
       \/ /\ Req.id \notin {NBD_OPT_EXPORT_NAME, NBD_OPT_ABORT}
          /\ \E e \in OptionError : Answer(e)
          /\ UNCHANGED server
       \/ /\ Req.id = NBD_OPT_EXPORT_NAME
          /\ Answer(<<Item("export", 0, "ok", 1, TRUE, <<>>), Bytes(0)>>) /\ UNCHANGED server
       \/ /\ Req.id \in {NBD_OPT_EXPORT_NAME, NBD_OPT_ABORT}
          /\ server' = [server EXCEPT !.shut = TRUE] /\ UNCHANGED stream
    /\ UNCHANGED clientVars

Chunk(says, n, done) == Item("chunk", Req.id, says, n, done, <<>>)
SimpleReply(says) == <<Item("simple", Req.id, says, 0, TRUE, <<>>)>>
ErrorChunk == <<Chunk("error", 1, TRUE), Bytes(Req.id)>>

ErrorReplies ==
    (IF server.structured THEN {ErrorChunk} ELSE {}) \cup
    (IF server.structured /\ Req.cmd \in {"read", "status"} THEN {} ELSE {SimpleReply("error")})

(* Structured reads: data and holes in chunks, the last of which, or an    *)
(* empty one, is final; an error may come after part of the data.          *)
ReadReplies ==
    IF ~server.structured THEN {SimpleReply("ok") \o <<Bytes(Req.id)>>}
    ELSE LET some == <<Chunk("data", 1, FALSE), Bytes(Req.id)>>
         IN  {<<Chunk("data", 1, TRUE), Bytes(Req.id)>>,
              some \o <<Chunk("hole", 1, TRUE), Bytes(Req.id)>>,
              some \o <<Chunk("none", 0, TRUE)>>,
              some \o ErrorChunk}

OkReplies == {SimpleReply("ok")} \cup
    (IF server.structured THEN {<<Chunk("none", 0, TRUE)>>} ELSE {})

(* Block status: statuses is the set of descriptor lists the server may    *)
(* give for the area asked about.                                          *)
ServeRequest(statuses) ==
    /\ sent # <<>> /\ Req.cmd # "option" /\ ~server.shut
    /\ sent' = Tail(sent)
    /\ \/ /\ Req.cmd = "write" /\ \E r \in OkReplies : Answer(r)
          /\ server' = [server EXCEPT !.volatile = @ \cup {Req.id}]
       \/ /\ Req.cmd = "flush" /\ \E r \in OkReplies : Answer(r)
          /\ server' = [server EXCEPT !.durable = @ \cup server.volatile]
       \/ /\ Req.cmd = "read" /\ \E r \in ReadReplies : Answer(r)
          /\ UNCHANGED server
       \/ /\ Req.cmd = "status" /\ server.meta
          /\ \E ds \in statuses :
                Answer(<<Chunk("status", 1, TRUE),
                         Item("bytes", Req.id, "data", 0, FALSE, ds)>>)
          /\ UNCHANGED server
       \/ /\ Req.cmd # "disc" /\ \E r \in ErrorReplies : Answer(r)
          /\ UNCHANGED server
       \/ /\ Req.cmd = "disc"
          /\ server' = [server EXCEPT !.shut = TRUE] /\ UNCHANGED stream
    /\ UNCHANGED clientVars

-----------------------------------------------------------------------------
(* What a user of the client may call; the bound on options is that their  *)
(* numbers increase.                                                       *)
UserCalls ==
    \/ \E c \in OptionCalls \ {"starttls"} : OptionOf[c] > lastOption /\ CallOption(c)
    \/ CallConnect
    \/ handle < MaxRequests /\ CallRequest("write", 0, 1)
    \/ handle < MaxRequests /\ CallRequest("read", 0, 1)
    \/ handle < MaxRequests /\ CallRequest("status", 0, 1)
    \/ handle < MaxRequests /\ CallFlush
    \/ Leave
=============================================================================
