------------------------------ MODULE NbdProofs ------------------------------
(***************************************************************************)
(* The NBD client, with any server, any number of requests and any size of *)
(* the export, driven by get_nbd_extents.py or by any other user.          *)
(***************************************************************************)
EXTENDS NbdExtents, SequenceTheorems, NaturalsInduction, WellFoundedInduction, TLAPS

-----------------------------------------------------------------------------
(* Sequences of whatever elements *)

IsSeq(s) == \E S : s \in Seq(S)

\* The length and the domain of a sequence of anything.
LEMMA SeqFacts ==
  ASSUME NEW s, IsSeq(s)
  PROVE  /\ Len(s) \in Nat /\ DOMAIN s = 1 .. Len(s)
         /\ s = <<>> <=> Len(s) = 0
BY DEF IsSeq

\* Append.
LEMMA Appended ==
  ASSUME NEW s, IsSeq(s), NEW x
  PROVE  /\ IsSeq(Append(s, x)) /\ Len(Append(s, x)) = Len(s) + 1
         /\ \A i \in 1 .. Len(s) : Append(s, x)[i] = s[i]
         /\ Append(s, x)[Len(s) + 1] = x
<1>1. PICK S : s \in Seq(S)
  BY DEF IsSeq
<1>2. s \in Seq(S \cup {x}) /\ x \in S \cup {x}
  BY <1>1
<1>3. Append(s, x) \in Seq(S \cup {x})
  BY <1>2
<1>4. IsSeq(Append(s, x))
  BY <1>3 DEF IsSeq
<1> QED BY <1>2, <1>4

\* What is left after the first k.
LEMMA Skipped ==
  ASSUME NEW s, IsSeq(s), NEW k \in 1 .. Len(s)
  PROVE  /\ IsSeq(SubSeq(s, k + 1, Len(s))) /\ Len(SubSeq(s, k + 1, Len(s))) = Len(s) - k
         /\ \A i \in 1 .. Len(s) - k : SubSeq(s, k + 1, Len(s))[i] = s[i + k]
<1>1. PICK S : s \in Seq(S)
  BY DEF IsSeq
<1>2. SubSeq(s, k + 1, Len(s)) \in Seq(S)
  BY <1>1
<1>3. IsSeq(SubSeq(s, k + 1, Len(s)))
  BY <1>2 DEF IsSeq
<1> QED BY <1>1, <1>3

\* Head and tail.
LEMMA Rest ==
  ASSUME NEW s, IsSeq(s), s # <<>>
  PROVE  /\ IsSeq(Tail(s)) /\ Len(Tail(s)) = Len(s) - 1
         /\ \A i \in 1 .. Len(s) - 1 : Tail(s)[i] = s[i + 1]
         /\ Head(s) = s[1] /\ 1 \in DOMAIN s
<1>1. PICK S : s \in Seq(S)
  BY DEF IsSeq
<1>2. Tail(s) \in Seq(S)
  BY <1>1
<1>3. IsSeq(Tail(s))
  BY <1>2 DEF IsSeq
<1> QED BY <1>1, <1>3

\* Concatenation.
LEMMA Joined ==
  ASSUME NEW s, NEW t, IsSeq(s), IsSeq(t)
  PROVE  /\ IsSeq(s \o t) /\ Len(s \o t) = Len(s) + Len(t)
         /\ \A i \in 1 .. Len(s) : (s \o t)[i] = s[i]
         /\ \A i \in 1 .. Len(t) : (s \o t)[Len(s) + i] = t[i]
         /\ s = <<>> => s \o t = t
<1>1. PICK S : s \in Seq(S)
  BY DEF IsSeq
<1>2. PICK T : t \in Seq(T)
  BY DEF IsSeq
<1>3. s \in Seq(S \cup T) /\ t \in Seq(S \cup T)
  BY <1>1, <1>2
<1>4. s \o t \in Seq(S \cup T)
  BY <1>3
<1>5. IsSeq(s \o t)
  BY <1>4 DEF IsSeq
<1> QED BY <1>3, <1>5

\* It is associative.
LEMMA Associates ==
  ASSUME NEW s, NEW t, NEW u, IsSeq(s), IsSeq(t), IsSeq(u)
  PROVE  (s \o t) \o u = s \o (t \o u)
<1>1. PICK S : s \in Seq(S)
  BY DEF IsSeq
<1>2. PICK T : t \in Seq(T)
  BY DEF IsSeq
<1>3. PICK U : u \in Seq(U)
  BY DEF IsSeq
<1>4. PICK V : V = S \cup T \cup U
  OBVIOUS
<1>5. s \in Seq(V) /\ t \in Seq(V) /\ u \in Seq(V)
  BY <1>1, <1>2, <1>3, <1>4
<1> QED BY <1>5, ConcatAssociative

\* Short sequences.
LEMMA Tuples ==
  /\ IsSeq(<<>>)
  /\ \A x : IsSeq(<<x>>) /\ Len(<<x>>) = 1 /\ <<x>>[1] = x
  /\ \A x, y : IsSeq(<<x, y>>) /\ Len(<<x, y>>) = 2 /\ <<x, y>>[1] = x /\ <<x, y>>[2] = y
<1>1. <<>> \in Seq({})
  OBVIOUS
<1>2. \A x : <<x>> \in Seq({x})
  OBVIOUS
<1>3. \A x, y : <<x, y>> \in Seq({x, y})
  OBVIOUS
<1>4. IsSeq(<<>>) /\ (\A x : IsSeq(<<x>>)) /\ (\A x, y : IsSeq(<<x, y>>))
  BY <1>1, <1>2, <1>3 DEF IsSeq
<1> QED BY <1>4

\* Two of one make one of two.
LEMMA OneByOne ==
  ASSUME NEW x, NEW y
  PROVE  <<x>> \o <<y>> = <<x, y>>
<1>1. PICK S : S = {x, y}
  OBVIOUS
<1>2. <<x>> \in Seq(S) /\ <<y>> \in Seq(S) /\ <<x, y>> \in Seq(S)
  BY <1>1
<1>3. PICK p : p = <<x>>
  OBVIOUS
<1>4. PICK q : q = <<y>>
  OBVIOUS
<1>5. PICK t : t = <<x, y>>
  OBVIOUS
<1>6. PICK c : c = p \o q
  OBVIOUS
<1>7. p \in Seq(S) /\ q \in Seq(S) /\ t \in Seq(S) /\ Len(p) = 1 /\ Len(q) = 1 /\ Len(t) = 2
  BY <1>2, <1>3, <1>4, <1>5
<1>8. p[1] = x /\ q[1] = y /\ t[1] = x /\ t[2] = y
  BY <1>3, <1>4, <1>5
<1>9. c \in Seq(S) /\ Len(c) = 2 /\ c[1] = p[1] /\ c[2] = q[1]
  <2>1. IsSeq(p) /\ IsSeq(q)
    BY <1>7 DEF IsSeq
  <2>2. /\ Len(c) = Len(p) + Len(q)
        /\ \A i \in 1 .. Len(p) : c[i] = p[i]
        /\ \A i \in 1 .. Len(q) : c[Len(p) + i] = q[i]
    BY <1>6, <2>1, Joined
  <2>3. c \in Seq(S)
    BY <1>6, <1>7
  <2>4. 1 \in 1 .. Len(p) /\ 1 \in 1 .. Len(q) /\ Len(p) + 1 = 2
    BY <1>7
  <2> QED BY <1>7, <2>2, <2>3, <2>4
<1>10. c = t
  BY <1>7, <1>8, <1>9, SeqEqual
<1> QED BY <1>3, <1>4, <1>5, <1>6, <1>10

One(s, x)    == s = <<x>>
Two(s, x, y) == s = <<x, y>>
Cat(j, s, t) == j = s \o t

-----------------------------------------------------------------------------
(* Keeping in step *)

\* What is still to be read of an answer, in a call of c: the header that makes
\* c return is the last one, and its payload ends the stream.
Ends(s, c) ==
    \A i \in DOMAIN s :
        /\ s[i].n \in {0, 1}
        /\ s[i].t = "option" /\ s[i].says = "ack" => Len(s) = i
        /\ s[i].t = "chunk" /\ s[i].done => Len(s) <= i + s[i].n
        /\ s[i].t = "simple" => Len(s) <= i + (IF c = "read" THEN 1 ELSE 0)
        /\ s[i].t = "greet" => Len(s) <= i + (IF s[i].says = "old" THEN 1 ELSE 0)

\* As long as the user has seen no exception there is one request or the rest
\* of its answer under way, and neither between two calls.
InStep ==
    /\ IsSeq(stream) /\ IsSeq(sent)
    /\ closing => call = "flush"
    /\ call # "none" => user = "using" \/ closing
    /\ user = "using" =>
        /\ call = "none" => stream = <<>> /\ sent = <<>>
        /\ call = "handshake" => stream # <<>> /\ stream[1].t = "greet"
        /\ Ends(stream, call)
        /\ call = "connect" => Len(stream) <= 2
        /\ sent # <<>> =>
             /\ Len(sent) = 1 /\ stream = <<>>
             /\ sent[1].cmd = "read" => call = "read"
             /\ call = "connect" => sent[1].cmd = "option" /\ sent[1].id = NBD_OPT_EXPORT_NAME

\* Nothing of it ends an answer.
Open(s) == \A i \in DOMAIN s :
    /\ s[i].n \in {0, 1} /\ s[i].t \in {"option", "chunk", "bytes", "export"}
    /\ s[i].t = "option" => s[i].says # "ack"
    /\ s[i].t = "chunk" => s[i].done = FALSE

\* A part that does not end the call, then one that does.
LEMMA OpenEnds ==
  ASSUME NEW j, NEW s, NEW t, NEW c, Cat(j, s, t), IsSeq(s), IsSeq(t), Open(s), Ends(t, c)
  PROVE  /\ IsSeq(j) /\ Ends(j, c)
         /\ \A i \in DOMAIN j : j[i].t # "simple" \/ \E k \in DOMAIN t : j[i] = t[k]
<1>1. j = s \o t
  BY DEF Cat
<1>2. /\ IsSeq(j) /\ Len(j) = Len(s) + Len(t)
      /\ \A i \in 1 .. Len(s) : j[i] = s[i]
      /\ \A i \in 1 .. Len(t) : j[Len(s) + i] = t[i]
  BY <1>1, Joined
<1>3. /\ Len(s) \in Nat /\ Len(t) \in Nat
      /\ DOMAIN s = 1 .. Len(s) /\ DOMAIN t = 1 .. Len(t) /\ DOMAIN j = 1 .. Len(j)
  BY <1>2, SeqFacts
<1>4. ASSUME NEW i \in DOMAIN j
      PROVE  /\ j[i].n \in {0, 1}
             /\ j[i].t = "option" /\ j[i].says = "ack" => Len(j) = i
             /\ j[i].t = "chunk" /\ j[i].done => Len(j) <= i + j[i].n
             /\ j[i].t = "simple" => Len(j) <= i + (IF c = "read" THEN 1 ELSE 0)
             /\ j[i].t = "greet" => Len(j) <= i + (IF j[i].says = "old" THEN 1 ELSE 0)
             /\ j[i].t # "simple" \/ \E k \in DOMAIN t : j[i] = t[k]
  <2>1. CASE i <= Len(s)
    <3>1. i \in DOMAIN s /\ j[i] = s[i]
      BY <1>2, <1>3, <2>1
    <3>2. PICK x : x = s[i]
      OBVIOUS
    <3>3. x.n \in {0, 1} /\ x.t \notin {"simple", "greet"} /\ (x.t = "option" => x.says # "ack") /\ (x.t = "chunk" => x.done = FALSE)
      BY <3>1, <3>2 DEF Open
    <3>4. j[i] = x
      BY <3>1, <3>2
    <3> QED BY <3>3, <3>4
  <2>2. CASE ~(i <= Len(s))
    <3>1. PICK k \in DOMAIN t : k = i - Len(s)
      BY <1>2, <1>3, <2>2
    <3>2. j[i] = t[k] /\ Len(j) = Len(s) + Len(t) /\ i = Len(s) + k
      BY <1>2, <1>3, <3>1
    <3>3. PICK x : x = t[k]
      OBVIOUS
    <3>4. /\ x.n \in {0, 1}
          /\ x.t = "option" /\ x.says = "ack" => Len(t) = k
          /\ x.t = "chunk" /\ x.done => Len(t) <= k + x.n
          /\ x.t = "simple" => Len(t) <= k + (IF c = "read" THEN 1 ELSE 0)
          /\ x.t = "greet" => Len(t) <= k + (IF x.says = "old" THEN 1 ELSE 0)
      BY <3>3 DEF Ends
    <3>5. j[i] = x
      BY <3>2, <3>3
    <3> QED BY <1>3, <3>2, <3>4, <3>5
  <2> QED BY <2>1, <2>2
<1>5. Ends(j, c)
  BY <1>4 DEF Ends
<1> QED BY <1>1, <1>2, <1>4, <1>5

\* What is left of an answer when some of it has been read.
LEMMA SkipEnds ==
  ASSUME NEW s, NEW c, IsSeq(s), Ends(s, c), NEW k \in 1 .. Len(s)
  PROVE  Ends(SubSeq(s, k + 1, Len(s)), c)
<1>1. PICK j : j = SubSeq(s, k + 1, Len(s))
  OBVIOUS
<1>2. IsSeq(j) /\ Len(j) = Len(s) - k /\ \A i \in 1 .. Len(s) - k : j[i] = s[i + k]
  BY <1>1, Skipped
<1>3. Len(s) \in Nat /\ DOMAIN s = 1 .. Len(s) /\ DOMAIN j = 1 .. Len(j)
  BY <1>2, SeqFacts
<1>4. ASSUME NEW i \in DOMAIN j
      PROVE  /\ j[i].n \in {0, 1}
             /\ j[i].t = "option" /\ j[i].says = "ack" => Len(j) = i
             /\ j[i].t = "chunk" /\ j[i].done => Len(j) <= i + j[i].n
             /\ j[i].t = "simple" => Len(j) <= i + (IF c = "read" THEN 1 ELSE 0)
             /\ j[i].t = "greet" => Len(j) <= i + (IF j[i].says = "old" THEN 1 ELSE 0)
  <2>1. i + k \in DOMAIN s /\ j[i] = s[i + k]
    BY <1>2, <1>3
  <2>2. PICK x : x = s[i + k]
    OBVIOUS
  <2>3. /\ x.n \in {0, 1}
        /\ x.t = "option" /\ x.says = "ack" => Len(s) = i + k
        /\ x.t = "chunk" /\ x.done => Len(s) <= (i + k) + x.n
        /\ x.t = "simple" => Len(s) <= (i + k) + (IF c = "read" THEN 1 ELSE 0)
        /\ x.t = "greet" => Len(s) <= (i + k) + (IF x.says = "old" THEN 1 ELSE 0)
    BY <2>1, <2>2 DEF Ends
  <2>4. j[i] = x
    BY <2>1, <2>2
  <2> QED BY <1>2, <1>3, <2>3, <2>4
<1>5. Ends(j, c)
  BY <1>4 DEF Ends
<1> QED BY <1>1, <1>5

-----------------------------------------------------------------------------
(* The answers of the server *)

\* An answer that ends a call of c, whose simple replies are to request id.
Answers(r, c, id) ==
    /\ IsSeq(r) /\ Ends(r, c)
    /\ \A i \in DOMAIN r : r[i].t = "simple" => r[i].id = id

Plain(r) == \A i \in DOMAIN r : r[i].t # "simple"

\* A reply of one header without payload answers.
LEMMA AnswersOne ==
  ASSUME NEW s, NEW x, NEW c, NEW id, One(s, x), x.n \in {0, 1}, x.id = id
  PROVE  Answers(s, c, id) /\ (x.t # "simple" => Plain(s)) /\ Len(s) = 1
<1>1. IsSeq(s) /\ Len(s) = 1 /\ s[1] = x /\ DOMAIN s = {1}
  BY Tuples DEF One
<1>2. Ends(s, c)
  BY <1>1 DEF Ends
<1> QED BY <1>1, <1>2 DEF Answers, Plain

\* So does a header with its payload.
LEMMA AnswersTwo ==
  ASSUME NEW s, NEW x, NEW y, NEW c, NEW id, Two(s, x, y), x.id = id,
         x.n \in {0, 1}, y.n \in {0, 1},
         x.t = "option" => x.says # "ack",
         x.t = "chunk" => x.done = FALSE \/ x.n = 1,
         x.t = "simple" => c = "read", x.t # "greet", y.t = "bytes"
  PROVE  Answers(s, c, id) /\ (x.t # "simple" => Plain(s)) /\ Len(s) = 2
<1>1. IsSeq(s) /\ Len(s) = 2 /\ s[1] = x /\ s[2] = y /\ DOMAIN s = {1, 2}
  BY Tuples DEF Two
<1>2. Ends(s, c)
  BY <1>1 DEF Ends
<1> QED BY <1>1, <1>2 DEF Answers, Plain

\* A header that promises more, with its payload, does not.
LEMMA OpenTwo ==
  ASSUME NEW s, NEW x, NEW y, Two(s, x, y), x.n \in {0, 1}, x.t \in {"option", "chunk", "export"},
         x.t = "option" => x.says # "ack", x.t = "chunk" => x.done = FALSE,
         y.n \in {0, 1}, y.t = "bytes"
  PROVE  IsSeq(s) /\ Open(s)
<1>1. IsSeq(s) /\ s[1] = x /\ s[2] = y /\ DOMAIN s = {1, 2}
  BY Tuples DEF Two
<1> QED BY <1>1 DEF Open

\* What comes before an answer, and is part of it.
LEMMA AnswersMore ==
  ASSUME NEW j, NEW s, NEW r, NEW c, NEW id, Cat(j, s, r), IsSeq(s), Open(s), Answers(r, c, id)
  PROVE  Answers(j, c, id) /\ (Plain(r) => Plain(j))
<1>1. IsSeq(r) /\ Ends(r, c) /\ \A i \in DOMAIN r : r[i].t = "simple" => r[i].id = id
  BY DEF Answers
<1>2. /\ IsSeq(j) /\ Ends(j, c)
      /\ \A i \in DOMAIN j : j[i].t # "simple" \/ \E k \in DOMAIN r : j[i] = r[k]
  BY <1>1, OpenEnds
<1> QED BY <1>1, <1>2 DEF Answers, Plain

ServerOK == DOMAIN server = {"structured", "meta", "shut", "volatile", "durable"}

\* What the server makes of an option: nothing, or an answer to it.
LEMMA OptionAnswered ==
  ASSUME NEW c, ServerOK, ServeOption
  PROVE  /\ sent # <<>> /\ sent' = Tail(sent) /\ Req.cmd = "option"
         /\ ServerOK' /\ server'.volatile = server.volatile /\ server'.durable = server.durable
         /\ \/ stream' = stream
            \/ \E r : /\ Answers(r, c, Req.id) /\ Plain(r) /\ stream' = stream \o r
                      /\ Req.id = NBD_OPT_EXPORT_NAME => Len(r) <= 2
<1> DEFINE Fine(r) == Answers(r, c, Req.id) /\ Plain(r)
<1>1. Bytes(Req.id).n = 0 /\ Bytes(Req.id).t = "bytes" /\ Bytes(0).n = 0 /\ Bytes(0).t = "bytes"
  BY DEF Bytes, Item
<1>2. PICK ack : ack = Ack
  OBVIOUS
<1>3. Fine(ack)
  <2>1. PICK x : x = Item("option", Req.id, "ack", 0, TRUE, <<>>)
    OBVIOUS
  <2>2. x.n = 0 /\ x.id = Req.id /\ x.t = "option"
    BY <2>1 DEF Item
  <2>3. One(ack, x)
    BY <1>2, <2>1 DEF One, Ack
  <2> QED BY <2>2, <2>3, AnswersOne
<1>4. ASSUME NEW says, says # "ack", NEW s, s = Said(says) PROVE IsSeq(s) /\ Open(s)
  <2>1. PICK x : x = Item("option", Req.id, says, 1, FALSE, <<>>)
    OBVIOUS
  <2>2. PICK y : y = Bytes(Req.id)
    OBVIOUS
  <2>3. x.n \in {0, 1} /\ x.t = "option" /\ x.says # "ack" /\ y.n \in {0, 1} /\ y.t = "bytes"
    BY <1>1, <1>4, <2>1, <2>2 DEF Item
  <2>4. Two(s, x, y)
    BY <1>4, <2>1, <2>2 DEF Said, Two
  <2> QED BY <2>3, <2>4, OpenTwo
<1>5. ASSUME NEW e \in OptionError PROVE Fine(e)
  <2>1. PICK x : x = Item("option", Req.id, "error", 0, TRUE, <<>>)
    OBVIOUS
  <2>2. PICK z : z = Item("option", Req.id, "error", 1, TRUE, <<>>)
    OBVIOUS
  <2>3. PICK y : y = Bytes(Req.id)
    OBVIOUS
  <2>4. /\ x.n \in {0, 1} /\ x.id = Req.id /\ x.t = "option"
        /\ z.n \in {0, 1} /\ z.id = Req.id /\ z.t = "option" /\ z.says = "error"
        /\ y.n \in {0, 1} /\ y.t = "bytes"
    BY <1>1, <2>1, <2>2, <2>3 DEF Item
  <2>5. One(e, x) \/ Two(e, z, y)
    BY <2>1, <2>2, <2>3 DEF OptionError, One, Two
  <2>6. CASE One(e, x)
    BY <2>4, <2>6, AnswersOne
  <2>7. CASE Two(e, z, y)
    BY <2>4, <2>7, AnswersTwo
  <2> QED BY <2>5, <2>6, <2>7
<1>6. PICK info : info = Said("info")
  OBVIOUS
<1>7. PICK meta : meta = Said("meta")
  OBVIOUS
<1>8. IsSeq(info) /\ Open(info) /\ IsSeq(meta) /\ Open(meta)
  BY <1>4, <1>6, <1>7
<1>9. PICK ia : Cat(ia, info, ack)
  BY DEF Cat
<1>10. PICK iia : Cat(iia, info, ia)
  BY DEF Cat
<1>11. PICK ma : Cat(ma, meta, ack)
  BY DEF Cat
<1>12. Fine(ia) /\ Fine(ma)
  BY <1>3, <1>8, <1>9, <1>11, AnswersMore
<1>13. Fine(iia)
  BY <1>8, <1>10, <1>12, AnswersMore
<1>14. Said("info") \o Said("info") \o Ack = iia /\ Said("meta") \o Ack = ma
  <2>1. (info \o info) \o ack = info \o (info \o ack)
    BY <1>3, <1>8, Associates DEF Answers
  <2> QED BY <1>2, <1>6, <1>7, <1>9, <1>10, <1>11, <2>1 DEF Cat
<1>15. <<>> \o Ack = ack
  <2>1. IsSeq(ack)
    BY <1>3 DEF Answers
  <2> QED BY <1>2, <2>1, Joined, Tuples
<1>16. PICK ex : ex = <<Item("export", 0, "ok", 1, TRUE, <<>>), Bytes(0)>>
  OBVIOUS
<1>17. Fine(ex) /\ Len(ex) = 2
  <2>1. PICK x : x = Item("export", 0, "ok", 1, TRUE, <<>>)
    OBVIOUS
  <2>2. PICK y : y = Bytes(0)
    OBVIOUS
  <2>3. x.n \in {0, 1} /\ x.id = 0 /\ x.t = "export" /\ y.n \in {0, 1} /\ y.t = "bytes"
    BY <1>1, <2>1, <2>2 DEF Item
  <2>4. Two(ex, x, y)
    BY <1>16, <2>1, <2>2 DEF Two
  <2>5. Answers(ex, c, 0) /\ Plain(ex) /\ Len(ex) = 2
    BY <2>3, <2>4, AnswersTwo
  <2> QED BY <2>5 DEF Answers, Plain
<1>18. NBD_OPT_EXPORT_NAME \notin {NBD_OPT_STARTTLS, NBD_OPT_STRUCTURED_REPLY, NBD_OPT_INFO,
                                   NBD_OPT_LIST_META_CONTEXT, NBD_OPT_SET_META_CONTEXT}
  BY DEF NBD_OPT_EXPORT_NAME, NBD_OPT_STARTTLS, NBD_OPT_STRUCTURED_REPLY, NBD_OPT_INFO,
         NBD_OPT_LIST_META_CONTEXT, NBD_OPT_SET_META_CONTEXT
<1>19. \/ stream' = stream
       \/ \E r : Fine(r) /\ stream' = stream \o r /\ (Req.id = NBD_OPT_EXPORT_NAME => Len(r) <= 2)
  <2> HIDE DEF Fine
  <2>1. CASE Req.id = NBD_OPT_EXPORT_NAME
    <3>1. stream' = stream \o ex \/ stream' = stream
      BY <1>16, <1>18, <2>1 DEF ServeOption, Answer
    <3>2. Fine(ex) /\ Len(ex) <= 2
      BY <1>17
    <3>3. CASE stream' = stream \o ex
      BY <3>2, <3>3
    <3> QED BY <3>1, <3>3
  <2>2. CASE Req.id # NBD_OPT_EXPORT_NAME
    <3>1. \/ stream' = stream \/ stream' = stream \o ack
          \/ stream' = stream \o iia \/ stream' = stream \o ma
          \/ \E e \in OptionError : stream' = stream \o e
      BY <1>2, <1>14, <1>15, <2>2 DEF ServeOption, Answer
    <3> QED BY <1>3, <1>5, <1>12, <1>13, <2>2, <3>1
  <2> QED BY <2>1, <2>2
<1>20. ServerOK' /\ server'.volatile = server.volatile /\ server'.durable = server.durable
  BY DEF ServeOption, ServerOK
<1> QED BY <1>19, <1>20 DEF ServeOption

\* What it makes of a request; a success says what was done.
LEMMA RequestAnswered ==
  ASSUME NEW c, NEW statuses, ServerOK, ServeRequest(statuses), Req.cmd = "read" => c = "read"
  PROVE  /\ sent # <<>> /\ sent' = Tail(sent) /\ Req.cmd # "option"
         /\ \/ stream' = stream
            \/ \E r : /\ Answers(r, c, Req.id) /\ stream' = stream \o r
                      /\ \A i \in DOMAIN r : r[i].t = "simple" /\ r[i].says = "ok" =>
                            /\ Req.cmd = "write" => Req.id \in server'.volatile
                            /\ Req.cmd = "flush" => server.volatile \subseteq server'.durable
         /\ ServerOK'
         /\ server.volatile \subseteq server'.volatile /\ server.durable \subseteq server'.durable
<1> DEFINE Fine(r) == Answers(r, c, Req.id)
           Failing(r) == \A i \in DOMAIN r : r[i].t = "simple" => r[i].says = "error"
<1>1. Bytes(Req.id).n = 0 /\ Bytes(Req.id).t = "bytes"
  BY DEF Bytes, Item
<1>2. ASSUME NEW says, NEW s, s = SimpleReply(says)
      PROVE  Fine(s) /\ (says = "error" => Failing(s))
  <2>1. PICK x : x = Item("simple", Req.id, says, 0, TRUE, <<>>)
    OBVIOUS
  <2>2. x.n \in {0, 1} /\ x.id = Req.id /\ x.says = says
    BY <2>1 DEF Item
  <2>3. One(s, x)
    BY <1>2, <2>1 DEF One, SimpleReply
  <2>4. Fine(s)
    BY <2>2, <2>3, AnswersOne
  <2>5. DOMAIN s = {1} /\ s[1] = x
    BY <2>3 DEF One
  <2> QED BY <2>2, <2>4, <2>5
<1>3. ASSUME NEW says, NEW n \in {0, 1}, NEW s, s = <<Chunk(says, n, TRUE)>> PROVE Fine(s)
  <2>1. PICK x : x = Chunk(says, n, TRUE)
    OBVIOUS
  <2>2. x.n \in {0, 1} /\ x.id = Req.id
    BY <2>1 DEF Chunk, Item
  <2>3. One(s, x)
    BY <1>3, <2>1 DEF One
  <2> QED BY <2>2, <2>3, AnswersOne
<1>4. ASSUME NEW says, NEW y, y.n = 0, y.t = "bytes", NEW s, s = <<Chunk(says, 1, TRUE), y>>
      PROVE  Fine(s) /\ Failing(s)
  <2>1. PICK x : x = Chunk(says, 1, TRUE)
    OBVIOUS
  <2>2. x.id = Req.id /\ x.t = "chunk" /\ x.n = 1 /\ y.n \in {0, 1}
    BY <1>4, <2>1 DEF Chunk, Item
  <2>3. Two(s, x, y)
    BY <1>4, <2>1 DEF Two
  <2>4. Answers(s, c, Req.id) /\ Plain(s)
    BY <1>4, <2>2, <2>3, AnswersTwo
  <2> QED BY <2>4 DEF Plain
<1>5. ASSUME NEW r \in ErrorReplies PROVE Fine(r) /\ Failing(r)
  <2>1. r = <<Chunk("error", 1, TRUE), Bytes(Req.id)>> \/ r = SimpleReply("error")
    BY DEF ErrorReplies, ErrorChunk
  <2>2. CASE r = SimpleReply("error")
    BY <1>2, <2>2
  <2>3. CASE r = <<Chunk("error", 1, TRUE), Bytes(Req.id)>>
    <3>1. PICK y : y = Bytes(Req.id)
      OBVIOUS
    <3>2. r = <<Chunk("error", 1, TRUE), y>>
      BY <2>3, <3>1
    <3>3. y.n = 0 /\ y.t = "bytes"
      BY <1>1, <3>1
    <3>4. Fine(r) /\ Failing(r)
      <4> HIDE DEF Fine, Failing
      <4> QED BY <1>4, <3>2, <3>3
    <3> QED BY <3>4
  <2> QED BY <2>1, <2>2, <2>3
<1>6. ASSUME NEW r \in OkReplies PROVE Fine(r)
  <2>1. r = SimpleReply("ok") \/ r = <<Chunk("none", 0, TRUE)>>
    BY DEF OkReplies
  <2>2. CASE r = SimpleReply("ok")
    BY <1>2, <2>2
  <2>3. CASE r = <<Chunk("none", 0, TRUE)>>
    BY <1>3, <2>3
  <2> QED BY <2>1, <2>2, <2>3
<1>7. ASSUME Req.cmd = "read", NEW r \in ReadReplies PROVE Fine(r)
  <2>1. c = "read"
    BY <1>7
  <2>2. PICK simple : simple = SimpleReply("ok") \o <<Bytes(Req.id)>>
    OBVIOUS
  <2>3. Fine(simple)
    <3>1. PICK x : x = Item("simple", Req.id, "ok", 0, TRUE, <<>>)
      OBVIOUS
    <3>2. PICK y : y = Bytes(Req.id)
      OBVIOUS
    <3>3. x.n \in {0, 1} /\ x.id = Req.id /\ x.t = "simple" /\ y.n \in {0, 1} /\ y.t = "bytes"
      BY <1>1, <3>1, <3>2 DEF Item
    <3>4. <<x>> \o <<y>> = <<x, y>>
      BY OneByOne
    <3>5. Two(simple, x, y)
      BY <2>2, <3>1, <3>2, <3>4 DEF SimpleReply, Two
    <3> QED BY <2>1, <3>3, <3>5, AnswersTwo
  <2>4. PICK some : some = <<Chunk("data", 1, FALSE), Bytes(Req.id)>>
    OBVIOUS
  <2>5. IsSeq(some) /\ Open(some)
    <3>1. PICK x : x = Chunk("data", 1, FALSE)
      OBVIOUS
    <3>2. PICK y : y = Bytes(Req.id)
      OBVIOUS
    <3>3. x.n \in {0, 1} /\ x.t = "chunk" /\ x.done = FALSE /\ y.n \in {0, 1} /\ y.t = "bytes"
      BY <1>1, <3>1, <3>2 DEF Chunk, Item
    <3>4. Two(some, x, y)
      BY <2>4, <3>1, <3>2 DEF Two
    <3> QED BY <3>3, <3>4, OpenTwo
  <2>6. ASSUME NEW j, NEW u, Fine(u), Cat(j, some, u) PROVE Fine(j)
    BY <2>5, <2>6, AnswersMore
  <2>7. PICK data : data = <<Chunk("data", 1, TRUE), Bytes(Req.id)>>
    OBVIOUS
  <2>8. PICK hole : hole = <<Chunk("hole", 1, TRUE), Bytes(Req.id)>>
    OBVIOUS
  <2>9. PICK none : none = <<Chunk("none", 0, TRUE)>>
    OBVIOUS
  <2>10. PICK err : err = <<Chunk("error", 1, TRUE), Bytes(Req.id)>>
    OBVIOUS
  <2>11. Fine(data) /\ Fine(hole) /\ Fine(err)
    BY <1>1, <1>4, <2>7, <2>8, <2>10
  <2>12. Fine(none)
    BY <1>3, <2>9
  <2> HIDE DEF Fine
  <2>13. r = simple \/ r = data \/ Cat(r, some, hole) \/ Cat(r, some, none) \/ Cat(r, some, err)
    BY <1>7, <2>2, <2>4, <2>7, <2>8, <2>9, <2>10 DEF ReadReplies, ErrorChunk, Cat
  <2> QED BY <2>3, <2>6, <2>11, <2>12, <2>13
<1> DEFINE Told(r) == \A i \in DOMAIN r : r[i].t = "simple" /\ r[i].says = "ok" =>
                            /\ Req.cmd = "write" => Req.id \in server'.volatile
                            /\ Req.cmd = "flush" => server.volatile \subseteq server'.durable
<1>8. /\ ServerOK'
      /\ server.volatile \subseteq server'.volatile /\ server.durable \subseteq server'.durable
      /\ \/ stream' = stream
         \/ \E r : Fine(r) /\ stream' = stream \o r /\ Told(r)
  <2>1. CASE Req.cmd = "write" /\ (\E r \in OkReplies : Answer(r))
             /\ server' = [server EXCEPT !.volatile = @ \cup {Req.id}]
    <3>1. PICK r \in OkReplies : stream' = stream \o r
      BY <2>1 DEF Answer
    <3>2. /\ ServerOK' /\ server'.volatile = server.volatile \cup {Req.id}
          /\ server'.durable = server.durable
      BY <2>1 DEF ServerOK
    <3>3. Told(r)
      BY <2>1, <3>2
    <3>4. Fine(r)
      BY <1>6
    <3> HIDE DEF Fine, Told
    <3> QED BY <3>1, <3>2, <3>3, <3>4
  <2>2. CASE Req.cmd = "flush" /\ (\E r \in OkReplies : Answer(r))
             /\ server' = [server EXCEPT !.durable = @ \cup server.volatile]
    <3>1. PICK r \in OkReplies : stream' = stream \o r
      BY <2>2 DEF Answer
    <3>2. /\ ServerOK' /\ server'.volatile = server.volatile
          /\ server'.durable = server.durable \cup server.volatile
      BY <2>2 DEF ServerOK
    <3>3. Told(r)
      BY <2>2, <3>2
    <3>4. Fine(r)
      BY <1>6
    <3> HIDE DEF Fine, Told
    <3> QED BY <3>1, <3>2, <3>3, <3>4
  <2>3. CASE Req.cmd = "read" /\ (\E r \in ReadReplies : Answer(r)) /\ UNCHANGED server
    <3>1. PICK r \in ReadReplies : stream' = stream \o r
      BY <2>3 DEF Answer
    <3>2. Told(r)
      BY <2>3
    <3>3. Fine(r)
      BY <1>7, <2>3
    <3> HIDE DEF Fine, Told
    <3> QED BY <2>3, <3>1, <3>2, <3>3 DEF ServerOK
  <2>4. CASE Req.cmd = "status" /\ UNCHANGED server /\ \E ds \in statuses :
                Answer(<<Chunk("status", 1, TRUE), Item("bytes", Req.id, "data", 0, FALSE, ds)>>)
    <3>1. PICK ds : Answer(<<Chunk("status", 1, TRUE), Item("bytes", Req.id, "data", 0, FALSE, ds)>>)
      BY <2>4
    <3>2. PICK y : y = Item("bytes", Req.id, "data", 0, FALSE, ds)
      OBVIOUS
    <3>3. PICK r : r = <<Chunk("status", 1, TRUE), y>>
      OBVIOUS
    <3>4. y.n = 0 /\ y.t = "bytes"
      BY <3>2 DEF Item
    <3>5. Fine(r)
      BY <1>4, <3>3, <3>4
    <3>6. stream' = stream \o r
      BY <3>1, <3>2, <3>3 DEF Answer
    <3>7. Told(r)
      BY <2>4
    <3> HIDE DEF Fine, Told
    <3> QED BY <2>4, <3>5, <3>6, <3>7 DEF ServerOK
  <2>5. CASE (\E r \in ErrorReplies : Answer(r)) /\ UNCHANGED server
    <3>1. PICK r \in ErrorReplies : stream' = stream \o r
      BY <2>5 DEF Answer
    <3>2. Fine(r) /\ Failing(r)
      BY <1>5
    <3>3. Told(r)
      BY <3>2
    <3> HIDE DEF Fine, Told
    <3> QED BY <2>5, <3>1, <3>2, <3>3 DEF ServerOK
  <2>6. CASE server' = [server EXCEPT !.shut = TRUE] /\ UNCHANGED stream
    BY <2>6 DEF ServerOK
  <2> HIDE DEF Fine, Told
  <2> QED BY <2>1, <2>2, <2>3, <2>4, <2>5, <2>6 DEF ServeRequest
<1> QED BY <1>8 DEF ServeRequest

-----------------------------------------------------------------------------
(* Every step of the client and of the server keeps in step. *)

\* The steps that touch the connection, whoever drives the client.
ClientStep ==
    \/ UNCHANGED vars
    \/ \E c \in OptionCalls : CallOption(c)
    \/ CallConnect
    \/ \E o, l : \E c \in {"write", "read", "status"} : CallRequest(c, o, l)
    \/ CallFlush \/ Leave \/ Close
    \/ ReadGreeting \/ ReadOptionReply \/ ReadExport \/ ReadSimpleReply \/ ReadChunk \/ ReadFails
    \/ ServeOption
    \/ \E statuses : ServeRequest(statuses)

\* The calls that are options.
LEMMA OptionNames == OptionCalls = {"starttls", "info", "structured", "list_meta", "set_meta"}
BY DEF OptionCalls, OptionOf

\* An empty stream is the rest of any answer.
LEMMA EmptyEnds ==
  ASSUME NEW s, NEW c, s = <<>>
  PROVE  Ends(s, c)
BY DEF Ends

\* The steps of get_nbd_extents.py are steps of the client.
LEMMA NextIsClientStep ==
  ASSUME [Next]_allVars
  PROVE  ClientStep
<1>1. CASE UNCHANGED allVars
  BY <1>1 DEF ClientStep, allVars
<1>2. CASE Program
  <2>1. ASSUME Negotiate PROVE CallOption("structured") /\ "structured" \in OptionCalls
    BY <2>1, OptionNames DEF Negotiate
  <2>2. ASSUME SelectContext PROVE CallOption("set_meta") /\ "set_meta" \in OptionCalls
    BY <2>2, OptionNames DEF SelectContext
  <2> QED BY <1>2, <2>1, <2>2 DEF Program, ClientStep, ConnectToExport, Query, Collect, Fail, Finish
<1>3. CASE OtherUser
  BY <1>3 DEF OtherUser, UserCalls, ClientStep
<1>4. CASE ExitBlock \/ Receive \/ Serve
  BY <1>4 DEF ExitBlock, Receive, Read, Serve, ClientStep
<1> QED BY <1>1, <1>2, <1>3, <1>4 DEF Next

\* Between two calls a request is sent.
LEMMA SendsFirst ==
  ASSUME InStep, user = "using", call = "none", NEW q, sent' = Append(sent, q), stream' = stream
  PROVE  /\ IsSeq(sent') /\ Len(sent') = 1 /\ sent'[1] = q
         /\ IsSeq(stream') /\ stream' = <<>> /\ \A c : Ends(stream', c)
<1>1. IsSeq(sent) /\ Len(sent) = 0 /\ stream = <<>> /\ IsSeq(stream)
  BY SeqFacts DEF InStep
<1>2. PICK t : t = Append(sent, q)
  OBVIOUS
<1>3. IsSeq(t) /\ Len(t) = 1 /\ t[1] = q
  <2>1. IsSeq(t) /\ Len(t) = Len(sent) + 1 /\ t[Len(sent) + 1] = q
    BY <1>1, <1>2, Appended
  <2> QED BY <1>1, <2>1
<1> QED BY <1>1, <1>2, <1>3, EmptyEnds

\* A call begins when nothing is left unread.
LEMMA CallsKeepStep ==
  ASSUME InStep,
         \/ \E c \in OptionCalls : CallOption(c)
         \/ CallConnect
         \/ \E o, l : \E c \in {"write", "read", "status"} : CallRequest(c, o, l)
         \/ CallFlush \/ Leave
  PROVE  InStep'
<1>1. ASSUME NEW c \in OptionCalls, CallOption(c) PROVE InStep'
  <2>1. PICK q : q = Request("option", OptionOf[c], 0, 0)
    OBVIOUS
  <2>2. q.cmd = "option" /\ c \notin {"none", "handshake", "connect", "read", "flush"}
    BY <2>1, OptionNames DEF Request
  <2>3. /\ sent' = Append(sent, q) /\ stream' = stream /\ user = "using" /\ call = "none"
        /\ call' = c /\ user' = user /\ closing' = closing
    BY <1>1, <2>1 DEF CallOption, SendOption
  <2>4. /\ IsSeq(sent') /\ Len(sent') = 1 /\ sent'[1] = q
        /\ IsSeq(stream') /\ stream' = <<>> /\ Ends(stream', c)
    BY <2>3, SendsFirst
  <2> QED BY <2>2, <2>3, <2>4 DEF InStep
<1>2. ASSUME CallConnect PROVE InStep'
  <2>1. PICK q : q = Request("option", NBD_OPT_EXPORT_NAME, 0, 0)
    OBVIOUS
  <2>2. q.cmd = "option" /\ q.id = NBD_OPT_EXPORT_NAME
    BY <2>1 DEF Request
  <2>3. /\ sent' = Append(sent, q) /\ stream' = stream /\ user = "using" /\ call = "none"
        /\ call' = "connect" /\ user' = user /\ closing' = closing
    BY <1>2, <2>1 DEF CallConnect, SendOption
  <2>4. /\ IsSeq(sent') /\ Len(sent') = 1 /\ sent'[1] = q
        /\ IsSeq(stream') /\ stream' = <<>> /\ Ends(stream', "connect") /\ Len(stream') <= 2
    BY <2>3, SendsFirst
  <2> QED BY <2>2, <2>3, <2>4 DEF InStep
<1>3. ASSUME NEW o, NEW l, NEW c \in {"write", "read", "status"}, CallRequest(c, o, l) PROVE InStep'
  <2>1. PICK q : q = Request(c, handle + 1, o, l)
    OBVIOUS
  <2>2. q.cmd = c
    BY <2>1 DEF Request
  <2>3. /\ sent' = Append(sent, q) /\ stream' = stream /\ user = "using" /\ call = "none"
        /\ call' = c /\ user' = user /\ closing' = closing
    BY <1>3, <2>1 DEF CallRequest, SendRequest
  <2>4. /\ IsSeq(sent') /\ Len(sent') = 1 /\ sent'[1] = q
        /\ IsSeq(stream') /\ stream' = <<>> /\ Ends(stream', c)
    BY <2>3, SendsFirst
  <2> QED BY <2>2, <2>3, <2>4 DEF InStep
<1>4. ASSUME CallFlush PROVE InStep'
  <2>1. CASE sendFlush
    <3>1. PICK q : q = Request("flush", handle + 1, 0, 0)
      OBVIOUS
    <3>2. q.cmd = "flush"
      BY <3>1 DEF Request
    <3>3. /\ sent' = Append(sent, q) /\ stream' = stream /\ user = "using" /\ call = "none"
          /\ call' = "flush" /\ user' = user /\ closing' = closing
      BY <1>4, <2>1, <3>1 DEF CallFlush, SendRequest
    <3>4. /\ IsSeq(sent') /\ Len(sent') = 1 /\ sent'[1] = q
          /\ IsSeq(stream') /\ stream' = <<>> /\ Ends(stream', "flush")
      BY <3>3, SendsFirst
    <3> QED BY <3>2, <3>3, <3>4 DEF InStep
  <2>2. CASE ~sendFlush
    BY <1>4, <2>2 DEF CallFlush, InStep
  <2> QED BY <2>1, <2>2
<1>5. ASSUME Leave PROVE InStep'
  BY <1>5 DEF Leave, InStep
<1> QED BY <1>1, <1>2, <1>3, <1>4, <1>5

\* What was sent stays a sequence,
LEMMA SendsSeq ==
  ASSUME IsSeq(sent), NEW q, sent' = Append(sent, q)
  PROVE  IsSeq(sent')
BY Appended

\* when the client disconnects, too.
LEMMA DisconnectSeq ==
  ASSUME IsSeq(sent), Disconnect
  PROVE  IsSeq(sent') /\ user' = "gone" /\ call' = "none" /\ closing' = FALSE
<1>1. \E q : sent' = Append(sent, q)
  BY DEF Disconnect, SendRequest, SendOption
<1> QED BY <1>1, SendsSeq DEF Disconnect

\* close() sends a flush, or disconnects.
LEMMA CloseKeepsStep ==
  ASSUME InStep, Close
  PROVE  InStep'
<1>1. CASE phase = "transmission" /\ ~flushed /\ sendFlush
  <2>1. PICK q : q = Request("flush", handle + 1, 0, 0)
    OBVIOUS
  <2>2. q.cmd = "flush"
    BY <2>1 DEF Request
  <2>3. /\ sent' = Append(sent, q) /\ stream' = stream /\ call = "none" /\ user' = user
        /\ call' = "flush" /\ closing' = TRUE
    BY <1>1, <2>1 DEF Close, SendRequest
  <2>4. IsSeq(sent') /\ IsSeq(stream')
    BY <2>3, SendsSeq DEF InStep
  <2>5. ASSUME user = "using"
        PROVE  Len(sent') = 1 /\ sent'[1] = q /\ stream' = <<>> /\ Ends(stream', "flush")
    BY <2>3, <2>5, SendsFirst
  <2> QED BY <2>2, <2>3, <2>4, <2>5 DEF InStep
<1>2. CASE ~(phase = "transmission" /\ ~flushed /\ sendFlush)
  <2>1. Disconnect /\ stream' = stream
    BY <1>2 DEF Close
  <2> QED BY <2>1, DisconnectSeq DEF InStep
<1> QED BY <1>1, <1>2

\* The element that a method reads, and what is left.
LEMMA Arriving ==
  ASSUME InStep, call # "none", Arrived
  PROVE  /\ 1 \in DOMAIN stream /\ Head1 = stream[1]
         /\ user = "using" => Payload \in {0, 1} /\ sent = <<>>
         /\ user # "using" => Payload = 0
         /\ 1 + Payload \in 1 .. Len(stream)
<1>1. IsSeq(stream) /\ stream # <<>> /\ Len(stream) \in Nat /\ Len(stream) > Payload
  BY SeqFacts DEF InStep, Arrived
<1>2. 1 \in DOMAIN stream /\ Head1 = stream[1]
  BY <1>1, Rest DEF Head1
<1>3. user # "using" => call = "flush"
  BY DEF InStep
<1>4. call = "flush" => Payload = 0
  BY OptionNames DEF Payload, Simple, Chunked
<1>5. ASSUME user = "using" PROVE Payload \in {0, 1} /\ sent = <<>>
  <2>1. Head1.n \in {0, 1}
    BY <1>2, <1>5 DEF InStep, Ends
  <2>2. Payload \in {0, 1}
    BY <2>1 DEF Payload, Zeroes
  <2> QED BY <1>1, <1>5, <2>2 DEF InStep
<1> QED BY <1>1, <1>2, <1>3, <1>4, <1>5

\* A reader takes a header and its payload, and leaves the rest of the answer.
LEMMA Reads ==
  ASSUME InStep, call # "none", Arrived, Skip(1 + Payload)
  PROVE  /\ IsSeq(stream') /\ Len(stream') = Len(stream) - (1 + Payload) /\ Len(stream) \in Nat
         /\ stream' = <<>> <=> Len(stream') = 0
         /\ user = "using" => Ends(stream', call)
         /\ \A i \in DOMAIN stream' : \E k \in DOMAIN stream : stream'[i] = stream[k]
<1>1. PICK k : k = 1 + Payload
  OBVIOUS
<1>2. k \in 1 .. Len(stream) /\ IsSeq(stream)
  BY <1>1, Arriving DEF InStep
<1>3. PICK j : j = SubSeq(stream, k + 1, Len(stream))
  OBVIOUS
<1>4. stream' = j
  BY <1>1, <1>3 DEF Skip
<1>5. IsSeq(j) /\ Len(j) = Len(stream) - k /\ \A i \in 1 .. Len(stream) - k : j[i] = stream[i + k]
  BY <1>2, <1>3, Skipped
<1>6. user = "using" => Ends(j, call)
  BY <1>2, <1>3, SkipEnds DEF InStep
<1>7. Len(stream) \in Nat /\ DOMAIN stream = 1 .. Len(stream) /\ DOMAIN j = 1 .. Len(j) /\ (j = <<>> <=> Len(j) = 0)
  BY <1>2, <1>5, SeqFacts
<1>8. \A i \in DOMAIN j : i + k \in DOMAIN stream
  BY <1>2, <1>5, <1>7
<1> QED BY <1>1, <1>4, <1>5, <1>6, <1>7, <1>8

\* A call that ends without an exception has read its answer to the end.
LEMMA ReturnKeepsStep ==
  ASSUME InStep, IsSeq(stream'), sent' = sent, call' = "none", UNCHANGED <<closing, user>>,
         ~closing, user = "using" => stream' = <<>> /\ sent = <<>>
  PROVE  InStep'
BY EmptyEnds DEF InStep

\* An exception ends the use of the connection.
LEMMA RaiseKeepsStep ==
  ASSUME InStep, IsSeq(stream'), sent' = sent, Raise
  PROVE  InStep'
BY DEF InStep, Raise

\* The greeting is one header.
LEMMA GreetingKeepsStep ==
  ASSUME InStep, ReadGreeting
  PROVE  InStep'
<1>1. /\ call = "handshake" /\ call # "none" /\ Arrived /\ Skip(1 + Payload) /\ Len(stream) \in Nat
      /\ IsSeq(stream') /\ Len(stream') = Len(stream) - (1 + Payload)
      /\ stream' = <<>> <=> Len(stream') = 0
  BY Reads DEF ReadGreeting
<1>2. user = "using" /\ closing = FALSE /\ 1 \in DOMAIN stream /\ Head1 = stream[1] /\ sent = <<>>
      /\ 1 + Payload \in 1 .. Len(stream) /\ Head1.t = "greet"
  BY <1>1, Arriving DEF InStep, ReadGreeting
<1>3. Len(stream) <= 1 + (IF Head1.says = "old" THEN 1 ELSE 0)
  BY <1>2 DEF InStep, Ends
<1>4. Payload = IF newStyle THEN 0 ELSE 1
  BY <1>1, OptionNames DEF Payload, Simple, Chunked, Zeroes
<1>5. (newStyle /\ Head1.says = "new") \/ (~newStyle /\ Head1.says = "old") => stream' = <<>>
  BY <1>1, <1>2, <1>3, <1>4
<1>6. CASE newStyle /\ Head1.says = "new" /\ call' = "starttls" /\ SendOption(NBD_OPT_STARTTLS)
           /\ UNCHANGED <<closing, user>>
  <2>1. PICK q : q = Request("option", NBD_OPT_STARTTLS, 0, 0)
    OBVIOUS
  <2>2. q.cmd = "option" /\ sent' = Append(sent, q)
    BY <1>6, <2>1 DEF Request, SendOption
  <2>3. IsSeq(sent) /\ Len(sent) = 0 /\ stream' = <<>>
    BY <1>2, <1>5, <1>6, SeqFacts DEF InStep
  <2>4. PICK t : t = Append(sent, q)
    OBVIOUS
  <2>5. IsSeq(t) /\ Len(t) = Len(sent) + 1 /\ t[Len(sent) + 1] = q
    BY <2>3, <2>4, Appended
  <2>6. IsSeq(sent') /\ Len(sent') = 1 /\ sent'[1] = q
    BY <2>2, <2>3, <2>4, <2>5
  <2> QED BY <1>1, <1>2, <1>6, <2>2, <2>3, <2>6, EmptyEnds DEF InStep
<1>7. CASE newStyle /\ Head1.says = "new" /\ Return /\ UNCHANGED sent
  BY <1>1, <1>2, <1>5, <1>7, ReturnKeepsStep DEF Return
<1>8. CASE ~newStyle /\ Head1.says = "old" /\ Return /\ UNCHANGED sent
  BY <1>1, <1>2, <1>5, <1>8, ReturnKeepsStep DEF Return
<1>9. CASE Raise /\ UNCHANGED sent
  BY <1>1, <1>9, RaiseKeepsStep
<1> QED BY <1>6, <1>7, <1>8, <1>9 DEF ReadGreeting

\* An option's reply ends the call unless more is announced.
LEMMA OptionKeepsStep ==
  ASSUME InStep, ReadOptionReply
  PROVE  InStep'
<1>1. /\ call \in OptionCalls /\ call \notin {"none", "handshake", "connect", "read", "flush"}
      /\ Arrived /\ Skip(1 + Payload) /\ sent' = sent
  BY OptionNames DEF ReadOptionReply
<1>2. /\ IsSeq(stream') /\ Len(stream') = Len(stream) - (1 + Payload) /\ Len(stream) \in Nat
      /\ stream' = <<>> <=> Len(stream') = 0
      /\ user = "using" => Ends(stream', call)
  BY <1>1, Reads
<1>3. user = "using" /\ closing = FALSE /\ 1 \in DOMAIN stream /\ Head1 = stream[1] /\ sent = <<>>
      /\ 1 + Payload \in 1 .. Len(stream)
  BY <1>1, Arriving DEF InStep, ReadOptionReply
<1>4. CASE IsMyOption(Head1) /\ Head1.says = "ack" /\ Return
  <2>1. Len(stream) = 1
    BY <1>3, <1>4 DEF InStep, Ends, IsMyOption
  <2>2. stream' = <<>>
    BY <1>2, <1>3, <2>1
  <2> QED BY <1>1, <1>2, <1>3, <1>4, <2>2, ReturnKeepsStep DEF Return
<1>5. CASE UNCHANGED <<call, closing, user>>
  BY <1>1, <1>2, <1>3, <1>5 DEF InStep
<1>6. CASE Raise
  BY <1>1, <1>2, <1>6, RaiseKeepsStep
<1> QED BY <1>4, <1>5, <1>6 DEF ReadOptionReply

\* NBD_OPT_EXPORT_NAME is answered without a header of its own.
LEMMA ExportKeepsStep ==
  ASSUME InStep, ReadExport
  PROVE  InStep'
<1>1. /\ call = "connect" /\ call # "none" /\ Arrived /\ Skip(1 + Payload) /\ sent' = sent /\ Return
  BY DEF ReadExport
<1>2. /\ IsSeq(stream') /\ Len(stream') = Len(stream) - (1 + Payload) /\ Len(stream) \in Nat
      /\ stream' = <<>> <=> Len(stream') = 0
  BY <1>1, Reads
<1>3. user = "using" /\ closing = FALSE /\ sent = <<>> /\ 1 + Payload \in 1 .. Len(stream) /\ Len(stream) <= 2
  BY <1>1, Arriving DEF InStep
<1>4. Payload = 1
  BY <1>1, OptionNames DEF Payload, Simple, Chunked, Zeroes
<1>5. stream' = <<>>
  BY <1>2, <1>3, <1>4
<1> QED BY <1>1, <1>2, <1>3, <1>5, ReturnKeepsStep DEF Return

\* A simple reply ends the call.
LEMMA SimpleReplyKeepsStep ==
  ASSUME InStep, ReadSimpleReply
  PROVE  InStep'
<1>1. /\ call \in {"write", "flush", "read"} /\ call \notin OptionCalls /\ Simple /\ call # "none"
      /\ Arrived /\ Skip(1 + Payload)
  BY OptionNames DEF ReadSimpleReply, Simple
<1>2. /\ IsSeq(stream') /\ Len(stream') = Len(stream) - (1 + Payload) /\ Len(stream) \in Nat
      /\ stream' = <<>> <=> Len(stream') = 0
  BY <1>1, Reads
<1>3. /\ 1 \in DOMAIN stream /\ Head1 = stream[1] /\ 1 + Payload \in 1 .. Len(stream)
      /\ user = "using" => sent = <<>>
  BY <1>1, Arriving
<1>4. ASSUME IsMyReply(Head1), user = "using" PROVE stream' = <<>>
  <2>1. Len(stream) <= 1 + (IF call = "read" THEN 1 ELSE 0)
    BY <1>3, <1>4 DEF InStep, Ends, IsMyReply
  <2>2. Payload = IF call = "read" THEN 1 ELSE 0
    BY <1>1, <1>4, OptionNames DEF Payload, Simple, Chunked
  <2> QED BY <1>2, <1>3, <2>1, <2>2
<1>5. CASE IsMyReply(Head1) /\ closing /\ Disconnect
  BY <1>2, <1>5, DisconnectSeq DEF InStep
<1>6. CASE IsMyReply(Head1) /\ ~closing /\ Return /\ UNCHANGED sent
  BY <1>2, <1>3, <1>4, <1>6, ReturnKeepsStep DEF Return
<1>7. CASE IsMyReply(Head1) /\ RaiseErrno /\ UNCHANGED sent
  <2>1. CASE Raise
    BY <1>2, <1>7, <2>1, RaiseKeepsStep
  <2>2. CASE ~closing /\ call' = "none" /\ UNCHANGED <<closing, user>>
    BY <1>2, <1>3, <1>4, <1>7, <2>2, ReturnKeepsStep
  <2> QED BY <1>7, <2>1, <2>2 DEF RaiseErrno
<1>8. CASE Raise /\ UNCHANGED sent
  BY <1>2, <1>8, RaiseKeepsStep
<1> QED BY <1>5, <1>6, <1>7, <1>8 DEF ReadSimpleReply

\* A chunk ends it if it is flagged as the last.
LEMMA ChunkKeepsStep ==
  ASSUME InStep, ReadChunk
  PROVE  InStep'
<1>1. /\ call \in {"status", "read"} /\ Chunked /\ call # "none" /\ Arrived /\ Skip(1 + Payload)
      /\ sent' = sent
  BY DEF ReadChunk, Chunked
<1>2. /\ IsSeq(stream') /\ Len(stream') = Len(stream) - (1 + Payload) /\ Len(stream) \in Nat
      /\ stream' = <<>> <=> Len(stream') = 0
      /\ user = "using" => Ends(stream', call)
  BY <1>1, Reads
<1>3. /\ 1 \in DOMAIN stream /\ Head1 = stream[1] /\ 1 + Payload \in 1 .. Len(stream)
      /\ user = "using" /\ closing = FALSE /\ sent = <<>>
  BY <1>1, Arriving DEF InStep, ReadChunk
<1>4. CASE IsMyChunk(Head1) /\ Head1.done /\ Return
  <2>1. Len(stream) <= 1 + Head1.n /\ Head1.n \in {0, 1}
    BY <1>3, <1>4 DEF InStep, Ends, IsMyChunk
  <2>2. Payload = Head1.n
    BY <1>1, <1>4, OptionNames DEF Payload, Simple, Chunked
  <2>3. stream' = <<>>
    BY <1>2, <1>3, <2>1, <2>2
  <2> QED BY <1>1, <1>2, <1>3, <1>4, <2>3, ReturnKeepsStep DEF Return
<1>5. CASE UNCHANGED <<call, closing, user>>
  BY <1>1, <1>2, <1>3, <1>5 DEF InStep
<1>6. CASE Raise
  BY <1>1, <1>2, <1>6, RaiseKeepsStep
<1> QED BY <1>4, <1>5, <1>6 DEF ReadChunk

\* A failed read raises.
LEMMA FailureKeepsStep ==
  ASSUME InStep, ReadFails
  PROVE  InStep'
<1>1. IsSeq(stream')
  BY Tuples DEF ReadFails
<1> QED BY <1>1, RaiseKeepsStep DEF ReadFails

\* The next request, and what is left to be answered.
LEMMA Serving ==
  ASSUME IsSeq(sent), sent # <<>>, sent' = Tail(sent)
  PROVE  /\ IsSeq(sent') /\ 1 \in DOMAIN sent /\ Req = sent[1]
         /\ Len(sent) = 1 => sent' = <<>>
         /\ \A i \in DOMAIN sent' : \E k \in DOMAIN sent : sent'[i] = sent[k]
<1>1. PICK t : t = Tail(sent)
  OBVIOUS
<1>2. /\ IsSeq(t) /\ Len(t) = Len(sent) - 1 /\ \A i \in 1 .. Len(sent) - 1 : t[i] = sent[i + 1]
      /\ Head(sent) = sent[1] /\ 1 \in DOMAIN sent
  BY <1>1, Rest
<1>3. /\ Len(sent) \in Nat /\ DOMAIN sent = 1 .. Len(sent) /\ DOMAIN t = 1 .. Len(t)
      /\ t = <<>> <=> Len(t) = 0
  BY <1>2, SeqFacts
<1>4. ASSUME NEW i \in DOMAIN t PROVE \E k \in DOMAIN sent : t[i] = sent[k]
  <2>1. i + 1 \in DOMAIN sent /\ t[i] = sent[i + 1]
    BY <1>2, <1>3
  <2> QED BY <2>1
<1> QED BY <1>1, <1>2, <1>3, <1>4 DEF Req

\* The server answers the oldest of what was sent: the only one.
LEMMA AnswerKeepsStep ==
  ASSUME InStep, sent # <<>>, sent' = Tail(sent), UNCHANGED clientVars,
         NEW r, NEW c, Answers(r, c, Req.id), stream' = stream \o r,
         user = "using" => c = call,
         Req.cmd = "option" /\ Req.id = NBD_OPT_EXPORT_NAME => Len(r) <= 2
  PROVE  InStep'
<1>1. /\ IsSeq(sent') /\ 1 \in DOMAIN sent /\ Req = sent[1] /\ (Len(sent) = 1 => sent' = <<>>)
      /\ UNCHANGED <<call, closing, user>>
  BY Serving DEF InStep, clientVars
<1>2. IsSeq(r) /\ Ends(r, c) /\ IsSeq(stream)
  BY DEF Answers, InStep
<1>3. IsSeq(stream') /\ (stream = <<>> => stream' = r)
  BY <1>2, Joined
<1>4. user = "using" => /\ stream = <<>> /\ sent' = <<>> /\ call # "none" /\ call # "handshake"
                        /\ call = "connect" => Len(r) <= 2
  BY <1>1 DEF InStep
<1> QED BY <1>1, <1>2, <1>3, <1>4 DEF InStep

\* Or it does not answer.
LEMMA SilenceKeepsStep ==
  ASSUME InStep, sent # <<>>, sent' = Tail(sent), UNCHANGED clientVars, stream' = stream
  PROVE  InStep'
<1>1. /\ IsSeq(sent') /\ 1 \in DOMAIN sent /\ (Len(sent) = 1 => sent' = <<>>)
      /\ UNCHANGED <<call, closing, user>>
  BY Serving DEF InStep, clientVars
<1> QED BY <1>1 DEF InStep

\* The invariant is inductive.
LEMMA StepKept ==
  ASSUME InStep, ServerOK, ClientStep
  PROVE  InStep' /\ ServerOK'
<1>1. CASE UNCHANGED vars
  BY <1>1 DEF vars, clientVars, InStep, ServerOK
<1>2. CASE ServeOption
  <2>1. /\ sent # <<>> /\ sent' = Tail(sent) /\ ServerOK' /\ UNCHANGED clientVars
        /\ \/ stream' = stream
           \/ \E r : /\ Answers(r, call, Req.id) /\ Plain(r) /\ stream' = stream \o r
                     /\ Req.id = NBD_OPT_EXPORT_NAME => Len(r) <= 2
    BY <1>2, OptionAnswered DEF ServeOption
  <2> QED BY <2>1, AnswerKeepsStep, SilenceKeepsStep
<1>3. ASSUME NEW statuses, ServeRequest(statuses) PROVE InStep' /\ ServerOK'
  <2>1. PICK c : c = IF user = "using" THEN call ELSE "read"
    OBVIOUS
  <2>2. Req.cmd = "read" => c = "read"
    BY <1>3, <2>1, Serving DEF InStep, ServeRequest
  <2>3. /\ sent # <<>> /\ sent' = Tail(sent) /\ Req.cmd # "option" /\ ServerOK' /\ UNCHANGED clientVars
        /\ \/ stream' = stream
           \/ \E r : Answers(r, c, Req.id) /\ stream' = stream \o r
    BY <1>3, <2>2, RequestAnswered DEF ServeRequest
  <2> QED BY <2>1, <2>3, AnswerKeepsStep, SilenceKeepsStep
<1>4. CASE \/ \E c \in OptionCalls : CallOption(c)
           \/ CallConnect
           \/ \E o, l : \E c \in {"write", "read", "status"} : CallRequest(c, o, l)
           \/ CallFlush \/ Leave
  <2>1. UNCHANGED server
    BY <1>4 DEF CallOption, CallConnect, CallRequest, CallFlush, Leave
  <2> QED BY <1>4, <2>1, CallsKeepStep DEF ServerOK
<1>5. CASE Close
  BY <1>5, CloseKeepsStep DEF Close, ServerOK
<1>6. CASE ReadGreeting
  BY <1>6, GreetingKeepsStep DEF ReadGreeting, ServerOK
<1>7. CASE ReadOptionReply
  BY <1>7, OptionKeepsStep DEF ReadOptionReply, ServerOK
<1>8. CASE ReadExport
  BY <1>8, ExportKeepsStep DEF ReadExport, ServerOK
<1>9. CASE ReadSimpleReply
  BY <1>9, SimpleReplyKeepsStep DEF ReadSimpleReply, ServerOK
<1>10. CASE ReadChunk
  BY <1>10, ChunkKeepsStep DEF ReadChunk, ServerOK
<1>11. CASE ReadFails
  BY <1>11, FailureKeepsStep DEF ReadFails, ServerOK
<1> QED BY <1>1, <1>2, <1>3, <1>4, <1>5, <1>6, <1>7, <1>8, <1>9, <1>10, <1>11 DEF ClientStep

\* It holds at first.
LEMMA InStepInit ==
  ASSUME Init
  PROVE  InStep /\ ServerOK
<1>1. PICK new : new = Item("greet", 0, "new", 0, TRUE, <<>>)
  OBVIOUS
<1>2. PICK old : old = Item("greet", 0, "old", 1, TRUE, <<>>)
  OBVIOUS
<1>3. PICK y : y = Bytes(0)
  OBVIOUS
<1>4. /\ new.n \in {0, 1} /\ new.t = "greet" /\ new.says = "new"
      /\ old.n \in {0, 1} /\ old.t = "greet" /\ old.says = "old"
      /\ y.n \in {0, 1} /\ y.t = "bytes"
  BY <1>1, <1>2, <1>3 DEF Bytes, Item
<1>5. stream = <<new>> \/ stream = <<old, y>>
  BY <1>1, <1>2, <1>3 DEF Init
<1>6. /\ IsSeq(stream) /\ stream # <<>> /\ stream[1].t = "greet" /\ Ends(stream, "handshake")
      /\ \A i \in DOMAIN stream : stream[i].t \in {"greet", "bytes"}
  <2>1. CASE stream = <<new>>
    <3>1. IsSeq(stream) /\ Len(stream) = 1 /\ stream[1] = new /\ DOMAIN stream = {1}
      BY <2>1, Tuples
    <3> QED BY <1>4, <3>1 DEF Ends
  <2>2. CASE stream = <<old, y>>
    <3>1. /\ IsSeq(stream) /\ Len(stream) = 2 /\ stream[1] = old /\ stream[2] = y
          /\ DOMAIN stream = {1, 2}
      BY <2>2, Tuples
    <3> QED BY <1>4, <3>1 DEF Ends
  <2> QED BY <1>5, <2>1, <2>2
<1>7. IsSeq(sent)
  BY Tuples DEF Init
<1> QED BY <1>6, <1>7 DEF Init, InStep, ServerOK

\* Every method of the client reads exactly its own replies and payloads: between
\* two calls of a user who has seen no exception nothing of an answer is left.
THEOREM NothingLeftUnread == Spec => []StreamInStep
<1>1. ProgramInit => InStep /\ ServerOK
  BY InStepInit DEF ProgramInit
<1>2. InStep /\ ServerOK /\ [Next]_allVars => InStep' /\ ServerOK'
  BY NextIsClientStep, StepKept
<1>3. InStep => StreamInStep
  BY DEF InStep, StreamInStep
<1> QED BY <1>1, <1>2, <1>3, PTL DEF Spec

-----------------------------------------------------------------------------
(* Writes that were acknowledged *)

\* The method that runs belongs to the phase, and close() is the end.
Phases ==
    /\ handle \in Nat
    /\ call \in OptionCalls => phase # "transmission"
    /\ call = "handshake" => phase = "new"
    /\ call \in {"write", "read", "flush", "status"} => phase = "transmission"
    /\ user = "gone" => call = "none"
    /\ closed => user = "gone" /\ flushed
    /\ phase # "transmission" => acked = {}

\* _flushed is true of everything the client has been told is written.
FlushedIsTrue ==
    /\ acked \subseteq server.volatile
    /\ call = "write" => ~flushed
    /\ sendFlush /\ flushed => acked \subseteq server.durable

\* A simple reply under way is true of the server when it answers the call
\* that runs, and is of an older request otherwise.
Truthful ==
    \A i \in DOMAIN stream : stream[i].t = "simple" =>
        /\ stream[i].id \in 0 .. handle
        /\ stream[i].id = handle /\ stream[i].says = "ok" =>
             /\ call = "write" => handle \in server.volatile
             /\ call = "flush" => acked \subseteq server.durable

\* So is a request: what has the last handle is what the method has sent.
Asked ==
    \A i \in DOMAIN sent : sent[i].cmd # "option" =>
        /\ sent[i].id \in 0 .. handle
        /\ sent[i].id = handle /\ call \in {"write", "flush"} => sent[i].cmd = call

Kept == Phases /\ FlushedIsTrue /\ Truthful /\ Asked

\* A request is sent with a handle of its own.
LEMMA RequestSent ==
  ASSUME Asked, IsSeq(sent), handle \in Nat, NEW cmd, NEW o, NEW l, SendRequest(cmd, o, l),
         call' = cmd \/ call' \notin {"write", "flush"}
  PROVE  Asked' /\ handle' = handle + 1
<1>1. PICK q : q = Request(cmd, handle + 1, o, l)
  OBVIOUS
<1>2. q.cmd = cmd /\ q.id = handle + 1
  BY <1>1 DEF Request
<1>3. PICK t : t = Append(sent, q)
  OBVIOUS
<1>4. sent' = t /\ handle' = handle + 1
  BY <1>1, <1>3 DEF SendRequest
<1>5. /\ IsSeq(t) /\ Len(t) = Len(sent) + 1 /\ \A i \in 1 .. Len(sent) : t[i] = sent[i]
      /\ t[Len(sent) + 1] = q
  BY <1>3, Appended
<1>6. Len(sent) \in Nat /\ DOMAIN sent = 1 .. Len(sent) /\ DOMAIN t = 1 .. Len(t)
  BY <1>5, SeqFacts
<1>7. ASSUME NEW i \in DOMAIN t, t[i].cmd # "option"
      PROVE  t[i].id \in 0 .. handle + 1 /\ (t[i].id = handle + 1 => t[i].cmd = cmd)
  <2>1. CASE i = Len(sent) + 1
    BY <1>2, <1>5, <2>1
  <2>2. CASE i # Len(sent) + 1
    <3>1. i \in DOMAIN sent /\ t[i] = sent[i]
      BY <1>5, <1>6, <2>2
    <3>2. t[i].id \in 0 .. handle
      BY <1>7, <3>1 DEF Asked
    <3> QED BY <3>2
  <2> QED BY <2>1, <2>2
<1> QED BY <1>4, <1>7 DEF Asked

\* An option has no part in what is asked of the disk.
LEMMA OptionSent ==
  ASSUME Asked, IsSeq(sent), NEW o, SendOption(o), handle' = handle, call' \notin {"write", "flush"}
  PROVE  Asked'
<1>1. PICK q : q = Request("option", o, 0, 0)
  OBVIOUS
<1>2. q.cmd = "option"
  BY <1>1 DEF Request
<1>3. PICK t : t = Append(sent, q)
  OBVIOUS
<1>4. sent' = t
  BY <1>1, <1>3 DEF SendOption
<1>5. /\ IsSeq(t) /\ Len(t) = Len(sent) + 1 /\ \A i \in 1 .. Len(sent) : t[i] = sent[i]
      /\ t[Len(sent) + 1] = q
  BY <1>3, Appended
<1>6. Len(sent) \in Nat /\ DOMAIN sent = 1 .. Len(sent) /\ DOMAIN t = 1 .. Len(t)
  BY <1>5, SeqFacts
<1>7. ASSUME NEW i \in DOMAIN t, t[i].cmd # "option" PROVE i \in DOMAIN sent /\ t[i] = sent[i]
  BY <1>2, <1>5, <1>6, <1>7
<1> QED BY <1>4, <1>7 DEF Asked

\* Nor has what the server took.
LEMMA LessAsked ==
  ASSUME Asked, \A i \in DOMAIN sent' : \E k \in DOMAIN sent : sent'[i] = sent[k],
         handle' = handle, call' = call \/ call' \notin {"write", "flush"}
  PROVE  Asked'
BY DEF Asked

\* Elements of the stream stay true, or are of an older request.
LEMMA StillTruthful ==
  ASSUME Truthful, handle \in Nat,
         \A i \in DOMAIN stream' : \E k \in DOMAIN stream : stream'[i] = stream[k],
         \/ handle' = handle + 1
         \/ /\ handle' = handle
            /\ call' \notin {"write", "flush"} \/ (call' = call /\ acked' = acked)
            /\ server.volatile \subseteq server'.volatile /\ server.durable \subseteq server'.durable
  PROVE  Truthful'
<1>1. ASSUME NEW i \in DOMAIN stream', stream'[i].t = "simple"
      PROVE  /\ stream'[i].id \in 0 .. handle'
             /\ stream'[i].id = handle' /\ stream'[i].says = "ok" =>
                  /\ call' = "write" => handle' \in server'.volatile
                  /\ call' = "flush" => acked' \subseteq server'.durable
  <2>1. PICK k \in DOMAIN stream : stream'[i] = stream[k]
    OBVIOUS
  <2>2. PICK x : x = stream[k]
    OBVIOUS
  <2>3. /\ x.id \in 0 .. handle
        /\ x.id = handle /\ x.says = "ok" =>
             /\ call = "write" => handle \in server.volatile
             /\ call = "flush" => acked \subseteq server.durable
    BY <1>1, <2>1, <2>2 DEF Truthful
  <2>4. stream'[i] = x
    BY <2>1, <2>2
  <2> QED BY <2>3, <2>4
<1> QED BY <1>1 DEF Truthful

\* A disconnect keeps it when what was acknowledged is durable.
LEMMA DisconnectKeeps ==
  ASSUME InStep, Kept, Disconnect, UNCHANGED <<phase, acked, server, sendFlush>>,
         \A i \in DOMAIN stream' : \E k \in DOMAIN stream : stream'[i] = stream[k],
         flushed' = TRUE, sendFlush /\ phase = "transmission" => acked \subseteq server.durable
  PROVE  Kept'
<1>1. call' = "none" /\ user' = "gone" /\ "none" \notin OptionCalls
  BY OptionNames DEF Disconnect
<1>2. Asked' /\ (handle' = handle \/ handle' = handle + 1)
  BY <1>1, RequestSent, OptionSent DEF Disconnect, Kept, Phases, InStep
<1>3. Truthful'
  BY <1>1, <1>2, StillTruthful DEF Kept, Phases
<1>4. Phases'
  BY <1>1, <1>2 DEF Kept, Phases
<1>5. FlushedIsTrue'
  BY <1>1 DEF Kept, Phases, FlushedIsTrue
<1> QED BY <1>2, <1>3, <1>4, <1>5 DEF Kept

\* The stream as it was.
LEMMA SameStream ==
  ASSUME stream' = stream
  PROVE  \A i \in DOMAIN stream' : \E k \in DOMAIN stream : stream'[i] = stream[k]
OBVIOUS

\* A call that begins: a write clears _flushed before it is sent.
LEMMA CallsKeep ==
  ASSUME InStep, Kept,
         \/ \E c \in OptionCalls : CallOption(c)
         \/ CallConnect
         \/ \E o, l : \E c \in {"write", "read", "status"} : CallRequest(c, o, l)
         \/ CallFlush \/ Leave
  PROVE  Kept'
<1>1. IsSeq(sent) /\ handle \in Nat /\ Phases /\ FlushedIsTrue /\ Truthful /\ Asked
  BY DEF InStep, Kept, Phases
<1>2. ASSUME NEW c \in OptionCalls, CallOption(c) PROVE Kept'
  <2>1. /\ c \notin {"none", "handshake", "connect", "read", "write", "flush", "status"}
        /\ call' = c /\ SendOption(OptionOf[c]) /\ user = "using" /\ phase = "options"
        /\ UNCHANGED <<args, user, phase, flushed, closed, handle, acked, stream, server>>
    BY <1>2, OptionNames DEF CallOption
  <2>2. Asked' /\ Truthful'
    BY <1>1, <2>1, OptionSent, StillTruthful, SameStream
  <2> QED BY <1>1, <2>1, <2>2 DEF Kept, Phases, FlushedIsTrue, args
<1>3. ASSUME CallConnect PROVE Kept'
  <2>1. /\ "connect" \notin OptionCalls
        /\ call' = "connect" /\ SendOption(NBD_OPT_EXPORT_NAME) /\ user = "using"
        /\ UNCHANGED <<args, user, phase, flushed, closed, handle, acked, stream, server>>
    BY <1>3, OptionNames DEF CallConnect
  <2>2. Asked' /\ Truthful'
    BY <1>1, <2>1, OptionSent, StillTruthful, SameStream
  <2> QED BY <1>1, <2>1, <2>2 DEF Kept, Phases, FlushedIsTrue, args
<1>4. ASSUME NEW o, NEW l, NEW c \in {"write", "read", "status"}, CallRequest(c, o, l) PROVE Kept'
  <2>1. /\ c \notin OptionCalls /\ call' = c /\ SendRequest(c, o, l) /\ user = "using"
        /\ phase = "transmission" /\ flushed' = (flushed /\ c # "write")
        /\ UNCHANGED <<args, user, phase, closed, acked, stream, server>>
    BY <1>4, OptionNames DEF CallRequest
  <2>2. Asked' /\ handle' = handle + 1
    BY <1>1, <2>1, RequestSent
  <2>3. Truthful'
    BY <1>1, <2>1, <2>2, StillTruthful, SameStream
  <2>4. (flushed' => flushed) /\ (c = "write" => ~flushed')
    BY <2>1, Zenon
  <2>5. Phases'
    BY <1>1, <2>1, <2>2 DEF Phases
  <2>6. FlushedIsTrue'
    BY <1>1, <2>1, <2>4 DEF FlushedIsTrue, args
  <2> QED BY <2>2, <2>3, <2>5, <2>6 DEF Kept
<1>5. ASSUME CallFlush, sendFlush PROVE Kept'
  <2>1. /\ "flush" \notin OptionCalls /\ call' = "flush" /\ SendRequest("flush", 0, 0)
        /\ user = "using" /\ phase = "transmission"
        /\ UNCHANGED <<args, user, phase, flushed, closed, acked, stream, server>>
    BY <1>5, OptionNames DEF CallFlush
  <2>2. Asked' /\ handle' = handle + 1
    BY <1>1, <2>1, RequestSent
  <2>3. Truthful'
    BY <1>1, <2>1, <2>2, StillTruthful, SameStream
  <2> QED BY <1>1, <2>1, <2>2, <2>3 DEF Kept, Phases, FlushedIsTrue, args
<1>6. ASSUME CallFlush, ~sendFlush PROVE Kept'
  <2>1. /\ flushed' = TRUE /\ call = "none"
        /\ UNCHANGED <<args, call, handle, sent, user, phase, closed, acked, stream, server>>
    BY <1>6 DEF CallFlush
  <2> QED BY <1>1, <1>6, <2>1 DEF Kept, Phases, FlushedIsTrue, Truthful, Asked, args
<1>7. ASSUME Leave PROVE Kept'
  <2>1. /\ user = "using" /\ user' = "left" /\ call' = "none" /\ "none" \notin OptionCalls
        /\ UNCHANGED <<args, handle, sent, flushed, phase, closed, acked, stream, server>>
    BY <1>7, OptionNames DEF Leave
  <2> QED BY <1>1, <2>1 DEF Kept, Phases, FlushedIsTrue, Truthful, Asked, args
<1> QED BY <1>2, <1>3, <1>4, <1>5, <1>6, <1>7

\* close() disconnects when there is nothing to flush.
LEMMA CloseKeeps ==
  ASSUME InStep, Kept, Close
  PROVE  Kept'
<1>1. IsSeq(sent) /\ handle \in Nat /\ Phases /\ FlushedIsTrue /\ Truthful /\ Asked
  BY DEF InStep, Kept, Phases
<1>2. CASE phase = "transmission" /\ ~flushed /\ sendFlush
  <2>1. /\ "flush" \notin OptionCalls /\ call' = "flush" /\ SendRequest("flush", 0, 0)
        /\ user # "gone"
        /\ UNCHANGED <<args, user, phase, flushed, closed, acked, stream, server>>
    BY <1>2, OptionNames DEF Close
  <2>2. Asked' /\ handle' = handle + 1
    BY <1>1, <2>1, RequestSent
  <2>3. Truthful'
    BY <1>1, <2>1, <2>2, StillTruthful, SameStream
  <2> QED BY <1>1, <1>2, <2>1, <2>2, <2>3 DEF Kept, Phases, FlushedIsTrue, args
<1>3. CASE ~(phase = "transmission" /\ ~flushed /\ sendFlush)
  <2>1. /\ Disconnect /\ flushed' = TRUE
        /\ UNCHANGED <<phase, acked, server, sendFlush, stream>>
    BY <1>3 DEF Close, args
  <2>2. sendFlush /\ phase = "transmission" => acked \subseteq server.durable
    BY <1>1, <1>3 DEF FlushedIsTrue
  <2> QED BY <2>1, <2>2, SameStream, DisconnectKeeps
<1> QED BY <1>2, <1>3

\* A method that returns or raises, without anything it says of writes.
LEMMA EndKeeps ==
  ASSUME Kept, call # "none", call' = "none" \/ call' = "starttls" \/ call' = call,
         user' = "gone" => call' = "none",
         phase' = phase \/ call' = "none", call' = "starttls" => phase' # "transmission",
         phase' # phase => phase # "transmission" \/ phase' = "transmission",
         UNCHANGED <<sendFlush, flushed, closed, handle, acked, server>>,
         \A i \in DOMAIN stream' : \E k \in DOMAIN stream : stream'[i] = stream[k],
         Asked'
  PROVE  Kept'
<1>1. "none" \notin OptionCalls /\ ~closed /\ handle \in Nat /\ Truthful
  BY OptionNames DEF Kept, Phases
<1>2. Truthful'
  BY <1>1, StillTruthful
<1>3. Phases'
  BY <1>1 DEF Kept, Phases
<1>4. FlushedIsTrue'
  BY DEF Kept, FlushedIsTrue
<1> QED BY <1>2, <1>3, <1>4 DEF Kept

\* The greeting says nothing about writes.
LEMMA GreetingKeeps ==
  ASSUME InStep, Kept, ReadGreeting
  PROVE  Kept'
<1>1. /\ call = "handshake" /\ phase = "new" /\ Asked /\ IsSeq(sent) /\ user = "using" /\ ~closing
      /\ \A i \in DOMAIN stream' : \E k \in DOMAIN stream : stream'[i] = stream[k]
      /\ UNCHANGED <<sendFlush, flushed, closed, handle, acked, server>>
  BY Reads DEF ReadGreeting, Kept, Phases, InStep, args
<1>2. CASE call' = "starttls" /\ SendOption(NBD_OPT_STARTTLS) /\ UNCHANGED <<closing, user, phase, size>>
  <2>1. Asked'
    BY <1>1, <1>2, OptionSent
  <2> QED BY <1>1, <1>2, <2>1, EndKeeps
<1>3. CASE Return /\ UNCHANGED sent
  <2>1. Asked'
    BY <1>1, <1>3, LessAsked DEF Return
  <2> QED BY <1>1, <1>3, <2>1, EndKeeps DEF Return
<1>4. CASE Raise /\ UNCHANGED <<sent, phase>>
  <2>1. Asked'
    BY <1>1, <1>4, LessAsked DEF Raise
  <2> QED BY <1>1, <1>4, <2>1, EndKeeps DEF Raise
<1> QED BY <1>2, <1>3, <1>4 DEF ReadGreeting

\* Nor do options and chunks.
LEMMA RepliesKeep ==
  ASSUME InStep, Kept, ReadOptionReply \/ ReadExport \/ ReadChunk \/ ReadFails
  PROVE  Kept'
<1>1. /\ \A i \in DOMAIN stream' : \E k \in DOMAIN stream : stream'[i] = stream[k]
      /\ UNCHANGED <<sendFlush, flushed, closed, handle, acked, server, sent>>
      /\ call # "none" /\ Asked /\ user # "gone"
  <2>1. call # "none" /\ UNCHANGED <<sendFlush, flushed, closed, handle, acked, server, sent>>
    BY OptionNames DEF ReadOptionReply, ReadExport, ReadChunk, Chunked, ReadFails, args
  <2>2. \A i \in DOMAIN stream' : \E k \in DOMAIN stream : stream'[i] = stream[k]
    BY <2>1, Reads DEF ReadOptionReply, ReadExport, ReadChunk, ReadFails
  <2> QED BY <2>1, <2>2 DEF Kept, Phases
<1>2. /\ (call' = call /\ user' = user) \/ call' = "none"
      /\ phase' = phase \/ (call' = "none" /\ (call \in OptionCalls \/ phase' = "transmission"))
  <2>1. CASE ReadOptionReply
    BY <2>1 DEF ReadOptionReply, Return, Raise
  <2>2. CASE ReadExport
    BY <2>2 DEF ReadExport, Return
  <2>3. CASE ReadChunk
    BY <2>3 DEF ReadChunk, Return, Raise
  <2>4. CASE ReadFails
    BY <2>4 DEF ReadFails, Raise
  <2> QED BY <2>1, <2>2, <2>3, <2>4
<1>3. Asked'
  BY <1>1, <1>2, LessAsked
<1> QED BY <1>1, <1>2, <1>3, OptionNames, EndKeeps DEF Kept, Phases

\* A write that succeeded is volatile, a flush that did makes it durable.
LEMMA SimpleReplyKeeps ==
  ASSUME InStep, Kept, ReadSimpleReply
  PROVE  Kept'
<1>1. /\ call \in {"write", "flush", "read"} /\ phase = "transmission" /\ user # "gone" /\ ~closed
      /\ call # "none" /\ Arrived /\ Skip(1 + Payload) /\ handle \in Nat
      /\ "none" \notin OptionCalls /\ (closing => call = "flush")
      /\ UNCHANGED <<sendFlush, phase, server>>
  BY OptionNames DEF ReadSimpleReply, Simple, Kept, Phases, InStep, args
<1>2. /\ \A i \in DOMAIN stream' : \E k \in DOMAIN stream : stream'[i] = stream[k]
      /\ 1 \in DOMAIN stream /\ Head1 = stream[1]
  BY <1>1, Reads, Arriving
<1>3. CASE /\ IsMyReply(Head1) /\ Head1.says = "ok"
           /\ acked' = acked \cup (IF call = "write" THEN {handle} ELSE {})
           /\ flushed' = (flushed \/ call = "flush")
           /\ IF closing THEN Disconnect
              ELSE Return /\ UNCHANGED <<closed, handle, lastOption, sent>>
  <2>1. /\ call = "write" => handle \in server.volatile
        /\ call = "flush" => acked \subseteq server.durable
    BY <1>2, <1>3 DEF Kept, Truthful, IsMyReply
  <2>2. CASE closing
    <3>1. call = "flush"
      BY <1>1, <2>2
    <3>2. Disconnect /\ acked' = acked /\ flushed' = TRUE /\ acked \subseteq server.durable
      BY <1>3, <2>1, <2>2, <3>1
    <3> QED BY <1>1, <1>2, <3>2, DisconnectKeeps
  <2>3. CASE ~closing
    <3>1. call' = "none" /\ UNCHANGED <<user, closed, handle, sent>>
      BY <1>3, <2>3 DEF Return
    <3>2. Asked'
      BY <3>1, LessAsked DEF Kept
    <3>3. Truthful'
      BY <1>1, <1>2, <3>1, StillTruthful DEF Kept
    <3>4. Phases'
      BY <1>1, <3>1 DEF Kept, Phases
    <3>5. acked' \subseteq server.volatile /\ (flushed' => flushed \/ call = "flush")
      BY <1>3, <2>1 DEF Kept, FlushedIsTrue
    <3>6. call = "flush" => acked' = acked
      BY <1>3
    <3>7. call = "write" => ~flushed
      BY DEF Kept, FlushedIsTrue
    <3>8. call # "write" => acked' = acked
      BY <1>3
    <3>9. FlushedIsTrue'
      BY <1>1, <2>1, <3>1, <3>5, <3>6, <3>7, <3>8 DEF Kept, FlushedIsTrue
    <3> QED BY <3>2, <3>3, <3>4, <3>9 DEF Kept
  <2> QED BY <2>2, <2>3
<1>4. CASE (RaiseErrno \/ Raise) /\ UNCHANGED <<acked, flushed, closed, handle, lastOption, sent>>
  <2>1. call' = "none"
    BY <1>4 DEF RaiseErrno, Raise
  <2>2. Asked'
    BY <1>4, <2>1, LessAsked DEF Kept
  <2> QED BY <1>1, <1>2, <1>4, <2>1, <2>2, EndKeeps
<1> QED BY <1>3, <1>4 DEF ReadSimpleReply

\* What the server says of the requests it has handled is true of it.
LEMMA AnswerKeeps ==
  ASSUME InStep, Kept, sent # <<>>, sent' = Tail(sent), UNCHANGED clientVars,
         server.volatile \subseteq server'.volatile, server.durable \subseteq server'.durable,
         NEW r, NEW c, Answers(r, c, Req.id), stream' = stream \o r,
         \A i \in DOMAIN r : r[i].t = "simple" => Req.cmd # "option",
         \A i \in DOMAIN r : r[i].t = "simple" /\ r[i].says = "ok" =>
            /\ Req.cmd = "write" => Req.id \in server'.volatile
            /\ Req.cmd = "flush" => server.volatile \subseteq server'.durable
  PROVE  Kept'
<1>1. /\ IsSeq(sent) /\ IsSeq(stream) /\ handle \in Nat /\ Asked /\ Truthful /\ Phases /\ FlushedIsTrue
      /\ UNCHANGED <<call, handle, acked, user, phase, closed, flushed, sendFlush>>
  BY DEF InStep, Kept, Phases, clientVars, args
<1>2. /\ 1 \in DOMAIN sent /\ Req = sent[1]
      /\ \A i \in DOMAIN sent' : \E k \in DOMAIN sent : sent'[i] = sent[k]
  BY <1>1, Serving
<1>3. Asked'
  BY <1>1, <1>2, LessAsked
<1>4. PICK j : j = stream \o r
  OBVIOUS
<1>5. /\ IsSeq(j) /\ Len(j) = Len(stream) + Len(r)
      /\ \A i \in 1 .. Len(stream) : j[i] = stream[i]
      /\ \A i \in 1 .. Len(r) : j[Len(stream) + i] = r[i]
  BY <1>1, <1>4, Joined DEF Answers
<1>6. /\ Len(stream) \in Nat /\ Len(r) \in Nat
      /\ DOMAIN stream = 1 .. Len(stream) /\ DOMAIN r = 1 .. Len(r) /\ DOMAIN j = 1 .. Len(j)
  BY <1>1, <1>5, SeqFacts DEF Answers
<1>7. ASSUME NEW i \in DOMAIN j, j[i].t = "simple"
      PROVE  /\ j[i].id \in 0 .. handle
             /\ j[i].id = handle /\ j[i].says = "ok" =>
                  /\ call = "write" => handle \in server'.volatile
                  /\ call = "flush" => acked \subseteq server'.durable
  <2>1. CASE i <= Len(stream)
    <3>1. i \in DOMAIN stream /\ j[i] = stream[i]
      BY <1>5, <1>6, <2>1
    <3>2. PICK x : x = stream[i]
      OBVIOUS
    <3>3. /\ x.id \in 0 .. handle
          /\ x.id = handle /\ x.says = "ok" =>
               /\ call = "write" => handle \in server.volatile
               /\ call = "flush" => acked \subseteq server.durable
      BY <1>1, <1>7, <3>1, <3>2 DEF Truthful
    <3>4. j[i] = x
      BY <3>1, <3>2
    <3> QED BY <3>3, <3>4
  <2>2. CASE ~(i <= Len(stream))
    <3>1. PICK k \in DOMAIN r : k = i - Len(stream)
      BY <1>5, <1>6, <2>2
    <3>2. j[i] = r[k]
      BY <1>5, <1>6, <3>1
    <3>3. r[k].id = Req.id /\ Req.cmd # "option"
      BY <1>7, <3>2 DEF Answers
    <3>4. Req.id \in 0 .. handle /\ (Req.id = handle /\ call \in {"write", "flush"} => Req.cmd = call)
      BY <1>1, <1>2, <3>3 DEF Asked
    <3>5. acked \subseteq server.volatile
      BY <1>1 DEF FlushedIsTrue
    <3>6. r[k].says = "ok" => /\ Req.cmd = "write" => Req.id \in server'.volatile
                              /\ Req.cmd = "flush" => server.volatile \subseteq server'.durable
      BY <1>7, <3>2
    <3> QED BY <3>2, <3>3, <3>4, <3>5, <3>6
  <2> QED BY <2>1, <2>2
<1>8. Truthful'
  BY <1>1, <1>4, <1>7 DEF Truthful
<1>9. Phases' /\ FlushedIsTrue'
  BY <1>1 DEF Phases, FlushedIsTrue
<1> QED BY <1>3, <1>8, <1>9 DEF Kept

\* Without an answer nothing is acknowledged.
LEMMA SilenceKeeps ==
  ASSUME InStep, Kept, sent # <<>>, sent' = Tail(sent), UNCHANGED clientVars, stream' = stream,
         server.volatile \subseteq server'.volatile, server.durable \subseteq server'.durable
  PROVE  Kept'
<1>1. /\ IsSeq(sent) /\ handle \in Nat /\ Asked /\ Truthful /\ Phases /\ FlushedIsTrue
      /\ UNCHANGED <<call, handle, acked, user, phase, closed, flushed, sendFlush>>
  BY DEF InStep, Kept, Phases, clientVars, args
<1>2. Asked'
  BY <1>1, Serving, LessAsked
<1>3. Truthful'
  BY <1>1, StillTruthful
<1> QED BY <1>1, <1>2, <1>3 DEF Kept, Phases, FlushedIsTrue

\* The invariant is inductive.
LEMMA KeptKept ==
  ASSUME InStep, ServerOK, Kept, ClientStep
  PROVE  Kept'
<1>1. CASE UNCHANGED vars
  BY <1>1 DEF vars, clientVars, args, Kept, Phases, FlushedIsTrue, Truthful, Asked
<1>2. CASE ServeOption
  <2>1. /\ sent # <<>> /\ sent' = Tail(sent) /\ UNCHANGED clientVars
        /\ server'.volatile = server.volatile /\ server'.durable = server.durable
        /\ \/ stream' = stream
           \/ \E r : /\ Answers(r, "read", Req.id) /\ Plain(r) /\ stream' = stream \o r
                     /\ Req.id = NBD_OPT_EXPORT_NAME => Len(r) <= 2
    BY <1>2, OptionAnswered DEF ServeOption
  <2> QED BY <2>1, AnswerKeeps, SilenceKeeps DEF Plain
<1>3. ASSUME NEW statuses, ServeRequest(statuses) PROVE Kept'
  <2>1. /\ sent # <<>> /\ sent' = Tail(sent) /\ Req.cmd # "option" /\ UNCHANGED clientVars
        /\ server.volatile \subseteq server'.volatile /\ server.durable \subseteq server'.durable
        /\ \/ stream' = stream
           \/ \E r : /\ Answers(r, "read", Req.id) /\ stream' = stream \o r
                     /\ \A i \in DOMAIN r : r[i].t = "simple" /\ r[i].says = "ok" =>
                            /\ Req.cmd = "write" => Req.id \in server'.volatile
                            /\ Req.cmd = "flush" => server.volatile \subseteq server'.durable
    BY <1>3, RequestAnswered DEF ServeRequest
  <2> QED BY <2>1, AnswerKeeps, SilenceKeeps
<1> QED BY <1>1, <1>2, <1>3, CallsKeep, CloseKeeps, GreetingKeeps, RepliesKeep, SimpleReplyKeeps
        DEF ClientStep

\* It holds at first.
LEMMA KeptInit ==
  ASSUME Init
  PROVE  Kept
<1>1. PICK new : new = Item("greet", 0, "new", 0, TRUE, <<>>)
  OBVIOUS
<1>2. PICK old : old = Item("greet", 0, "old", 1, TRUE, <<>>)
  OBVIOUS
<1>3. PICK y : y = Bytes(0)
  OBVIOUS
<1>4. new.t = "greet" /\ old.t = "greet" /\ y.t = "bytes"
  BY <1>1, <1>2, <1>3 DEF Bytes, Item
<1>5. stream = <<new>> \/ stream = <<old, y>>
  BY <1>1, <1>2, <1>3 DEF Init
<1>6. Truthful
  BY <1>4, <1>5 DEF Truthful
<1>7. Asked
  BY DEF Init, Asked
<1>8. Phases /\ FlushedIsTrue
  BY OptionNames DEF Init, Phases, FlushedIsTrue
<1> QED BY <1>6, <1>7, <1>8 DEF Kept

\* If close() returns, every write the client has been told is done is on
\* permanent storage, if the server can flush.
THEOREM ClosedIsDurable == Spec => []DurableOnClose
<1>1. ProgramInit => InStep /\ ServerOK /\ Kept
  BY InStepInit, KeptInit DEF ProgramInit
<1>2. InStep /\ ServerOK /\ Kept /\ [Next]_allVars => InStep' /\ ServerOK' /\ Kept'
  BY NextIsClientStep, StepKept, KeptKept
<1>3. Kept => DurableOnClose
  BY DEF Kept, Phases, FlushedIsTrue, DurableOnClose
<1> QED BY <1>1, <1>2, <1>3, PTL DEF Spec

-----------------------------------------------------------------------------
(* The extents *)

\* What holds for 0 and for i + 1 whenever for i holds for every natural
\* number, or there would be a smallest for which it does not.
LEMMA Induction ==
  ASSUME NEW S, 0 \in S, \A i \in Nat : i \in S => i + 1 \in S
  PROVE  \A i \in Nat : i \in S
<1> DEFINE T == Nat \ S
<1> SUFFICES ASSUME T # {} PROVE FALSE
  OBVIOUS
<1>1. PICK x \in T : \A y \in T : ~(<<y, x>> \in OpToRel(<, Nat))
  BY NatLessThanWellFounded, WFMin
<1>2. x \in Nat /\ x \notin S /\ \A y \in Nat \ S : ~(y < x)
  BY <1>1 DEF OpToRel
<1>3. x # 0
  BY <1>2
<1>4. x - 1 \in Nat /\ x - 1 < x /\ (x - 1) + 1 = x
  BY <1>2, <1>3
<1>5. x - 1 \in S
  BY <1>2, <1>4
<1> QED BY <1>2, <1>4, <1>5

\* A function on the first n numbers is a sequence.
LEMMA FunctionIsSeq ==
  ASSUME NEW n \in Nat, NEW S, NEW s \in [1 .. n -> S]
  PROVE  s \in Seq(S) /\ IsSeq(s) /\ Len(s) = n /\ DOMAIN s = 1 .. n
<1>1. s \in Seq(S)
  BY SeqDef
<1> QED BY <1>1 DEF IsSeq

\* The smaller of two numbers.
LEMMA Smaller ==
  ASSUME NEW a \in Int, NEW b \in Int
  PROVE  /\ Min({a, b}) \in {a, b}
         /\ Min({a, b}) <= a /\ Min({a, b}) <= b
<1>1. \E x \in {a, b} : \A y \in {a, b} : x <= y
  <2>1. CASE a <= b
    BY <2>1
  <2>2. CASE ~(a <= b)
    BY <2>2
  <2> QED BY <2>1, <2>2
<1> QED BY <1>1 DEF Min

Flattened(f, s) == [i \in 1 .. Len(s) |-> IF i = 1 THEN s[i] ELSE f[i - 1] \o s[i]]

\* How FlattenSeq is computed does not matter.
LEMMA FlattenIs ==
  ASSUME NEW s, IsSeq(s), Len(s) # 0, NEW g, g = Flattened(g, s)
  PROVE  FlattenSeq(s) = g[Len(s)]
<1> DEFINE f == CHOOSE h : h = Flattened(h, s)
<1>1. FlattenSeq(s) = f[Len(s)]
  BY DEF FlattenSeq, Flattened
<1>2. f = Flattened(f, s)
  OBVIOUS
<1> HIDE DEF f
<1>3. Len(s) \in Nat
  BY SeqFacts
<1> DEFINE S == {i \in Nat : i + 1 <= Len(s) => f[i + 1] = g[i + 1]}
<1>4. 0 \in S
  BY <1>2, <1>3 DEF Flattened
<1>5. ASSUME NEW i \in Nat, i \in S PROVE i + 1 \in S
  <2> SUFFICES ASSUME (i + 1) + 1 <= Len(s) PROVE f[(i + 1) + 1] = g[(i + 1) + 1]
    OBVIOUS
  <2>1. f[i + 1] = g[i + 1]
    BY <1>3, <1>5
  <2>2. PICK k : k = (i + 1) + 1
    OBVIOUS
  <2>3. k \in 1 .. Len(s) /\ k # 1 /\ k - 1 = i + 1
    BY <1>3, <2>2
  <2>4. f[k] = f[k - 1] \o s[k] /\ g[k] = g[k - 1] \o s[k]
    BY <1>2, <2>3 DEF Flattened
  <2> QED BY <2>1, <2>2, <2>3, <2>4
<1>6. \A i \in Nat : i \in S
  <2> HIDE DEF S
  <2> QED BY <1>4, <1>5, Induction
<1>7. Len(s) - 1 \in S /\ (Len(s) - 1) + 1 = Len(s)
  BY <1>3, <1>6
<1> QED BY <1>1, <1>3, <1>7

\* The status of the units from a up to, and without, b.
Told(a, b) == [k \in 1 .. (b - a) |-> status[a + k - 1]]

\* Rising marks between which the status is the same.
Follows(m, n) ==
    /\ m \in [1 .. (n + 1) -> Int]
    /\ \A i \in 1 .. n : /\ m[i] < m[i + 1]
                         /\ \A u \in m[i] .. (m[i + 1] - 1) : status[u] = status[m[i]]

\* What has been yielded lies from mark to mark between the area's first unit
\* and the position.
Tiles(m, n) ==
    /\ Follows(m, n) /\ m[1] = area.offset /\ m[n + 1] = offset
    /\ extents = Descriptors(m, n)

\* A sequence of one thing after what was told tells more.
LEMMA ToldMore ==
  ASSUME NEW a \in Int, NEW b \in Int, NEW c \in Int, a <= b, b < c,
         \A u \in b .. (c - 1) : status[u] = status[b]
  PROVE  /\ IsSeq(Told(a, c))
         /\ Told(a, c) = Told(a, b) \o [k \in 1 .. (c - b) |-> status[b]]
         /\ Told(b, c) = [k \in 1 .. (c - b) |-> status[b]]
<1> DEFINE S == {status[u] : u \in Int}
           p == Told(a, b)
           q == [k \in 1 .. (c - b) |-> status[b]]
           t == Told(a, c)
<1>1. /\ b - a \in Nat /\ c - b \in Nat /\ c - a \in Nat
      /\ p \in [1 .. (b - a) -> S] /\ q \in [1 .. (c - b) -> S] /\ t \in [1 .. (c - a) -> S]
  BY DEF Told
<1>2. /\ \A k \in 1 .. (b - a) : p[k] = status[a + k - 1]
      /\ \A k \in 1 .. (c - b) : q[k] = status[b]
      /\ \A k \in 1 .. (c - a) : t[k] = status[a + k - 1]
  BY DEF Told
<1>3. Told(b, c) = q
  <2>1. \A k \in 1 .. (c - b) : status[b + k - 1] = status[b]
    OBVIOUS
  <2> QED BY <2>1 DEF Told
<1> HIDE DEF S, p, q, t
<1>4. /\ p \in Seq(S) /\ IsSeq(p) /\ Len(p) = b - a
      /\ q \in Seq(S) /\ IsSeq(q) /\ Len(q) = c - b
      /\ t \in Seq(S) /\ IsSeq(t) /\ Len(t) = c - a
  BY <1>1, FunctionIsSeq
<1>5. PICK j : j = p \o q
  OBVIOUS
<1>6. /\ j \in Seq(S) /\ Len(j) = c - a
      /\ \A i \in 1 .. (b - a) : j[i] = p[i]
      /\ \A i \in 1 .. (c - b) : j[(b - a) + i] = q[i]
  <2>1. j \in Seq(S)
    BY <1>4, <1>5
  <2> QED BY <1>4, <1>5, <2>1, Joined
<1>7. ASSUME NEW i \in 1 .. (c - a) PROVE j[i] = t[i]
  <2>1. CASE i <= b - a
    BY <1>2, <1>6, <2>1
  <2>2. CASE ~(i <= b - a)
    <3>1. PICK k \in 1 .. (c - b) : i = (b - a) + k
      <4>1. i - (b - a) \in 1 .. (c - b) /\ i = (b - a) + (i - (b - a))
        BY <2>2
      <4> QED BY <4>1
    <3>2. j[i] = status[b]
      BY <1>2, <1>6, <3>1
    <3>3. t[i] = status[a + i - 1] /\ a + i - 1 \in b .. (c - 1)
      BY <1>2, <3>1
    <3> QED BY <3>2, <3>3
  <2> QED BY <2>1, <2>2
<1>8. j = t
  BY <1>4, <1>6, <1>7, SeqEqual
<1> QED BY <1>3, <1>4, <1>5, <1>8 DEF p, q, t

\* Marks rise.
LEMMA MarksRise ==
  ASSUME NEW n \in Nat, NEW m, Follows(m, n)
  PROVE  \A i \in 1 .. (n + 1) : m[i] \in Int /\ m[1] <= m[i]
<1> DEFINE S == {i \in Nat : i + 1 <= n + 1 => m[1] <= m[i + 1]}
<1>1. \A i \in 1 .. (n + 1) : m[i] \in Int
  BY DEF Follows
<1>2. 0 \in S
  BY <1>1
<1>3. ASSUME NEW i \in Nat, i \in S PROVE i + 1 \in S
  <2> SUFFICES ASSUME (i + 1) + 1 <= n + 1 PROVE m[1] <= m[(i + 1) + 1]
    OBVIOUS
  <2>1. i + 1 \in 1 .. n /\ 1 \in 1 .. (n + 1) /\ i + 1 \in 1 .. (n + 1) /\ (i + 1) + 1 \in 1 .. (n + 1)
    OBVIOUS
  <2>2. m[1] <= m[i + 1]
    BY <1>3
  <2>3. m[i + 1] < m[(i + 1) + 1]
    BY <2>1 DEF Follows
  <2> QED BY <1>1, <2>1, <2>2, <2>3
<1>4. \A i \in Nat : i \in S
  <2> HIDE DEF S
  <2> QED BY <1>2, <1>3, Induction
<1>5. ASSUME NEW i \in 1 .. (n + 1) PROVE m[1] <= m[i]
  <2>1. i - 1 \in Nat /\ (i - 1) + 1 = i /\ i - 1 \in S
    BY <1>4
  <2> QED BY <2>1
<1> QED BY <1>1, <1>5

\* The list of extents is the status, run by run.
LEMMA TilesCover ==
  ASSUME NEW n \in Nat, NEW m, Tiles(m, n)
  PROVE  Expanded = Told(area.offset, offset)
<1> DEFINE Runs(i) == [k \in 1 .. extents[i].length |-> extents[i].flags]
           s == [i \in 1 .. n |-> Runs(i)]
           g == [i \in 1 .. n |-> Told(m[1], m[i + 1])]
<1>1. /\ Follows(m, n) /\ m[1] = area.offset /\ m[n + 1] = offset
      /\ DOMAIN extents = 1 .. n
      /\ \A i \in 1 .. n : extents[i].length = m[i + 1] - m[i] /\ extents[i].flags = status[m[i]]
  BY DEF Tiles, Descriptors
<1>2. \A i \in 1 .. (n + 1) : m[i] \in Int /\ m[1] <= m[i]
  BY <1>1, MarksRise
<1>3. Expanded = FlattenSeq(s)
  BY <1>1 DEF Expanded
<1>4. IsSeq(s) /\ Len(s) = n /\ DOMAIN s = 1 .. n
  <2>1. s \in [1 .. n -> {Runs(i) : i \in 1 .. n}]
    OBVIOUS
  <2> HIDE DEF s
  <2> QED BY <2>1, FunctionIsSeq
<1>5. CASE n = 0
  <2>1. FlattenSeq(s) = s
    BY <1>4, <1>5 DEF FlattenSeq
  <2>2. s = Told(area.offset, offset)
    <3>1. area.offset \in Int /\ offset = area.offset
      BY <1>1, <1>2, <1>5
    <3> QED BY <1>5, <3>1 DEF Told
  <2> QED BY <1>3, <2>1, <2>2
<1>6. CASE n # 0
  <2>1. ASSUME NEW i \in 1 .. n
        PROVE  /\ m[i] \in Int /\ m[i + 1] \in Int /\ m[1] \in Int /\ m[1] <= m[i] /\ m[i] < m[i + 1]
               /\ \A u \in m[i] .. (m[i + 1] - 1) : status[u] = status[m[i]]
               /\ s[i] = [k \in 1 .. (m[i + 1] - m[i]) |-> status[m[i]]]
               /\ g[i] = Told(m[1], m[i + 1])
    BY <1>1, <1>2 DEF Follows
  <2>2. ASSUME NEW i \in 1 .. n
        PROVE  g[i] = IF i = 1 THEN s[i] ELSE g[i - 1] \o s[i]
    <3>0. /\ Told(m[1], m[i + 1]) = Told(m[1], m[i]) \o [k \in 1 .. (m[i + 1] - m[i]) |-> status[m[i]]]
          /\ Told(m[i], m[i + 1]) = [k \in 1 .. (m[i + 1] - m[i]) |-> status[m[i]]]
      <4>1. PICK a \in Int : a = m[1]
        BY <2>1
      <4>2. PICK b \in Int : b = m[i]
        BY <2>1
      <4>3. PICK c \in Int : c = m[i + 1]
        BY <2>1
      <4>4. a <= b /\ b < c /\ \A u \in b .. (c - 1) : status[u] = status[b]
        BY <2>1, <4>1, <4>2, <4>3
      <4>5. /\ Told(a, c) = Told(a, b) \o [k \in 1 .. (c - b) |-> status[b]]
            /\ Told(b, c) = [k \in 1 .. (c - b) |-> status[b]]
        BY <4>4, ToldMore
      <4> QED BY <4>1, <4>2, <4>3, <4>5
    <3>1. CASE i = 1
      BY <2>1, <3>0, <3>1
    <3>2. CASE i # 1
      <4>2. i - 1 \in 1 .. n /\ (i - 1) + 1 = i
        BY <3>2
      <4>3. g[i - 1] = Told(m[1], m[i])
        BY <4>2
      <4>4. g[i] = Told(m[1], m[i + 1]) /\ s[i] = [k \in 1 .. (m[i + 1] - m[i]) |-> status[m[i]]]
        BY <2>1
      <4> QED BY <3>0, <3>2, <4>3, <4>4
    <3> QED BY <3>1, <3>2
  <2>3. g = [i \in 1 .. n |-> g[i]]
    OBVIOUS
  <2> HIDE DEF s, g
  <2>4. g = Flattened(g, s)
    BY <1>4, <2>2, <2>3 DEF Flattened
  <2>5. FlattenSeq(s) = g[n]
    BY <1>4, <1>6, <2>4, FlattenIs
  <2>6. g[n] = Told(m[1], m[n + 1])
    <3>1. n \in 1 .. n
      BY <1>6
    <3> QED BY <2>1, <3>1
  <2> QED BY <1>1, <1>3, <2>5, <2>6
<1> QED BY <1>5, <1>6

Joins(j, m, n, b, k) ==
    /\ Follows(j, n + k) /\ j[1] = m[1] /\ j[(n + k) + 1] = b[k + 1]
    /\ Descriptors(j, n + k) = Descriptors(m, n) \o Descriptors(b, k)

\* Extents that follow each other.
LEMMA TilesJoin ==
  ASSUME NEW n \in Nat, NEW m, Follows(m, n), NEW k \in Nat, NEW b, Follows(b, k), m[n + 1] = b[1]
  PROVE  \E j : Joins(j, m, n, b, k)
<1> DEFINE j == [i \in 1 .. ((n + k) + 1) |-> IF i <= n + 1 THEN m[i] ELSE b[i - n]]
<1>1. /\ \A i \in 1 .. (n + 1) : m[i] \in Int
      /\ \A i \in 1 .. (k + 1) : b[i] \in Int
  BY DEF Follows
<1>2. /\ \A i \in 1 .. (n + 1) : j[i] = m[i]
      /\ \A i \in 1 .. (k + 1) : j[n + i] = b[i]
  <2>1. ASSUME NEW i \in 1 .. (n + 1) PROVE j[i] = m[i]
    OBVIOUS
  <2>2. ASSUME NEW i \in 1 .. (k + 1) PROVE j[n + i] = b[i]
    <3>1. n + i \in 1 .. ((n + k) + 1) /\ (n + i) - n = i
      OBVIOUS
    <3>2. CASE i = 1
      BY <3>1, <3>2
    <3>3. CASE i # 1
      BY <3>1, <3>3
    <3> QED BY <3>2, <3>3
  <2> QED BY <2>1, <2>2
<1>3. j \in [1 .. ((n + k) + 1) -> Int]
  <2>1. ASSUME NEW i \in 1 .. ((n + k) + 1) PROVE (IF i <= n + 1 THEN m[i] ELSE b[i - n]) \in Int
    <3>1. ~(i <= n + 1) => i - n \in 1 .. (k + 1)
      OBVIOUS
    <3> QED BY <1>1, <3>1
  <2> QED BY <2>1
<1> HIDE DEF j
<1>4. ASSUME NEW i \in 1 .. (n + k)
      PROVE  \/ i \in 1 .. n /\ j[i] = m[i] /\ j[i + 1] = m[i + 1]
             \/ \E h \in 1 .. k : i = n + h /\ j[i] = b[h] /\ j[i + 1] = b[h + 1]
  <2>1. CASE i <= n
    BY <1>2, <2>1
  <2>2. CASE ~(i <= n)
    <3>1. PICK h \in 1 .. k : i = n + h
      <4>1. i - n \in 1 .. k /\ i = n + (i - n)
        BY <2>2
      <4> QED BY <4>1
    <3>2. h \in 1 .. (k + 1) /\ h + 1 \in 1 .. (k + 1) /\ i + 1 = n + (h + 1)
      BY <3>1
    <3> QED BY <1>2, <3>1, <3>2
  <2> QED BY <2>1, <2>2
<1>5. Follows(j, n + k)
  <2>1. ASSUME NEW i \in 1 .. (n + k)
        PROVE  /\ j[i] < j[i + 1]
               /\ \A u \in j[i] .. (j[i + 1] - 1) : status[u] = status[j[i]]
    <3>1. CASE i \in 1 .. n /\ j[i] = m[i] /\ j[i + 1] = m[i + 1]
      BY <3>1 DEF Follows
    <3>2. ASSUME NEW h \in 1 .. k, j[i] = b[h], j[i + 1] = b[h + 1]
          PROVE  /\ j[i] < j[i + 1]
                 /\ \A u \in j[i] .. (j[i + 1] - 1) : status[u] = status[j[i]]
      BY <3>2 DEF Follows
    <3> QED BY <1>4, <3>1, <3>2
  <2> QED BY <1>3, <2>1 DEF Follows
<1>6. j[1] = m[1] /\ j[(n + k) + 1] = b[k + 1]
  <2>1. 1 \in 1 .. (n + 1) /\ k + 1 \in 1 .. (k + 1) /\ (n + k) + 1 = n + (k + 1)
    OBVIOUS
  <2> QED BY <1>2, <2>1
<1>7. Descriptors(j, n + k) = Descriptors(m, n) \o Descriptors(b, k)
  <2>1. PICK p : p = Descriptors(m, n)
    OBVIOUS
  <2>2. PICK q : q = Descriptors(b, k)
    OBVIOUS
  <2>3. PICK t : t = Descriptors(j, n + k)
    OBVIOUS
  <2> DEFINE E(x, i) == [length |-> x[i + 1] - x[i], flags |-> status[x[i]]]
             S == {E(m, i) : i \in 1 .. n} \cup {E(b, i) : i \in 1 .. k} \cup {E(j, i) : i \in 1 .. (n + k)}
  <2>4. /\ p \in [1 .. n -> S] /\ q \in [1 .. k -> S] /\ t \in [1 .. (n + k) -> S]
        /\ \A i \in 1 .. n : p[i] = E(m, i)
        /\ \A i \in 1 .. k : q[i] = E(b, i)
        /\ \A i \in 1 .. (n + k) : t[i] = E(j, i)
    BY <2>1, <2>2, <2>3 DEF Descriptors
  <2>5. \A i \in 1 .. (n + k) : \/ i \in 1 .. n /\ E(j, i) = E(m, i)
                                \/ \E h \in 1 .. k : i = n + h /\ E(j, i) = E(b, h)
    BY <1>4
  <2> HIDE DEF E, S
  <2>6. /\ p \in Seq(S) /\ IsSeq(p) /\ Len(p) = n /\ q \in Seq(S) /\ IsSeq(q) /\ Len(q) = k
        /\ t \in Seq(S) /\ Len(t) = n + k
    BY <2>4, FunctionIsSeq
  <2>7. PICK c : c = p \o q
    OBVIOUS
  <2>8. /\ c \in Seq(S) /\ Len(c) = n + k
        /\ \A i \in 1 .. n : c[i] = p[i]
        /\ \A i \in 1 .. k : c[n + i] = q[i]
    <3>1. c \in Seq(S)
      BY <2>6, <2>7
    <3>2. /\ Len(c) = Len(p) + Len(q)
          /\ \A i \in 1 .. Len(p) : c[i] = p[i]
          /\ \A i \in 1 .. Len(q) : c[Len(p) + i] = q[i]
      <4>1. IsSeq(p) /\ IsSeq(q)
        BY <2>6
      <4>2. /\ Len(p \o q) = Len(p) + Len(q)
            /\ \A i \in 1 .. Len(p) : (p \o q)[i] = p[i]
            /\ \A i \in 1 .. Len(q) : (p \o q)[Len(p) + i] = q[i]
        BY <4>1, Joined
      <4> QED BY <2>7, <4>2
    <3> QED BY <2>6, <3>1, <3>2
  <2>9. \A i \in 1 .. (n + k) : c[i] = t[i]
    BY <2>4, <2>5, <2>8
  <2>10. c = t
    BY <2>6, <2>8, <2>9, SeqEqual
  <2> QED BY <2>1, <2>2, <2>3, <2>7, <2>10
<1> QED BY <1>5, <1>6, <1>7 DEF Joins

Placed(f, ds) ==
    [i \in 1 .. (Len(ds) + 1) |-> IF i = 1 THEN offset ELSE f[i - 1] + ds[i - 1].length]

\* The program finds the marks the server has used.
LEMMA StartsAre ==
  ASSUME NEW n \in Nat, NEW m, Follows(m, n), m[1] = offset, NEW ds, ds = Descriptors(m, n)
  PROVE  /\ \A i \in 1 .. (n + 1) : Starts(ds)[i] = m[i]
         /\ Len(ds) = n /\ DOMAIN ds = 1 .. n
<1> DEFINE f == CHOOSE h : h = Placed(h, ds)
<1>1. Starts(ds) = f
  BY DEF Starts, Placed
<1>2. Len(ds) = n /\ DOMAIN ds = 1 .. n /\ \A i \in 1 .. n : ds[i].length = m[i + 1] - m[i]
  <2>1. ds \in [1 .. n -> {[length |-> m[i + 1] - m[i], flags |-> status[m[i]]] : i \in 1 .. n}]
    BY DEF Descriptors
  <2>2. Len(ds) = n /\ DOMAIN ds = 1 .. n
    BY <2>1, FunctionIsSeq
  <2> QED BY <2>2 DEF Descriptors
<1>3. m = Placed(m, ds)
  <2>1. /\ m = [i \in 1 .. (n + 1) |-> m[i]]
        /\ \A i \in 1 .. (n + 1) : m[i] \in Int
    BY DEF Follows
  <2>2. ASSUME NEW i \in 1 .. (n + 1)
        PROVE  m[i] = IF i = 1 THEN offset ELSE m[i - 1] + ds[i - 1].length
    <3>1. CASE i = 1
      BY <3>1
    <3>2. CASE i # 1
      <4>1. i - 1 \in 1 .. n /\ i - 1 \in 1 .. (n + 1) /\ (i - 1) + 1 = i
        BY <3>2
      <4>2. ds[i - 1].length = m[i] - m[i - 1]
        BY <1>2, <4>1
      <4> QED BY <2>1, <3>2, <4>1, <4>2
    <3> QED BY <3>1, <3>2
  <2> QED BY <1>2, <2>1, <2>2 DEF Placed
<1>4. f = Placed(f, ds)
  BY <1>3
<1> HIDE DEF f
<1> DEFINE S == {i \in Nat : i + 1 <= n + 1 => f[i + 1] = m[i + 1]}
<1>5. 0 \in S
  BY <1>2, <1>4 DEF Placed
<1>6. ASSUME NEW i \in Nat, i \in S PROVE i + 1 \in S
  <2> SUFFICES ASSUME (i + 1) + 1 <= n + 1 PROVE f[(i + 1) + 1] = m[(i + 1) + 1]
    OBVIOUS
  <2>1. f[i + 1] = m[i + 1]
    BY <1>6
  <2>2. PICK k : k = (i + 1) + 1
    OBVIOUS
  <2>3. k \in 1 .. (n + 1) /\ k # 1 /\ k - 1 = i + 1
    BY <2>2
  <2>4. /\ f[k] = f[k - 1] + ds[k - 1].length
        /\ m[k] = m[k - 1] + ds[k - 1].length
    BY <1>2, <1>3, <1>4, <2>3 DEF Placed
  <2> QED BY <2>1, <2>2, <2>3, <2>4
<1>7. \A i \in Nat : i \in S
  <2> HIDE DEF S
  <2> QED BY <1>5, <1>6, Induction
<1>8. ASSUME NEW i \in 1 .. (n + 1) PROVE f[i] = m[i]
  <2>1. i - 1 \in Nat /\ (i - 1) + 1 = i /\ i - 1 \in S
    BY <1>7
  <2> QED BY <2>1
<1> QED BY <1>1, <1>2, <1>8

\* What is left of them once the last one is cut follows the status, too, and
\* ends in the area.
LEMMA ClippedIs ==
  ASSUME NEW n \in Nat \ {0}, NEW m, Follows(m, n), m[1] = offset, m[n] < End, End \in Int
  PROVE  LET ds == Clipped(Descriptors(m, n))
         IN  \E b : /\ Follows(b, n) /\ b[1] = offset /\ b[n + 1] <= End
                    /\ ds = Descriptors(b, n) /\ EndOf(ds) = b[n + 1]
<1> DEFINE e == Min({m[n + 1] - m[n], End - m[n]})
           b == [m EXCEPT ![n + 1] = m[n] + e]
<1>1. m[n] \in Int /\ m[n + 1] \in Int /\ m[n] < m[n + 1] /\ n \in 1 .. n
  BY DEF Follows
<1>2. e \in Int /\ 0 < e /\ e <= m[n + 1] - m[n] /\ e <= End - m[n]
  <2>1. PICK x \in Int : x = m[n + 1] - m[n]
    BY <1>1
  <2>2. PICK y \in Int : y = End - m[n]
    BY <1>1
  <2>3. Min({x, y}) \in {x, y} /\ Min({x, y}) <= x /\ Min({x, y}) <= y
    BY Smaller
  <2>4. 0 < x /\ 0 < y
    BY <1>1, <2>1, <2>2
  <2> QED BY <2>1, <2>2, <2>3, <2>4
<1> HIDE DEF e
<1>3. /\ b \in [1 .. (n + 1) -> Int]
      /\ \A i \in 1 .. n : b[i] = m[i]
      /\ b[n + 1] = m[n] + e
  BY <1>1, <1>2 DEF Follows
<1> HIDE DEF b
<1>4. ASSUME NEW i \in 1 .. n
      PROVE  b[i] = m[i] /\ b[i + 1] = (IF i = n THEN m[n] + e ELSE m[i + 1])
  <2>1. CASE i = n
    BY <1>3, <2>1
  <2>2. CASE i # n
    <3>1. i + 1 \in 1 .. n
      BY <2>2
    <3> QED BY <1>3, <2>2, <3>1
  <2> QED BY <2>1, <2>2
<1>5. Follows(b, n)
  <2>1. ASSUME NEW i \in 1 .. n
        PROVE  /\ b[i] < b[i + 1]
               /\ \A u \in b[i] .. (b[i + 1] - 1) : status[u] = status[b[i]]
    <3>1. /\ m[i] \in Int /\ m[i + 1] \in Int /\ m[i] < m[i + 1]
          /\ \A u \in m[i] .. (m[i + 1] - 1) : status[u] = status[m[i]]
      BY DEF Follows
    <3>2. CASE i = n
      <4>1. b[i] = m[i] /\ b[i + 1] = m[i] + e /\ e <= m[i + 1] - m[i]
        BY <1>2, <1>4, <3>2
      <4> QED BY <1>2, <3>1, <4>1
    <3>3. CASE i # n
      BY <1>4, <3>1, <3>3
    <3> QED BY <3>2, <3>3
  <2> QED BY <1>3, <2>1 DEF Follows
<1>6. b[1] = offset /\ b[n + 1] <= End
  <2>1. 1 \in 1 .. n
    OBVIOUS
  <2> QED BY <1>1, <1>2, <1>3, <2>1
<1>7. Clipped(Descriptors(m, n)) = Descriptors(b, n)
  <2>1. PICK ds : ds = Descriptors(m, n)
    OBVIOUS
  <2>2. Len(ds) = n /\ DOMAIN ds = 1 .. n /\ Starts(ds)[n] = m[n]
    <3>1. n \in 1 .. (n + 1)
      OBVIOUS
    <3> QED BY <2>1, <3>1, StartsAre
  <2>3. ds = [i \in 1 .. n |-> [length |-> m[i + 1] - m[i], flags |-> status[m[i]]]]
    BY <2>1 DEF Descriptors
  <2>4. ds[n].length = m[n + 1] - m[n]
    BY <1>1, <2>3
  <2>5. Clipped(ds) = [ds EXCEPT ![n].length = e]
    BY <2>2, <2>4 DEF Clipped, e
  <2>6. Clipped(ds) = [i \in 1 .. n |-> IF i = n THEN [length |-> e, flags |-> status[m[n]]] ELSE ds[i]]
    BY <1>1, <2>3, <2>5
  <2>7. ASSUME NEW i \in 1 .. n
        PROVE  (IF i = n THEN [length |-> e, flags |-> status[m[n]]] ELSE ds[i])
                 = [length |-> b[i + 1] - b[i], flags |-> status[b[i]]]
    <3>1. CASE i = n
      <4>1. b[i] = m[n] /\ b[i + 1] - b[i] = e
        BY <1>1, <1>2, <1>4, <3>1
      <4> QED BY <3>1, <4>1
    <3>2. CASE i # n
      BY <1>4, <2>3, <3>2
    <3> QED BY <3>1, <3>2
  <2>8. Clipped(ds) = [i \in 1 .. n |-> [length |-> b[i + 1] - b[i], flags |-> status[b[i]]]]
    BY <2>6, <2>7
  <2> QED BY <2>1, <2>8 DEF Descriptors
<1>8. EndOf(Descriptors(b, n)) = b[n + 1]
  <2>1. n + 1 \in 1 .. (n + 1)
    OBVIOUS
  <2> QED BY <1>5, <1>6, <2>1, StartsAre DEF EndOf
<1> QED BY <1>5, <1>6, <1>7, <1>8

Piece == Min({MAX_REQUEST_LEN, End - offset})

\* While the program waits for the status of a piece there is one request for
\* it, or one answer that says what the server knows of it.
Asking ==
    /\ call \in {"status", "none"}
    /\ call = "none" /\ IsStatusReply => replies[1].data \in Statuses(offset, Piece)
    /\ call = "status" =>
        /\ replies = <<>>
        /\ sent # <<>> => /\ sent[1].cmd = "status"
                          /\ sent[1].offset = offset /\ sent[1].length = Piece
        /\ stream # <<>> =>
            /\ stream[1].done = TRUE
            /\ stream[1].says = "status" =>
                /\ stream[1].n = 1 /\ stream[2].data \in Statuses(offset, Piece)

Covered ==
    /\ area.offset \in Int /\ area.length \in Int
    /\ caller = "extents" =>
        /\ \E n \in Nat : \E m : Tiles(m, n)
        /\ offset = area.offset \/ offset <= End
        /\ at = "done" => offset = End
        /\ at = "queried" /\ user = "using" => Asking

\* The position is a number.
LEMMA TilesOffset ==
  ASSUME NEW n \in Nat, NEW m, Tiles(m, n)
  PROVE  offset \in Int
<1>1. n + 1 \in 1 .. (n + 1)
  OBVIOUS
<1> QED BY <1>1 DEF Tiles, Follows

\* A list of descriptors is as the marks of the server say.
LEMMA StatusMarks ==
  ASSUME NEW o \in Int, NEW l \in Int, NEW ds \in Statuses(o, l)
  PROVE  \E n \in Nat \ {0} : \E m : /\ Follows(m, n) /\ m[1] = o /\ m[n] < o + l
                                     /\ ds = Descriptors(m, n)
<1>1. PICK n \in 1 .. l : \E m \in Marks(o, l, n) : ds = Descriptors(m, n)
  BY DEF Statuses
<1>2. PICK m \in Marks(o, l, n) : ds = Descriptors(m, n)
  BY <1>1
<1>3. n \in Nat \ {0}
  OBVIOUS
<1>4. m \in [1 .. (n + 1) -> o .. ExportSize] /\ m[1] = o /\ m[n] < o + l
      /\ \A i \in 1 .. n : /\ m[i] < m[i + 1]
                           /\ \A u \in m[i] .. (m[i + 1] - 1) : status[u] = status[m[i]]
  BY <1>2 DEF Marks
<1>5. m \in [1 .. (n + 1) -> Int]
  BY <1>4, ClientAssumption
<1>6. Follows(m, n)
  BY <1>4, <1>5 DEF Follows
<1> QED BY <1>2, <1>3, <1>4, <1>6

\* What is not about the program leaves what it has yielded as it is.
LEMMA TilesStay ==
  ASSUME UNCHANGED <<area, offset, extents, status>>, NEW n, NEW m, Tiles(m, n)
  PROVE  Tiles(m, n)'
BY DEF Tiles, Follows, Descriptors

\* The answer to a request for the status of an area.
LEMMA StatusAnswered ==
  ASSUME NEW statuses, ServeRequest(statuses), Req.cmd = "status", stream = <<>>
  PROVE  \/ stream' = stream
         \/ /\ stream'[1].done = TRUE
            /\ stream'[1].says = "status" => stream'[1].n = 1 /\ stream'[2].data \in statuses
<1>1. ASSUME NEW r \in ErrorReplies, Answer(r)
      PROVE  stream'[1].done = TRUE /\ stream'[1].says # "status"
  <2>1. PICK x : x = Chunk("error", 1, TRUE)
    OBVIOUS
  <2>2. PICK y : y = Bytes(Req.id)
    OBVIOUS
  <2>3. PICK z : z = Item("simple", Req.id, "error", 0, TRUE, <<>>)
    OBVIOUS
  <2>4. x.done = TRUE /\ x.says = "error" /\ z.done = TRUE /\ z.says = "error"
    BY <2>1, <2>3 DEF Chunk, Item
  <2>5. r = <<x, y>> \/ r = <<z>>
    BY <2>1, <2>2, <2>3 DEF ErrorReplies, ErrorChunk, SimpleReply
  <2>6. IsSeq(r) /\ (r[1] = x \/ r[1] = z)
    <3>1. CASE r = <<x, y>>
      BY <3>1, Tuples
    <3>2. CASE r = <<z>>
      BY <3>2, Tuples
    <3> QED BY <2>5, <3>1, <3>2
  <2>7. IsSeq(stream)
    BY Tuples
  <2>8. stream \o r = r
    BY <2>6, <2>7, Joined
  <2>9. stream' = r
    BY <1>1, <2>8 DEF Answer
  <2> QED BY <2>4, <2>6, <2>9
<1>2. ASSUME NEW ds \in statuses,
             Answer(<<Chunk("status", 1, TRUE), Item("bytes", Req.id, "data", 0, FALSE, ds)>>)
      PROVE  stream'[1].done = TRUE /\ stream'[1].n = 1 /\ stream'[2].data \in statuses
  <2>1. PICK x : x = Chunk("status", 1, TRUE)
    OBVIOUS
  <2>2. PICK y : y = Item("bytes", Req.id, "data", 0, FALSE, ds)
    OBVIOUS
  <2>3. x.done = TRUE /\ x.n = 1 /\ y.data = ds
    BY <2>1, <2>2 DEF Chunk, Item
  <2>4. PICK r : r = <<x, y>>
    OBVIOUS
  <2>5. IsSeq(r) /\ r[1] = x /\ r[2] = y /\ IsSeq(stream)
    BY <2>4, Tuples
  <2>6. stream \o r = r
    BY <2>5, Joined
  <2>7. stream' = r
    BY <1>2, <2>1, <2>2, <2>4, <2>6 DEF Answer
  <2> QED BY <2>3, <2>5, <2>7
<1> QED BY <1>1, <1>2 DEF ServeRequest

\* What the server may answer does not change.
LEMMA StatusesStay ==
  ASSUME UNCHANGED <<area, offset, status>>
  PROVE  Statuses(offset, Piece)' = Statuses(offset, Piece)
BY DEF Statuses, Marks, Descriptors, Piece, End

\* The request for a piece.
LEMMA AskingSent ==
  ASSUME InStep, Query
  PROVE  Asking'
<1>1. /\ call = "none" /\ user = "using" /\ call' = "status" /\ replies' = <<>>
      /\ sent' = Append(sent, Request("status", handle + 1, offset, Piece)) /\ stream' = stream
      /\ UNCHANGED <<area, offset, status>>
  BY DEF Query, ReadyAt, CallRequest, SendRequest, Goto, KeepResult, Piece
<1>2. sent'[1] = Request("status", handle + 1, offset, Piece) /\ stream' = <<>>
  BY <1>1, SendsFirst
<1>3. Piece' = Piece /\ offset' = offset
  BY <1>1 DEF Piece, End
<1> QED BY <1>1, <1>2, <1>3 DEF Asking, Request

\* Its answer.
LEMMA AskingServed ==
  ASSUME InStep, Asking, user = "using", Serve
  PROVE  Asking'
<1>1. sent # <<>> /\ sent' = Tail(sent) /\ UNCHANGED <<call, user, replies, area, offset, status>>
  BY DEF Serve, ServeOption, ServeRequest, clientVars, programVars
<1>2. IsSeq(sent) /\ Len(sent) = 1 /\ stream = <<>> /\ call = "status"
  BY <1>1 DEF InStep, Asking
<1>3. Req = sent[1] /\ sent' = <<>>
  BY <1>1, <1>2, Serving
<1>4. Req.cmd = "status" /\ Req.offset = offset /\ Req.length = Piece
  BY <1>1, <1>2, <1>3 DEF Asking
<1>5. ServeRequest(Statuses(offset, Piece))
  BY <1>4 DEF Serve, ServeOption
<1>6. PICK S : S = Statuses(offset, Piece)
  OBVIOUS
<1>7. \/ stream' = stream
      \/ /\ stream'[1].done = TRUE
         /\ stream'[1].says = "status" => stream'[1].n = 1 /\ stream'[2].data \in S
  BY <1>2, <1>4, <1>5, <1>6, StatusAnswered
<1>8. Statuses(offset, Piece)' = S
  BY <1>1, <1>6, StatusesStay
<1> QED BY <1>1, <1>2, <1>3, <1>7, <1>8 DEF Asking

\* And the reading of the answer.
LEMMA AskingRead ==
  ASSUME InStep, Asking, Read, user' = "using", UNCHANGED programVars
  PROVE  Asking'
<1>1. call = "status" /\ replies = <<>>
  BY OptionNames DEF Asking, Read, ReadGreeting, ReadOptionReply, ReadExport, ReadSimpleReply, ReadChunk,
     ReadFails, Simple, Chunked
<1>2. ReadChunk
  BY <1>1, OptionNames DEF Read, ReadGreeting, ReadOptionReply, ReadExport, ReadSimpleReply, ReadFails, Raise, Simple
<1>3. 1 \in DOMAIN stream /\ Head1 = stream[1] /\ stream # <<>>
  <2>1. Arrived /\ call # "none"
    BY <1>1, <1>2 DEF ReadChunk
  <2> QED BY <2>1, Arriving DEF Arrived
<1>4. PICK x : x = [says |-> Head1.says, data |-> IF Payload = 1 THEN stream[2].data ELSE <<>>]
  OBVIOUS
<1>5. IsMyChunk(Head1) /\ replies' = Append(replies, x) /\ (Head1.done => Return)
  BY <1>2, <1>4 DEF ReadChunk, Raise
<1>6. IsSeq(replies) /\ Len(replies) = 0
  BY <1>1, Tuples, SeqFacts
<1>7. replies'[1] = x
  <2>1. PICK t : t = Append(replies, x)
    OBVIOUS
  <2>2. t[Len(replies) + 1] = x
    BY <1>6, <2>1, Appended
  <2> QED BY <1>5, <1>6, <2>1, <2>2
<1>8. call' = "none" /\ user = "using"
  <2>1. Head1.done = TRUE
    BY <1>1, <1>3 DEF Asking
  <2> QED BY <1>5, <2>1 DEF Return
<1>9. Head1.says = "status" => Payload = 1 /\ stream[2].data \in Statuses(offset, Piece)
  <2>1. Payload = Head1.n
    BY <1>1, <1>5, OptionNames DEF Payload, Simple, Chunked
  <2> QED BY <1>1, <1>3, <2>1 DEF Asking
<1>10. Statuses(offset, Piece)' = Statuses(offset, Piece)
  BY StatusesStay DEF programVars
<1>11. x.says = "status" => x.data \in Statuses(offset, Piece)
  BY <1>4, <1>9
<1> QED BY <1>7, <1>8, <1>10, <1>11 DEF Asking, IsStatusReply

\* The area, the caller and the server's status are given.
LEMMA Given ==
  ASSUME [Next]_allVars
  PROVE  UNCHANGED <<caller, area, status>>
<1>1. CASE UNCHANGED allVars
  BY <1>1 DEF allVars, programVars
<1>2. CASE Program
  BY <1>2 DEF Program, Negotiate, SelectContext, ConnectToExport, Query, Collect, Fail, Finish, Goto
<1>3. CASE OtherUser \/ ExitBlock \/ Receive \/ Serve
  BY <1>3 DEF OtherUser, ExitBlock, Receive, Serve, programVars
<1> QED BY <1>1, <1>2, <1>3 DEF Next

\* The piece asked about is inside the area.
LEMMA PieceFits ==
  ASSUME offset \in Int, End \in Int
  PROVE  Piece \in Int /\ offset + Piece <= End
<1>1. PICK d \in Int : d = End - offset
  OBVIOUS
<1>2. MAX_REQUEST_LEN \in Int
  BY ExtentsAssumption
<1>3. Min({MAX_REQUEST_LEN, d}) \in {MAX_REQUEST_LEN, d} /\ Min({MAX_REQUEST_LEN, d}) <= d
  BY <1>2, Smaller
<1>4. Piece \in Int /\ Piece <= d
  BY <1>1, <1>2, <1>3 DEF Piece
<1> QED BY <1>1, <1>4

\* What the server says is put after what was yielded, and cut at the end of
\* the area.
LEMMA CollectTiles ==
  ASSUME Covered, Collect, caller = "extents"
  PROVE  /\ \E n \in Nat : \E m : Tiles(m, n)'
         /\ offset' <= End'
<1>1. /\ area' = area /\ status' = status /\ call = "none" /\ user = "using" /\ at = "queried"
      /\ IsStatusReply
      /\ extents' = extents \o Clipped(replies[1].data)
      /\ offset' = EndOf(Clipped(replies[1].data))
  BY DEF Collect, ReadyAt, Goto
<1>2. replies[1].data \in Statuses(offset, Piece)
  BY <1>1 DEF Covered, Asking
<1>3. PICK n \in Nat : \E m : Tiles(m, n)
  BY DEF Covered
<1>4. PICK m : Tiles(m, n)
  BY <1>3
<1>5. offset \in Int /\ End \in Int
  BY <1>4, TilesOffset DEF Covered, End
<1>6. Piece \in Int /\ offset + Piece <= End
  BY <1>5, PieceFits
<1>7. PICK k \in Nat \ {0} : \E c : /\ Follows(c, k) /\ c[1] = offset /\ c[k] < offset + Piece
                                   /\ replies[1].data = Descriptors(c, k)
  BY <1>2, <1>5, <1>6, StatusMarks
<1>8. PICK c : /\ Follows(c, k) /\ c[1] = offset /\ c[k] < offset + Piece
               /\ replies[1].data = Descriptors(c, k)
  BY <1>7
<1>9. c[k] < End
  <2>1. k \in 1 .. (k + 1)
    OBVIOUS
  <2>2. c[k] \in Int
    BY <1>8, <2>1 DEF Follows
  <2> QED BY <1>5, <1>6, <1>8, <2>2
<1>10. PICK b : /\ Follows(b, k) /\ b[1] = offset /\ b[k + 1] <= End
                /\ Clipped(Descriptors(c, k)) = Descriptors(b, k)
                /\ EndOf(Clipped(Descriptors(c, k))) = b[k + 1]
  BY <1>5, <1>8, <1>9, ClippedIs
<1>11. Follows(m, n) /\ m[1] = area.offset /\ m[n + 1] = b[1] /\ extents = Descriptors(m, n)
  BY <1>4, <1>10 DEF Tiles
<1>12. PICK j : Joins(j, m, n, b, k)
  <2>1. n \in Nat /\ k \in Nat
    OBVIOUS
  <2>2. Follows(m, n) /\ Follows(b, k) /\ m[n + 1] = b[1]
    BY <1>10, <1>11
  <2> QED BY <2>1, <2>2, TilesJoin
<1>13. /\ extents' = Descriptors(j, n + k) /\ offset' = j[(n + k) + 1] /\ j[1] = area'.offset
       /\ offset' <= End
  BY <1>1, <1>8, <1>10, <1>11, <1>12 DEF Joins
<1>14. Follows(j, n + k)' /\ Descriptors(j, n + k)' = Descriptors(j, n + k) /\ End' = End
  BY <1>1, <1>12 DEF Joins, Follows, Descriptors, End
<1>15. Tiles(j, n + k)' /\ n + k \in Nat
  BY <1>13, <1>14 DEF Tiles
<1> QED BY <1>13, <1>14, <1>15

\* The other steps leave what was yielded, and where the program is, or take it
\* one label further.
LEMMA OtherSteps ==
  ASSUME Covered, InStep, [Next]_allVars, ~Collect, caller = "extents"
  PROVE  /\ UNCHANGED <<offset, extents>>
         /\ at' = "done" => at = "done" \/ Finish
         /\ at' = "queried" /\ user' = "using" => Asking'
<1>1. CASE UNCHANGED allVars
  <2>1. UNCHANGED <<offset, extents, at, user, call, replies, sent, stream, status, area>>
    BY <1>1 DEF allVars, programVars, vars, clientVars
  <2>2. Statuses(offset, Piece)' = Statuses(offset, Piece) /\ Piece' = Piece
    BY <2>1, StatusesStay DEF Piece, End
  <2>3. Asking => Asking'
    BY <2>1, <2>2 DEF Asking, IsStatusReply
  <2> QED BY <2>1, <2>3 DEF Covered
<1>2. CASE Program
  <2>1. CASE Negotiate \/ SelectContext \/ ConnectToExport \/ Fail \/ Finish
    BY <2>1 DEF Negotiate, SelectContext, ConnectToExport, Fail, Finish, Goto, KeepResult
  <2>2. CASE Query
    BY <2>2, AskingSent DEF Query, Goto, KeepResult
  <2> QED BY <1>2, <2>1, <2>2 DEF Program
<1>3. CASE OtherUser
  BY <1>3 DEF OtherUser
<1>4. CASE ExitBlock
  <2>1. user = "left" /\ Close /\ UNCHANGED <<offset, extents, at>>
    BY <1>4 DEF ExitBlock, programVars
  <2>2. user' # "using"
    BY <2>1 DEF Close, Disconnect
  <2> QED BY <2>1, <2>2
<1>5. CASE Receive
  <2>1. Read /\ UNCHANGED programVars
    BY <1>5 DEF Receive
  <2>2. user' = "using" => user = "using"
    BY <2>1 DEF Read, ReadGreeting, ReadOptionReply, ReadExport, ReadSimpleReply, ReadChunk, ReadFails,
       Raise, RaiseErrno, Return, Disconnect
  <2>3. UNCHANGED <<offset, extents, at>>
    BY <2>1 DEF programVars
  <2> QED BY <2>1, <2>2, <2>3, AskingRead DEF Covered
<1>6. CASE Serve
  <2>1. UNCHANGED <<offset, extents, at, user>>
    BY <1>6 DEF Serve, ServeOption, ServeRequest, clientVars, programVars
  <2> QED BY <1>6, <2>1, AskingServed DEF Covered
<1> QED BY <1>1, <1>2, <1>3, <1>4, <1>5, <1>6 DEF Next

\* The invariant is inductive.
LEMMA CoveredKept ==
  ASSUME Covered, InStep, [Next]_allVars
  PROVE  Covered'
<1>1. UNCHANGED <<caller, area, status>> /\ area.offset \in Int /\ area.length \in Int
  BY Given DEF Covered
<1>2. CASE caller # "extents"
  BY <1>1, <1>2 DEF Covered
<1>3. CASE caller = "extents" /\ Collect
  <2>1. at' = "connected"
    BY <1>3 DEF Collect, Goto
  <2> QED BY <1>1, <1>3, <2>1, CollectTiles DEF Covered
<1>4. CASE caller = "extents" /\ ~Collect
  <2>1. /\ UNCHANGED <<offset, extents>> /\ End' = End
        /\ at' = "done" => at = "done" \/ Finish
        /\ at' = "queried" /\ user' = "using" => Asking'
    BY <1>1, <1>4, OtherSteps DEF End
  <2>2. PICK n \in Nat : \E m : Tiles(m, n)
    BY <1>4 DEF Covered
  <2>3. PICK m : Tiles(m, n)
    BY <2>2
  <2>4. Tiles(m, n)'
    BY <1>1, <2>1, <2>3, TilesStay
  <2>5. offset \in Int /\ End \in Int
    BY <1>1, <2>3, TilesOffset DEF End
  <2>6. Finish => offset = End
    BY <1>1, <1>4, <2>5 DEF Finish, InBounds, Covered, End
  <2> QED BY <1>1, <1>4, <2>1, <2>4, <2>6 DEF Covered
<1> QED BY <1>2, <1>3, <1>4

\* It holds initially.
LEMMA CoveredInit ==
  ASSUME ProgramInit
  PROVE  Covered
<1>1. area \in Areas /\ at = "start" /\ offset = area.offset /\ extents = <<>>
  BY DEF ProgramInit
<1>2. area.offset \in Int /\ area.length \in Int
  BY <1>1, ExtentsAssumption
<1>3. PICK m : m = [i \in 1 .. 1 |-> area.offset]
  OBVIOUS
<1>4. m \in [1 .. (0 + 1) -> Int] /\ m[1] = area.offset /\ m[0 + 1] = area.offset
  BY <1>2, <1>3
<1>5. Descriptors(m, 0) = <<>>
  <2>1. Descriptors(m, 0) \in [1 .. 0 -> {}]
    BY DEF Descriptors
  <2>2. IsSeq(Descriptors(m, 0)) /\ Len(Descriptors(m, 0)) = 0
    BY <2>1, FunctionIsSeq
  <2> QED BY <2>2, SeqFacts
<1>6. Tiles(m, 0)
  BY <1>1, <1>4, <1>5 DEF Tiles, Follows
<1> QED BY <1>1, <1>2, <1>6 DEF Covered

(* What get_nbd_extents.py yields is the server's status of the area, unit *)
(* by unit and run by run, as far as it has come, and to the end of the    *)
(* area when it returns: however the server splits, cuts or exceeds what   *)
(* it was asked for.                                                       *)
THEOREM ExtentsDoCover == Spec => []ExtentsCover
<1>1. ProgramInit => InStep /\ ServerOK /\ Covered
  BY InStepInit, CoveredInit DEF ProgramInit
<1>2. InStep /\ ServerOK /\ Covered /\ [Next]_allVars => (InStep /\ ServerOK /\ Covered)'
  BY NextIsClientStep, StepKept, CoveredKept
<1>3. Covered => ExtentsCover
  <2> SUFFICES ASSUME Covered, caller = "extents" PROVE ExtentsCover
    BY DEF ExtentsCover
  <2>1. PICK n \in Nat : \E m : Tiles(m, n)
    BY DEF Covered
  <2>2. PICK m : Tiles(m, n)
    BY <2>1
  <2>3. Expanded = Told(area.offset, offset)
    BY <2>2, TilesCover
  <2> QED BY <2>3 DEF ExtentsCover, Covered, Told
<1> QED BY <1>1, <1>2, <1>3, PTL DEF Spec
=============================================================================
