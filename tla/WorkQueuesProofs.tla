--------------------------- MODULE WorkQueuesProofs ---------------------------
(***************************************************************************)
(* The work queues, for any redirectors, workers, items, tags and aliases. *)
(***************************************************************************)
EXTENDS WorkQueues, WellFoundedInduction, FiniteSetTheorems, TLAPS

\* The least of a set of numbers.
LEMMA LeastIn ==
  ASSUME NEW S \in SUBSET Nat, S # {}
  PROVE  Least(S) \in S /\ \A u \in S : Least(S) <= u
<1>1. PICK x \in S : \A y \in S : ~(<<y, x>> \in OpToRel(<, Nat))
  BY WFMin, NatLessThanWellFounded
<1>2. \A y \in S : ~(y < x)
  BY <1>1 DEF OpToRel
<1>3. x \in S /\ \A u \in S : x <= u
  BY <1>2
<1> QED BY <1>3 DEF Least

-----------------------------------------------------------------------------
(* Turns: how far the last tag served is behind a tag, round and round *)

Distance(l, t) == IF l < t THEN t - l - 1 ELSE NTags - l + t - 1

\* Each time a tag is passed over, the last tag served is closer to it.
TurnsInv ==
    /\ last \in [Redirector -> 0 .. NTags]
    /\ skips \in [Redirector -> [Tag -> Nat]]
    /\ \A r \in Redirector, t \in Tag : skips[r][t] + Distance(last[r], t) <= NTags - 1

\* The tag that is served is not behind one that waits.
LEMMA NextTagTurn ==
  ASSUME NEW r, NEW l \in 0 .. NTags, last[r] = l, Waiting(r) # {}
  PROVE  /\ NextTag(r) \in Waiting(r) /\ NextTag(r) \in Tag
         /\ \A u \in Waiting(r) \ {NextTag(r)} : Distance(NextTag(r), u) < Distance(l, u)
<1> DEFINE after == {t \in Waiting(r) : t > last[r]}
           S == IF after = {} THEN Waiting(r) ELSE after
           n == NextTag(r)
<1>1. NTags \in Nat /\ Waiting(r) \subseteq Tag /\ Tag \subseteq Nat
  BY WorkAssumption DEF Waiting, Tag
<1>2. S \subseteq Waiting(r) /\ S \in SUBSET Nat /\ S # {} /\ n = Least(S)
  BY <1>1 DEF NextTag
<1>3. n \in S /\ \A u \in S : n <= u
  BY <1>2, LeastIn
<1>4. n \in Waiting(r) /\ n \in Tag /\ n \in 1 .. NTags
  BY <1>1, <1>2, <1>3 DEF Tag
<1>5. ASSUME NEW u \in Waiting(r), u # n PROVE Distance(n, u) < Distance(l, u)
  <2>1. u \in 1 .. NTags
    BY <1>1 DEF Tag
  <2>2. CASE after = {}
    <3>1. n <= u /\ u <= l /\ n <= l
      BY <1>1, <1>3, <1>4, <1>5, <2>1, <2>2
    <3> HIDE DEF n
    <3> QED BY <1>1, <1>4, <1>5, <2>1, <3>1 DEF Distance
  <2>3. CASE after # {}
    <3>1. n > l /\ (u > l => n <= u)
      BY <1>3, <1>5, <2>3
    <3> HIDE DEF n
    <3> QED BY <1>1, <1>4, <1>5, <2>1, <3>1 DEF Distance
  <2> QED BY <2>2, <2>3
<1> QED BY <1>4, <1>5

\* A pop takes the next tag in turn.
LEMMA PopTurns ==
  ASSUME TurnsInv, NEW w \in Worker, Pop(w)
  PROVE  TurnsInv'
<1> DEFINE r == home[w]
           n == NextTag(r)
           new == [u \in Tag |-> IF u # n /\ qs[r][u] # <<>> THEN skips[r][u] + 1 ELSE 0]
<1>1. last' = [last EXCEPT ![r] = n] /\ skips' = [skips EXCEPT ![r] = new]
  BY DEF Pop
<1>2. Waiting(r) # {}
  BY DEF Pop
<1>3. CASE r \notin Redirector
  BY <1>1, <1>3 DEF TurnsInv
<1>4. CASE r \in Redirector
  <2>1. last[r] \in 0 .. NTags /\ NTags \in Nat /\ skips[r] \in [Tag -> Nat]
    BY <1>4, WorkAssumption DEF TurnsInv
  <2>2. /\ n \in Waiting(r) /\ n \in Tag
        /\ \A u \in Waiting(r) \ {n} : Distance(n, u) < Distance(last[r], u)
    BY <1>2, <2>1, NextTagTurn
  <2> HIDE DEF n
  <2>3. n \in 0 .. NTags
    BY <2>1, <2>2 DEF Tag
  <2>4. new \in [Tag -> Nat]
    BY <2>1
  <2>5. ASSUME NEW u \in Tag PROVE new[u] + Distance(n, u) <= NTags - 1
    <3>1. u \in 1 .. NTags
      BY DEF Tag
    <3>2. Distance(n, u) \in Int /\ Distance(n, u) <= NTags - 1 /\ Distance(last[r], u) \in Int
      BY <2>1, <2>3, <3>1 DEF Distance
    <3>3. CASE u # n /\ qs[r][u] # <<>>
      <4>1. Distance(n, u) < Distance(last[r], u)
        BY <2>2, <3>3 DEF Waiting
      <4>2. skips[r][u] \in Nat /\ skips[r][u] + Distance(last[r], u) <= NTags - 1
        BY <1>4, <2>1 DEF TurnsInv
      <4>3. new[u] = skips[r][u] + 1
        BY <3>3
      <4> HIDE DEF new
      <4> QED BY <2>1, <3>2, <4>1, <4>2, <4>3
    <3>4. CASE ~(u # n /\ qs[r][u] # <<>>)
      <4>1. new[u] = 0
        BY <3>4
      <4> QED BY <3>2, <4>1
    <3> QED BY <3>3, <3>4
  <2> HIDE DEF new
  <2> QED BY <1>1, <1>4, <2>3, <2>4, <2>5 DEF TurnsInv
<1> QED BY <1>3, <1>4

\* Tags get their turns: a tag that waits is passed over by each other tag of
\* its redirector at most once, however many items the others have.
THEOREM TurnsTaken == Spec => []RoundRobin
<1>1. Init => TurnsInv
  <2> SUFFICES ASSUME Init PROVE TurnsInv
    OBVIOUS
  <2>1. NTags \in Nat
    BY WorkAssumption
  <2>2. \A t \in Tag : 0 + Distance(0, t) <= NTags - 1
    BY <2>1 DEF Tag, Distance
  <2> QED BY <2>1, <2>2 DEF Init, TurnsInv
<1>2. TurnsInv /\ [Next]_vars => TurnsInv'
  <2> SUFFICES ASSUME TurnsInv, [Next]_vars PROVE TurnsInv'
    OBVIOUS
  <2>1. CASE \E w \in Worker : Pop(w)
    BY <2>1, PopTurns
  <2>2. CASE UNCHANGED <<last, skips>>
    BY <2>2 DEF TurnsInv
  <2>3. ASSUME ~\E w \in Worker : Pop(w) PROVE UNCHANGED <<last, skips>>
    <3>1. CASE \E x \in Work : Submit(x)
      BY <3>1 DEF Submit, Push
    <3>2. CASE \E w \in Worker : WorkerStep(w) \/ \E x \in Work : Expire(w, x)
      BY <2>3, <3>2 DEF WorkerStep, Test, Redirect, Finished, Finally, SetAlias, EndChunk, Executed,
         PushAtom, Push, Expire, queueVars, history
    <3>3. CASE \E s \in Setter : SetterStep(s)
      BY <3>3 DEF SetterStep, Count, Adjust, Adjusted, queueVars, history
    <3>4. CASE UNCHANGED vars
      BY <3>4 DEF vars, queueVars, history
    <3> QED BY <3>1, <3>2, <3>3, <3>4 DEF Next
  <2> QED BY <2>1, <2>2, <2>3
<1>3. TurnsInv => RoundRobin
  <2> SUFFICES ASSUME TurnsInv, NEW r \in Redirector, NEW t \in Tag PROVE skips[r][t] < NTags
    BY DEF RoundRobin
  <2>1. t \in 1 .. NTags /\ NTags \in Nat /\ last[r] \in 0 .. NTags /\ skips[r][t] \in Nat
    BY WorkAssumption DEF Tag, TurnsInv
  <2>2. Distance(last[r], t) \in Nat
    BY <2>1 DEF Distance
  <2>3. skips[r][t] + Distance(last[r], t) <= NTags - 1
    BY DEF TurnsInv
  <2> QED BY <2>1, <2>2, <2>3
<1> QED BY <1>1, <1>2, <1>3, PTL DEF Spec

-----------------------------------------------------------------------------
(* Where the items are *)

\* Items with one tag are pushed to one redirector.
TagsApart == \A x, y \in Work : TagOf[x] = TagOf[y] => Home[x] = Home[y]

Used      == {TagOf[x] : x \in Work}
HomeOf(t) == Home[CHOOSE x \in Work : TagOf[x] = t]

\* A worker has a tag while it redirects it and executes; the tag's queue is
\* the worker's private queue in the second case.
Busy(w)    == pc[w] \in {"redirect", "execute", "finish"}
Holding(w) == pc[w] \in {"execute", "finish"}
QueueOf(t) == IF overrides[t] = None THEN qs[HomeOf(t)][t] ELSE private[overrides[t]]

PCs      == {"none", "test", "pop", "redirect", "execute", "finish", "finally", "ended"}
Statuses == {"new", "dropped", "queued", "taken", "running", "ran", "done"}

TypeOK ==
    /\ qs \in [Redirector -> [Tag -> Seq(Work)]]
    /\ private \in [Worker -> Seq(Work)]
    /\ overrides \in [Tag -> Worker \cup {None}]
    /\ aliases \in [Tag -> Tag \cup {None}]
    /\ last \in [Redirector -> 0 .. NTags]
    /\ pc \in [Worker -> PCs]
    /\ home \in [Worker -> Redirector \cup {None}]
    /\ tag \in [Worker -> 0 .. NTags]
    /\ job \in [Worker -> Work \cup {None}]
    /\ status \in [Work -> Statuses]

\* A tag is one worker's at a time, and a worker of its redirector.
TagsOK ==
    /\ \A w \in Worker : pc[w] # "none" => home[w] \in Redirector
    /\ \A w \in Worker : Busy(w) => tag[w] \in Used /\ home[w] = HomeOf(tag[w])
    /\ \A v, w \in Worker : Busy(v) /\ Busy(w) /\ tag[v] = tag[w] => v = w
    /\ \A t \in Tag, w \in Worker : overrides[t] = w <=> Holding(w) /\ tag[w] = t

\* An alias stands for a tag that is being worked on.
AliasesOK == \A t \in Tag : aliases[t] # None => aliases[t] \in Used /\ overrides[aliases[t]] # None

\* All queues other than the tags' current ones are empty.
OthersEmpty ==
    /\ \A r \in Redirector, t \in Tag :
          qs[r][t] # <<>> => t \in Used /\ r = HomeOf(t) /\ overrides[t] = None
    /\ \A w \in Worker : private[w] # <<>> => Holding(w)

ItemsOK ==
    /\ \A t \in Used : \A i \in DOMAIN QueueOf(t) : status[QueueOf(t)[i]] = "queued"
    /\ \A t, u \in Used : \A i \in DOMAIN QueueOf(t), j \in DOMAIN QueueOf(u) :
          QueueOf(t)[i] = QueueOf(u)[j] => t = u /\ i = j
    /\ \A x \in Work : status[x] = "queued" =>
          \E t \in Used : \E i \in DOMAIN QueueOf(t) : QueueOf(t)[i] = x

JobsOK ==
    /\ \A w \in Worker : job[w] # None <=> Busy(w) \/ pc[w] = "finally"
    /\ \A w \in Worker : /\ pc[w] = "redirect" => status[job[w]] = "taken"
                         /\ pc[w] = "execute" => status[job[w]] = "running"
                         /\ pc[w] \in {"finish", "finally"} => status[job[w]] = "ran"
    /\ \A v, w \in Worker : job[v] # None /\ job[v] = job[w] => v = w
    /\ \A x \in Work : status[x] \in {"taken", "running", "ran"} => \E w \in Worker : job[w] = x

QueuesInv == TypeOK /\ TagsOK /\ AliasesOK /\ OthersEmpty
PlacesInv == QueuesInv /\ ItemsOK /\ JobsOK

-----------------------------------------------------------------------------
(* What a step does to the one queue of a tag *)

\* A tag that is used has one redirector.
LEMMA UsedTags ==
  ASSUME TagsApart
  PROVE  /\ Used \subseteq Tag /\ \A t \in Used : HomeOf(t) \in Redirector
         /\ \A x \in Work : TagOf[x] \in Used /\ HomeOf(TagOf[x]) = Home[x] /\ Home[x] \in Redirector
<1>1. ASSUME NEW t \in Used PROVE t \in Tag /\ HomeOf(t) \in Redirector
  <2>1. PICK x \in Work : TagOf[x] = t
    BY DEF Used
  <2> DEFINE y == CHOOSE x_1 \in Work : TagOf[x_1] = t
  <2>2. y \in Work /\ TagOf[y] = t
    BY <2>1
  <2> HIDE DEF y
  <2>3. HomeOf(t) = Home[y]
    BY DEF HomeOf, y
  <2> QED BY <2>2, <2>3, WorkAssumption
<1>2. ASSUME NEW x \in Work PROVE TagOf[x] \in Used /\ HomeOf(TagOf[x]) = Home[x] /\ Home[x] \in Redirector
  <2> DEFINE y == CHOOSE x_1 \in Work : TagOf[x_1] = TagOf[x]
  <2>1. y \in Work /\ TagOf[y] = TagOf[x]
    OBVIOUS
  <2> HIDE DEF y
  <2>2. HomeOf(TagOf[x]) = Home[y]
    BY DEF HomeOf, y
  <2> QED BY <2>1, <2>2, WorkAssumption DEF Used, TagsApart
<1> QED BY <1>1, <1>2

\* None is nothing else.
LEMMA NoneIsNone == /\ None \notin Work /\ None \notin Worker /\ None \notin Tag /\ None \notin Redirector
                    /\ Work \subseteq Nat /\ Worker \subseteq Nat /\ Tag \subseteq Nat /\ Tag = 1 .. NTags
                    /\ NTags \in Nat
  BY WorkAssumption DEF Work, Worker, Tag

\* The one queue of a tag, shared or private.
LEMMA QueueType ==
  ASSUME TagsApart, QueuesInv, NEW t \in Used
  PROVE  QueueOf(t) \in Seq(Work)
<1>1. t \in Tag /\ HomeOf(t) \in Redirector
  BY UsedTags
<1>2. overrides[t] \in Worker \cup {None}
  BY <1>1 DEF QueuesInv, TypeOK
<1> QED BY <1>1, <1>2 DEF QueueOf, QueuesInv, TypeOK

\* The tag of a queue that waits, and of the worker that may pop it.
LEMMA PopTag ==
  ASSUME TagsApart, QueuesInv, NEW w \in Worker, Pop(w)
  PROVE  LET t == NextTag(home[w])
         IN  /\ home[w] \in Redirector /\ t \in Used /\ t \in Tag /\ home[w] = HomeOf(t)
             /\ overrides[t] = None /\ qs[home[w]][t] # <<>> /\ QueueOf(t) = qs[home[w]][t]
             /\ \A v \in Worker : Busy(v) => tag[v] # t
<1> DEFINE r == home[w]
           t == NextTag(r)
<1>1. r \in Redirector /\ pc[w] = "pop" /\ Waiting(r) # {}
  BY DEF Pop, QueuesInv, TagsOK
<1>2. t \in Waiting(r) /\ t \in Tag
  <2>1. last[r] \in 0 .. NTags
    BY <1>1 DEF QueuesInv, TypeOK
  <2> QED BY <1>1, <2>1, NextTagTurn
<1> HIDE DEF t
<1>3. qs[r][t] # <<>> /\ t \in Used /\ r = HomeOf(t) /\ overrides[t] = None
  BY <1>1, <1>2 DEF Waiting, QueuesInv, OthersEmpty
<1>4. ASSUME NEW v \in Worker, Busy(v) PROVE tag[v] # t
  <2>1. CASE pc[v] = "redirect"
    <3>1. home[v] # r
      BY <2>1 DEF Pop
    <3> QED BY <1>3, <1>4, <3>1 DEF QueuesInv, TagsOK
  <2>2. CASE Holding(v)
    <3>1. overrides[t] # v
      BY <1>3, NoneIsNone
    <3> QED BY <1>2, <2>2, <3>1 DEF QueuesInv, TagsOK
  <2> QED BY <1>4, <2>1, <2>2 DEF Busy, Holding
<1> QED BY <1>1, <1>2, <1>3, <1>4 DEF t, QueueOf

\* A push goes to the queue of the item's real tag, wherever that is.
LEMMA PushQueue ==
  ASSUME TagsApart, QueuesInv, NEW x \in Work, Push(x), UNCHANGED <<pc, home, tag, job>>
  PROVE  /\ QueuesInv'
         /\ \E t \in Used :
               /\ t = RealTag(x) /\ QueueOf(t)' = PushTo(x, QueueOf(t))
               /\ \A u \in Used \ {t} : QueueOf(u)' = QueueOf(u)
               /\ status' = [status EXCEPT ![x] =
                                IF Coalesced(x, QueueOf(t)) THEN "dropped" ELSE "queued"]
<1>0. RealTag(x) \in Used
  BY UsedTags DEF RealTag, QueuesInv, AliasesOK
<1> PICK t \in Used : t = RealTag(x)
  BY <1>0
<1> DEFINE o == overrides[t]
           q == IF o = None THEN qs[Home[x]][t] ELSE private[o]
<1>1. /\ qs' = IF o = None THEN [qs EXCEPT ![Home[x]][t] = PushTo(x, q)] ELSE qs
      /\ private' = IF o = None THEN private ELSE [private EXCEPT ![o] = PushTo(x, q)]
      /\ status' = [status EXCEPT ![x] = IF Coalesced(x, q) THEN "dropped" ELSE "queued"]
      /\ UNCHANGED <<last, overrides, aliases>>
  BY DEF Push
<1>2. TypeOK /\ TagsOK /\ AliasesOK /\ OthersEmpty
  BY DEF QueuesInv
<1>3. TagOf[x] \in Used /\ TagOf[x] \in Tag /\ Used \subseteq Tag /\ HomeOf(TagOf[x]) = Home[x] /\ Home[x] \in Redirector
  BY UsedTags
<1>4. t \in Used /\ t \in Tag
  BY <1>3
<1>5. o = None => t = TagOf[x]
  BY <1>2, <1>3 DEF RealTag, AliasesOK
<1>6. o \in Worker \cup {None}
  BY <1>2, <1>4 DEF TypeOK
<1>7. q = QueueOf(t)
  BY <1>3, <1>5 DEF QueueOf
<1>8. q \in Seq(Work) /\ PushTo(x, q) \in Seq(Work)
  BY <1>4, <1>7, QueueType DEF PushTo
<1> DEFINE p == PushTo(x, q)
<1> HIDE DEF p, q
<1>9. CASE o = None
  <2>1. qs' = [qs EXCEPT ![Home[x]][t] = p] /\ private' = private
    BY <1>1, <1>9 DEF p
  <2>2. Home[x] = HomeOf(t)
    BY <1>3, <1>5, <1>9
  <2>3. \A r \in Redirector, u \in Tag :
           qs'[r][u] = IF r = Home[x] /\ u = t THEN p ELSE qs[r][u]
    BY <1>2, <1>3, <1>4, <2>1 DEF TypeOK
  <2>4. TypeOK'
    <3>1. qs' \in [Redirector -> [Tag -> Seq(Work)]]
      BY <1>2, <1>3, <1>4, <1>8, <2>1 DEF TypeOK, p
    <3>2. status' \in [Work -> Statuses]
      BY <1>1, <1>2 DEF TypeOK, Statuses
    <3> QED BY <1>1, <1>2, <2>1, <3>1, <3>2 DEF TypeOK
  <2>5. TagsOK' /\ AliasesOK'
    BY <1>1, <1>2 DEF TagsOK, AliasesOK, Busy, Holding
  <2>6. OthersEmpty'
    BY <1>1, <1>2, <1>4, <1>9, <2>1, <2>2, <2>3 DEF OthersEmpty, Holding
  <2>7. QueueOf(t)' = p
    BY <1>1, <1>4, <1>9, <1>3, <2>2, <2>3 DEF QueueOf
  <2>8. \A u \in Used \ {t} : QueueOf(u)' = QueueOf(u)
    BY <1>1, <1>3, <2>1, <2>3, UsedTags DEF QueueOf
  <2> QED BY <1>1, <1>4, <1>7, <2>4, <2>5, <2>6, <2>7, <2>8 DEF QueuesInv, p
<1>10. CASE o # None
  <2>1. qs' = qs /\ private' = [private EXCEPT ![o] = p] /\ o \in Worker
    BY <1>1, <1>6, <1>10 DEF p
  <2>2. Holding(o) /\ tag[o] = t
    BY <1>2, <1>4, <2>1 DEF TagsOK
  <2>3. \A w \in Worker : private'[w] = IF w = o THEN p ELSE private[w]
    BY <1>2, <2>1 DEF TypeOK
  <2>4. TypeOK'
    <3>1. private' \in [Worker -> Seq(Work)]
      BY <1>2, <1>8, <2>1 DEF TypeOK, p
    <3>2. status' \in [Work -> Statuses]
      BY <1>1, <1>2 DEF TypeOK, Statuses
    <3> QED BY <1>1, <1>2, <2>1, <3>1, <3>2 DEF TypeOK
  <2>5. TagsOK' /\ AliasesOK'
    BY <1>1, <1>2 DEF TagsOK, AliasesOK, Busy, Holding
  <2>6. OthersEmpty'
    BY <1>1, <1>2, <2>1, <2>2, <2>3 DEF OthersEmpty, Holding
  <2>7. QueueOf(t)' = p
    BY <1>1, <1>10, <2>1, <2>3 DEF QueueOf
  <2>8. \A u \in Used \ {t} : QueueOf(u)' = QueueOf(u)
    <3> SUFFICES ASSUME NEW u \in Used, u # t PROVE QueueOf(u)' = QueueOf(u)
      OBVIOUS
    <3>1. overrides[u] # o /\ overrides[u] \in Worker \cup {None}
      BY <1>2, <1>3, <2>1, <2>2 DEF TagsOK, TypeOK
    <3> QED BY <1>1, <2>1, <2>3, <3>1 DEF QueueOf
  <2> QED BY <1>1, <1>4, <1>7, <2>4, <2>5, <2>6, <2>7, <2>8 DEF QueuesInv, p
<1> QED BY <1>9, <1>10

\* A pop takes the head of a queue no worker is busy with.
LEMMA PopQueue ==
  ASSUME TagsApart, QueuesInv, NEW w \in Worker, Pop(w)
  PROVE  /\ QueuesInv'
         /\ \E t \in Used :
               /\ QueueOf(t) # <<>> /\ tag'[w] = t /\ \A v \in Worker : Busy(v) => tag[v] # t
               /\ job' = [job EXCEPT ![w] = Head(QueueOf(t))]
               /\ status' = [status EXCEPT ![Head(QueueOf(t))] = "taken"]
               /\ QueueOf(t)' = Tail(QueueOf(t))
               /\ \A u \in Used \ {t} : QueueOf(u)' = QueueOf(u)
<1> PICK t \in Used : t = NextTag(home[w])
  BY PopTag
<1> DEFINE r == home[w]
           q == qs[r][t]
<1>1. /\ r \in Redirector /\ t \in Used /\ t \in Tag /\ r = HomeOf(t)
      /\ overrides[t] = None /\ q # <<>> /\ QueueOf(t) = q
      /\ \A v \in Worker : Busy(v) => tag[v] # t
  BY PopTag
<1>2. /\ qs' = [qs EXCEPT ![r][t] = Tail(q)] /\ last' = [last EXCEPT ![r] = t]
      /\ tag' = [tag EXCEPT ![w] = t] /\ job' = [job EXCEPT ![w] = Head(q)]
      /\ status' = [status EXCEPT ![Head(q)] = "taken"]
      /\ pc[w] = "pop" /\ pc' = [pc EXCEPT ![w] = "redirect"]
      /\ UNCHANGED <<home, overrides, private, aliases>>
  BY DEF Pop, poolVars
<1>3. TypeOK /\ TagsOK /\ AliasesOK /\ OthersEmpty
  BY DEF QueuesInv
<1>4. q \in Seq(Work) /\ Head(q) \in Work /\ Tail(q) \in Seq(Work)
  BY <1>1, <1>3 DEF TypeOK
<1> HIDE DEF q
<1>5. \A s \in Redirector, u \in Tag : qs'[s][u] = IF s = r /\ u = t THEN Tail(q) ELSE qs[s][u]
  BY <1>1, <1>2, <1>3 DEF TypeOK
<1>6. TypeOK'
  <2>1. qs' \in [Redirector -> [Tag -> Seq(Work)]]
    BY <1>1, <1>2, <1>3, <1>4 DEF TypeOK
  <2>2. last' \in [Redirector -> 0 .. NTags] /\ tag' \in [Worker -> 0 .. NTags]
    <3>1. t \in 0 .. NTags
      BY <1>1, NoneIsNone
    <3> QED BY <1>2, <1>3, <3>1 DEF TypeOK
  <2>3. job' \in [Worker -> Work \cup {None}] /\ status' \in [Work -> Statuses]
    BY <1>2, <1>3, <1>4 DEF TypeOK, Statuses
  <2>4. pc' \in [Worker -> PCs]
    BY <1>2, <1>3 DEF TypeOK, PCs
  <2> QED BY <1>2, <1>3, <2>1, <2>2, <2>3, <2>4 DEF TypeOK
<1>7. \A v \in Worker : pc'[v] = (IF v = w THEN "redirect" ELSE pc[v]) /\ tag'[v] = (IF v = w THEN t ELSE tag[v])
  BY <1>2, <1>3 DEF TypeOK
<1>8. \A v \in Worker : Holding(v)' <=> Holding(v)
  BY <1>2, <1>7 DEF Holding
<1>9. \A v \in Worker : Busy(v)' <=> Busy(v) \/ v = w
  BY <1>7 DEF Busy
<1>10. TagsOK'
  <2>1. \A v \in Worker : pc'[v] # "none" => home'[v] \in Redirector
    BY <1>1, <1>2, <1>3, <1>7 DEF TagsOK
  <2>2. ASSUME NEW v \in Worker, Busy(v)' PROVE tag'[v] \in Used /\ home'[v] = HomeOf(tag'[v])
    <3>1. CASE v = w
      <4>1. tag'[v] = t /\ home'[v] = r
        BY <1>2, <1>7, <3>1
      <4> QED BY <1>1, <4>1
    <3>2. CASE v # w
      <4>1. tag'[v] = tag[v] /\ home'[v] = home[v] /\ Busy(v)
        BY <1>2, <1>7, <1>9, <2>2, <3>2
      <4> QED BY <1>3, <4>1 DEF TagsOK
    <3> QED BY <3>1, <3>2
  <2>3. \A v, u \in Worker : Busy(v)' /\ Busy(u)' /\ tag'[v] = tag'[u] => v = u
    BY <1>1, <1>3, <1>7, <1>9 DEF TagsOK
  <2>4. \A u \in Tag, v \in Worker : overrides'[u] = v <=> Holding(v)' /\ tag'[v] = u
    BY <1>2, <1>3, <1>7, <1>8 DEF TagsOK, Holding
  <2> QED BY <2>1, <2>2, <2>3, <2>4 DEF TagsOK
<1>11. AliasesOK' /\ OthersEmpty'
  <2>1. AliasesOK'
    BY <1>2, <1>3 DEF AliasesOK
  <2>2. ASSUME NEW s \in Redirector, NEW u \in Tag, qs'[s][u] # <<>>
        PROVE  u \in Used /\ s = HomeOf(u) /\ overrides'[u] = None
    <3>1. CASE s = r /\ u = t
      BY <1>1, <1>2, <3>1
    <3>2. CASE ~(s = r /\ u = t)
      BY <1>2, <1>3, <1>5, <2>2, <3>2 DEF OthersEmpty
    <3> QED BY <3>1, <3>2
  <2>3. \A v \in Worker : private'[v] # <<>> => Holding(v)'
    BY <1>2, <1>3, <1>8 DEF OthersEmpty
  <2> QED BY <2>1, <2>2, <2>3 DEF OthersEmpty
<1>12. QueueOf(t)' = Tail(q)
  BY <1>1, <1>2, <1>5 DEF QueueOf
<1>13. \A u \in Used \ {t} : QueueOf(u)' = QueueOf(u)
  BY <1>2, <1>5, UsedTags DEF QueueOf
<1> QED BY <1>1, <1>2, <1>6, <1>7, <1>10, <1>11, <1>12, <1>13 DEF QueuesInv

\* The queue only moves from the redirector to the worker
LEMMA RedirectQueue ==
  ASSUME TagsApart, QueuesInv, NEW w \in Worker, job[w] \in Work, Redirect(w)
  PROVE  QueuesInv' /\ \A u \in Used : QueueOf(u)' = QueueOf(u)
<1> DEFINE r == home[w]
           t == tag[w]
           q == qs[r][t]
<1>1. /\ private' = [private EXCEPT ![w] = q] /\ qs' = [qs EXCEPT ![r][t] = <<>>]
      /\ overrides' = [overrides EXCEPT ![t] = w]
      /\ pc[w] = "redirect" /\ pc' = [pc EXCEPT ![w] = "execute"]
      /\ status' = [status EXCEPT ![job[w]] = "running"]
      /\ UNCHANGED <<home, last, aliases, tag, job>>
  BY DEF Redirect, poolVars
<1>2. TypeOK /\ TagsOK /\ AliasesOK /\ OthersEmpty
  BY DEF QueuesInv
<1>3. t \in Used /\ t \in Tag /\ r = HomeOf(t) /\ r \in Redirector /\ Busy(w) /\ ~Holding(w)
  BY <1>1, <1>2, UsedTags DEF Busy, Holding, TagsOK
<1>4. overrides[t] = None
  <2>1. overrides[t] \in Worker \cup {None}
    BY <1>2, <1>3 DEF TypeOK
  <2>2. ASSUME overrides[t] \in Worker PROVE FALSE
    BY <1>2, <1>3, <2>2 DEF TagsOK, Busy, Holding
  <2> QED BY <2>1, <2>2
<1>5. q \in Seq(Work)
  BY <1>2, <1>3 DEF TypeOK
<1> HIDE DEF r, t, q
<1>6. /\ \A s \in Redirector, u \in Tag : qs'[s][u] = IF s = r /\ u = t THEN <<>> ELSE qs[s][u]
      /\ \A v \in Worker : private'[v] = IF v = w THEN q ELSE private[v]
      /\ \A u \in Tag : overrides'[u] = IF u = t THEN w ELSE overrides[u]
      /\ \A v \in Worker : pc'[v] = IF v = w THEN "execute" ELSE pc[v]
  BY <1>1, <1>2, <1>3 DEF TypeOK
<1>7. TypeOK'
  <2>1. qs' \in [Redirector -> [Tag -> Seq(Work)]]
    BY <1>1, <1>2, <1>3 DEF TypeOK
  <2>2. private' \in [Worker -> Seq(Work)] /\ overrides' \in [Tag -> Worker \cup {None}]
    BY <1>1, <1>2, <1>5 DEF TypeOK
  <2>3. status' \in [Work -> Statuses] /\ pc' \in [Worker -> PCs]
    BY <1>1, <1>2 DEF TypeOK, Statuses, PCs
  <2> QED BY <1>1, <1>2, <2>1, <2>2, <2>3 DEF TypeOK
<1>8. \A v \in Worker : (Busy(v)' <=> Busy(v)) /\ (Holding(v)' <=> Holding(v) \/ v = w)
  BY <1>1, <1>6 DEF Busy, Holding
<1>9. TagsOK'
  <2>1. \A v \in Worker : pc'[v] # "none" => home'[v] \in Redirector
    BY <1>1, <1>2, <1>6 DEF TagsOK
  <2>2. /\ \A v \in Worker : Busy(v)' => tag'[v] \in Used /\ home'[v] = HomeOf(tag'[v])
        /\ \A v, u \in Worker : Busy(v)' /\ Busy(u)' /\ tag'[v] = tag'[u] => v = u
    BY <1>1, <1>2, <1>8 DEF TagsOK
  <2>3. ASSUME NEW u \in Tag, NEW v \in Worker PROVE overrides'[u] = v <=> Holding(v)' /\ tag'[v] = u
    <3>1. CASE u = t
      <4>1. Holding(v)' /\ tag'[v] = t => v = w
        BY <1>1, <1>2, <1>3, <1>8 DEF TagsOK, Busy, Holding, t
      <4> QED BY <1>1, <1>6, <1>8, <3>1, <4>1 DEF t
    <3>2. CASE u # t
      BY <1>1, <1>2, <1>3, <1>6, <1>8, <3>2 DEF TagsOK, t
    <3> QED BY <3>1, <3>2
  <2> QED BY <2>1, <2>2, <2>3 DEF TagsOK
<1>10. AliasesOK'
  <2>1. \A u \in Used : overrides[u] # None => overrides'[u] # None
    BY <1>6, UsedTags, NoneIsNone
  <2> QED BY <1>1, <1>2, <2>1 DEF AliasesOK
<1>11. OthersEmpty'
  <2>1. ASSUME NEW s \in Redirector, NEW u \in Tag, qs'[s][u] # <<>>
        PROVE  u \in Used /\ s = HomeOf(u) /\ overrides'[u] = None
    BY <1>2, <1>3, <1>6, <2>1 DEF OthersEmpty
  <2>2. \A v \in Worker : private'[v] # <<>> => Holding(v)'
    BY <1>2, <1>6, <1>8 DEF OthersEmpty
  <2> QED BY <2>1, <2>2 DEF OthersEmpty
<1>12. ASSUME NEW u \in Used PROVE QueueOf(u)' = QueueOf(u)
  <2>1. u \in Tag /\ HomeOf(u) \in Redirector
    BY UsedTags
  <2>2. CASE u = t
    BY <1>3, <1>4, <1>6, <2>1, <2>2, NoneIsNone DEF QueueOf, q
  <2>3. CASE u # t
    <3>1. overrides'[u] = overrides[u] /\ overrides[u] # w
      BY <1>2, <1>3, <1>6, <2>1, <2>3 DEF TagsOK
    <3>2. overrides[u] \in Worker \cup {None}
      BY <1>2, <2>1 DEF TypeOK
    <3> QED BY <1>6, <2>1, <2>3, <3>1, <3>2 DEF QueueOf
  <2> QED BY <2>2, <2>3
<1> QED BY <1>7, <1>9, <1>10, <1>11, <1>12 DEF QueuesInv

\* and back.
LEMMA FinishedQueue ==
  ASSUME TagsApart, QueuesInv, NEW w \in Worker, Finished(w)
  PROVE  QueuesInv' /\ \A u \in Used : QueueOf(u)' = QueueOf(u)
<1> DEFINE r == home[w]
           t == tag[w]
           p == private[w]
<1>1. /\ qs' = IF p = <<>> THEN qs ELSE [qs EXCEPT ![r][t] = p]
      /\ private' = [private EXCEPT ![w] = <<>>]
      /\ overrides' = [overrides EXCEPT ![t] = None]
      /\ aliases' = [u \in Tag |-> IF aliases[u] = t THEN None ELSE aliases[u]]
      /\ pc[w] = "finish" /\ pc' = [pc EXCEPT ![w] = "finally"]
      /\ UNCHANGED <<home, last, tag, job, status>>
  BY DEF Finished, poolVars, history
<1>2. TypeOK /\ TagsOK /\ AliasesOK /\ OthersEmpty
  BY DEF QueuesInv
<1>3. t \in Used /\ t \in Tag /\ r = HomeOf(t) /\ r \in Redirector /\ Busy(w) /\ Holding(w)
  BY <1>1, <1>2, UsedTags DEF Busy, Holding, TagsOK
<1>4. overrides[t] = w /\ w # None
  BY <1>2, <1>3, NoneIsNone DEF TagsOK
<1>5. qs[r][t] = <<>> /\ p \in Seq(Work)
  BY <1>2, <1>3, <1>4 DEF OthersEmpty, TypeOK
<1> HIDE DEF r, t, p
<1>6. /\ \A s \in Redirector, u \in Tag : qs'[s][u] = IF s = r /\ u = t THEN p ELSE qs[s][u]
      /\ \A v \in Worker : private'[v] = IF v = w THEN <<>> ELSE private[v]
      /\ \A u \in Tag : overrides'[u] = IF u = t THEN None ELSE overrides[u]
      /\ \A v \in Worker : pc'[v] = IF v = w THEN "finally" ELSE pc[v]
  <2>1. \A s \in Redirector, u \in Tag : qs'[s][u] = IF s = r /\ u = t THEN p ELSE qs[s][u]
    BY <1>1, <1>2, <1>3, <1>5 DEF TypeOK
  <2> QED BY <1>1, <1>2, <1>3, <2>1 DEF TypeOK
<1>7. TypeOK'
  <2>1. qs' \in [Redirector -> [Tag -> Seq(Work)]]
    BY <1>1, <1>2, <1>3, <1>5 DEF TypeOK
  <2>2. private' \in [Worker -> Seq(Work)] /\ overrides' \in [Tag -> Worker \cup {None}]
    <3>1. <<>> \in Seq(Work)
      OBVIOUS
    <3>2. private' \in [Worker -> Seq(Work)]
      BY <1>1, <1>2, <3>1 DEF TypeOK
    <3> QED BY <1>1, <1>2, <3>2 DEF TypeOK
  <2>3. aliases' \in [Tag -> Tag \cup {None}] /\ pc' \in [Worker -> PCs]
    BY <1>1, <1>2 DEF TypeOK, PCs
  <2> QED BY <1>1, <1>2, <2>1, <2>2, <2>3 DEF TypeOK
<1>8. \A v \in Worker : (Busy(v)' <=> Busy(v) /\ v # w) /\ (Holding(v)' <=> Holding(v) /\ v # w)
  BY <1>1, <1>6 DEF Busy, Holding
<1>9. TagsOK'
  <2>1. \A v \in Worker : pc'[v] # "none" => home'[v] \in Redirector
    BY <1>1, <1>2, <1>6 DEF TagsOK
  <2>2. /\ \A v \in Worker : Busy(v)' => tag'[v] \in Used /\ home'[v] = HomeOf(tag'[v])
        /\ \A v, u \in Worker : Busy(v)' /\ Busy(u)' /\ tag'[v] = tag'[u] => v = u
    BY <1>1, <1>2, <1>8 DEF TagsOK
  <2>3. ASSUME NEW u \in Tag, NEW v \in Worker PROVE overrides'[u] = v <=> Holding(v)' /\ tag'[v] = u
    <3>1. CASE u = t
      <4>1. Holding(v) /\ tag[v] = t => v = w
        BY <1>2, <1>3, <1>4 DEF TagsOK
      <4> QED BY <1>1, <1>6, <1>8, <3>1, <4>1, NoneIsNone
    <3>2. CASE u # t
      BY <1>1, <1>2, <1>3, <1>6, <1>8, <3>2 DEF TagsOK, t
    <3> QED BY <3>1, <3>2
  <2> QED BY <2>1, <2>2, <2>3 DEF TagsOK
<1>10. AliasesOK'
  BY <1>1, <1>2, <1>6, UsedTags DEF AliasesOK
<1>11. OthersEmpty'
  <2>1. ASSUME NEW s \in Redirector, NEW u \in Tag, qs'[s][u] # <<>>
        PROVE  u \in Used /\ s = HomeOf(u) /\ overrides'[u] = None
    BY <1>2, <1>3, <1>6, <2>1 DEF OthersEmpty
  <2>2. \A v \in Worker : private'[v] # <<>> => Holding(v)'
    BY <1>2, <1>6, <1>8 DEF OthersEmpty
  <2> QED BY <2>1, <2>2 DEF OthersEmpty
<1>12. ASSUME NEW u \in Used PROVE QueueOf(u)' = QueueOf(u)
  <2>1. u \in Tag /\ HomeOf(u) \in Redirector
    BY UsedTags
  <2>2. CASE u = t
    BY <1>3, <1>4, <1>6, <2>1, <2>2 DEF QueueOf, p
  <2>3. CASE u # t
    <3>1. overrides'[u] = overrides[u] /\ overrides[u] # w
      BY <1>2, <1>3, <1>4, <1>6, <2>1, <2>3 DEF TagsOK
    <3>2. overrides[u] \in Worker \cup {None}
      BY <1>2, <2>1 DEF TypeOK
    <3> QED BY <1>6, <2>1, <2>3, <3>1, <3>2 DEF QueueOf
  <2> QED BY <2>2, <2>3
<1> QED BY <1>7, <1>9, <1>10, <1>11, <1>12 DEF QueuesInv

\* A step that moves no queue and no tag.
LEMMA QueuesKept ==
  ASSUME TagsApart, QueuesInv, TypeOK', AliasesOK', UNCHANGED <<qs, private, overrides, tag>>,
         \A v \in Worker : /\ (Busy(v)' <=> Busy(v)) /\ (Holding(v)' <=> Holding(v))
                           /\ (Busy(v) => home'[v] = home[v])
                           /\ (pc'[v] # "none" => home'[v] \in Redirector)
  PROVE  QueuesInv' /\ \A u \in Used : QueueOf(u)' = QueueOf(u)
<1>1. TypeOK /\ TagsOK /\ OthersEmpty
  BY DEF QueuesInv
<1>2. TagsOK'
  <2>1. /\ \A v \in Worker : Busy(v)' => tag'[v] \in Used /\ home'[v] = HomeOf(tag'[v])
        /\ \A v, w \in Worker : Busy(v)' /\ Busy(w)' /\ tag'[v] = tag'[w] => v = w
    BY <1>1 DEF TagsOK
  <2>2. \A t \in Tag, w \in Worker : overrides'[t] = w <=> Holding(w)' /\ tag'[w] = t
    BY <1>1 DEF TagsOK
  <2> QED BY <2>1, <2>2 DEF TagsOK
<1>3. OthersEmpty'
  BY <1>1 DEF OthersEmpty
<1>4. \A u \in Used : QueueOf(u)' = QueueOf(u)
  BY DEF QueueOf
<1> QED BY <1>2, <1>3, <1>4 DEF QueuesInv

\* A worker's own steps, and what it waits for.
LEMMA OwnStepQueue ==
  ASSUME TagsApart, PlacesInv, NEW w \in Worker,
         \/ Test(w) \/ Finally(w) \/ SetAlias(w) \/ EndChunk(w) \/ Executed(w)
         \/ \E x \in Work : Expire(w, x)
  PROVE  QueuesInv' /\ \A u \in Used : QueueOf(u)' = QueueOf(u)
<1>1. TypeOK /\ TagsOK /\ AliasesOK /\ QueuesInv /\ JobsOK
  BY DEF PlacesInv, QueuesInv
<1>2. UNCHANGED <<qs, private, overrides, tag, last, home>>
  BY DEF Test, Finally, SetAlias, EndChunk, Executed, Expire, queueVars, poolVars
<1>3. PICK p \in PCs : /\ pc' = [pc EXCEPT ![w] = p] /\ pc[w] # "none"
                       /\ Busy(w) <=> p \in {"redirect", "execute", "finish"}
                       /\ Holding(w) <=> p \in {"execute", "finish"}
  <2>1. CASE Test(w)
    <3>1. pc[w] = "test" /\ pc' = [pc EXCEPT ![w] = IF stop[w] THEN "ended" ELSE "pop"]
      BY <2>1 DEF Test
    <3> QED BY <1>1, <3>1 DEF PCs, TypeOK, Busy, Holding
  <2>2. CASE Finally(w)
    <3>1. pc[w] = "finally" /\ pc' = [pc EXCEPT ![w] = "test"]
      BY <2>2 DEF Finally
    <3> QED BY <1>1, <3>1 DEF PCs, TypeOK, Busy, Holding
  <2>3. CASE Executed(w)
    <3>1. pc[w] = "execute" /\ pc' = [pc EXCEPT ![w] = "finish"]
      BY <2>3 DEF Executed
    <3> QED BY <1>1, <3>1 DEF PCs, TypeOK, Busy, Holding
  <2>4. CASE SetAlias(w) \/ EndChunk(w) \/ \E x \in Work : Expire(w, x)
    <3>1. pc[w] = "execute" /\ pc' = pc
      BY <2>4 DEF SetAlias, EndChunk, Expire
    <3>2. pc' = [pc EXCEPT ![w] = "execute"]
      BY <1>1, <3>1 DEF TypeOK
    <3> QED BY <1>1, <3>1, <3>2 DEF PCs, TypeOK, Busy, Holding
  <2> QED BY <2>1, <2>2, <2>3, <2>4
<1>4. \A v \in Worker : pc'[v] = IF v = w THEN p ELSE pc[v]
  BY <1>1, <1>3 DEF TypeOK
<1>5. \A v \in Worker : (Busy(v)' <=> Busy(v)) /\ (Holding(v)' <=> Holding(v))
  BY <1>3, <1>4 DEF Busy, Holding
<1>6. \A v \in Worker : pc'[v] # "none" => home'[v] \in Redirector
  BY <1>1, <1>2, <1>3, <1>4 DEF TagsOK
<1>7. aliases' \in [Tag -> Tag \cup {None}] /\ AliasesOK'
  <2>1. CASE aliases' = aliases
    BY <1>1, <1>2, <2>1 DEF TypeOK, AliasesOK
  <2>2. CASE SetAlias(w)
    <3> DEFINE x == job[w]
               a == Alias[x]
               t == TagOf[x]
    <3>1. x \in Work
      BY <1>1, <2>2 DEF SetAlias, JobsOK, Busy, TypeOK
    <3>2. a \in Tag \cup {None} /\ t \in Used /\ t \in Tag
      BY <3>1, UsedTags, WorkAssumption
    <3>3. aliases' = IF a # None /\ overrides[t] # None THEN [aliases EXCEPT ![a] = t] ELSE aliases
      BY <2>2 DEF SetAlias
    <3> HIDE DEF a, t
    <3> QED BY <1>1, <1>2, <3>2, <3>3 DEF TypeOK, AliasesOK
  <2> QED BY <2>1, <2>2 DEF Test, Finally, SetAlias, EndChunk, Executed, Expire, queueVars
<1>8. job' \in [Worker -> Work \cup {None}]
  BY <1>1 DEF Test, Finally, SetAlias, EndChunk, Executed, Expire, TypeOK
<1>9. status' \in [Work -> Statuses]
  BY <1>1 DEF Test, Finally, SetAlias, EndChunk, Executed, Expire, TypeOK, history, Statuses
<1>10. pc' \in [Worker -> PCs]
  BY <1>1, <1>3 DEF TypeOK
<1>11. TypeOK'
  BY <1>1, <1>2, <1>7, <1>8, <1>9, <1>10 DEF TypeOK
<1> QED BY <1>1, <1>2, <1>5, <1>6, <1>7, <1>11, QueuesKept

\* Changes of the pool's size start a thread, or set a flag.
LEMMA SetterQueue ==
  ASSUME TagsApart, QueuesInv, (\E s \in Setter : SetterStep(s)) \/ UNCHANGED vars
  PROVE  /\ QueuesInv' /\ \A u \in Used : QueueOf(u)' = QueueOf(u)
         /\ UNCHANGED <<job, status, due>>
         /\ \A v \in Worker : pc'[v] # pc[v] => pc[v] = "none" /\ pc'[v] = "test"
<1>1. TypeOK /\ TagsOK /\ AliasesOK
  BY DEF QueuesInv
<1>2. UNCHANGED <<qs, private, overrides, tag, last, aliases, job, status, due>>
  BY DEF SetterStep, Count, Adjust, Adjusted, vars, queueVars, threadVars, history
<1>3. \/ UNCHANGED <<pc, home>>
      \/ \E v \in Worker, r \in Redirector :
            pc[v] = "none" /\ pc' = [pc EXCEPT ![v] = "test"] /\ home' = [home EXCEPT ![v] = r]
  <2>1. CASE UNCHANGED <<pc, home>>
    BY <2>1
  <2>2. CASE \E s \in Setter : Adjust(s)
    <3>1. PICK s \in Setter : Adjust(s)
      BY <2>2
    <3> DEFINE r == Redirectors[setAt[s]]
               S == {w \in Worker : pc[w] = "none"}
    <3>2. r \in Redirector /\ (Incr(r) \/ Decr(r))
      BY <3>1 DEF Adjust, Redirector
    <3>3. CASE UNCHANGED <<pc, home>>
      BY <3>3
    <3>4. CASE S # {} /\ pc' = [pc EXCEPT ![Least(S)] = "test"] /\ home' = [home EXCEPT ![Least(S)] = r]
      <4>1. Least(S) \in S
        BY <3>4, LeastIn, NoneIsNone
      <4> QED BY <3>2, <3>4, <4>1
    <3> HIDE DEF r
    <3> QED BY <3>2, <3>3, <3>4 DEF Incr, Decr
  <2> QED BY <2>1, <2>2 DEF SetterStep, Count, Adjusted, vars, threadVars, poolVars
<1>4. CASE UNCHANGED <<pc, home>>
  <2>1. TypeOK' /\ AliasesOK'
    BY <1>1, <1>2, <1>4 DEF TypeOK, AliasesOK
  <2>2. \A v \in Worker : /\ (Busy(v)' <=> Busy(v)) /\ (Holding(v)' <=> Holding(v))
                          /\ (pc'[v] # "none" => home'[v] \in Redirector)
    BY <1>1, <1>4 DEF Busy, Holding, TagsOK
  <2> QED BY <1>2, <1>4, <2>1, <2>2, QueuesKept
<1>5. ASSUME NEW w \in Worker, NEW r \in Redirector, pc[w] = "none",
             pc' = [pc EXCEPT ![w] = "test"], home' = [home EXCEPT ![w] = r]
      PROVE  /\ QueuesInv' /\ \A u \in Used : QueueOf(u)' = QueueOf(u)
             /\ \A v \in Worker : pc'[v] # pc[v] => pc[v] = "none" /\ pc'[v] = "test"
  <2>1. \A v \in Worker : /\ pc'[v] = (IF v = w THEN "test" ELSE pc[v])
                          /\ home'[v] = (IF v = w THEN r ELSE home[v])
    BY <1>1, <1>5 DEF TypeOK
  <2>2. TypeOK' /\ AliasesOK'
    <3>1. pc' \in [Worker -> PCs] /\ home' \in [Worker -> Redirector \cup {None}]
      BY <1>1, <1>5 DEF TypeOK, PCs
    <3> QED BY <1>1, <1>2, <3>1 DEF TypeOK, AliasesOK
  <2>3. \A v \in Worker : /\ (Busy(v)' <=> Busy(v)) /\ (Holding(v)' <=> Holding(v))
                          /\ (Busy(v) => home'[v] = home[v])
                          /\ (pc'[v] # "none" => home'[v] \in Redirector)
    BY <1>1, <1>5, <2>1 DEF Busy, Holding, TagsOK
  <2> QED BY <1>2, <1>5, <2>1, <2>2, <2>3, QueuesKept
<1> QED BY <1>2, <1>3, <1>4, <1>5

-----------------------------------------------------------------------------
(* What a step does to the items *)

\* No item comes into a queue or leaves one.
LEMMA ItemsKept ==
  ASSUME TagsApart, PlacesInv, \A u \in Used : QueueOf(u)' = QueueOf(u),
         \A x \in Work : status'[x] = "queued" <=> status[x] = "queued"
  PROVE  ItemsOK'
<1>1. ItemsOK /\ \A u \in Used : QueueOf(u) \in Seq(Work)
  BY QueueType DEF PlacesInv
<1>2. \A t \in Used : \A i \in DOMAIN QueueOf(t) : QueueOf(t)[i] \in Work
  BY <1>1
<1>3. \A t \in Used : \A i \in DOMAIN QueueOf(t)' : status'[QueueOf(t)'[i]] = "queued"
  BY <1>1, <1>2 DEF ItemsOK
<1>4. \A t, u \in Used : \A i \in DOMAIN QueueOf(t)', j \in DOMAIN QueueOf(u)' :
          QueueOf(t)'[i] = QueueOf(u)'[j] => t = u /\ i = j
  BY <1>1 DEF ItemsOK
<1>5. \A x \in Work : status'[x] = "queued" =>
          \E t \in Used : \E i \in DOMAIN QueueOf(t)' : QueueOf(t)'[i] = x
  BY <1>1 DEF ItemsOK
<1> QED BY <1>3, <1>4, <1>5 DEF ItemsOK

\* An item with a worker is under way.
LEMMA JobStatus ==
  ASSUME TypeOK, JobsOK, NEW v \in Worker, job[v] # None
  PROVE  job[v] \in Work /\ status[job[v]] \in {"taken", "running", "ran"}
<1>1. pc[v] \in {"redirect", "execute", "finish", "finally"}
  BY DEF JobsOK, Busy
<1> QED BY <1>1 DEF JobsOK, TypeOK

\* A worker's item goes on.
LEMMA JobMoved ==
  ASSUME TagsApart, PlacesInv, NEW w \in Worker, job[w] # None, NEW p, NEW s,
         (p = "execute" /\ s = "running") \/ (p \in {"finish", "finally"} /\ s = "ran"),
         pc' = [pc EXCEPT ![w] = p], status' = [status EXCEPT ![job[w]] = s], job' = job
  PROVE  JobsOK' /\ \A x \in Work : status'[x] = "queued" <=> status[x] = "queued"
<1>1. TypeOK /\ JobsOK /\ job[w] \in Work
  BY DEF PlacesInv, QueuesInv, TypeOK
<1>2. \A v \in Worker : pc'[v] = IF v = w THEN p ELSE pc[v]
  BY <1>1 DEF TypeOK
<1>3. \A x \in Work : status'[x] = IF x = job[w] THEN s ELSE status[x]
  BY <1>1 DEF TypeOK
<1>4. status[job[w]] \in {"taken", "running", "ran"} /\ (Busy(w) \/ pc[w] = "finally")
  BY <1>1 DEF JobsOK, Busy
<1>5. p \in {"execute", "finish", "finally"} /\ s \in {"running", "ran"}
      /\ (p = "execute" => s = "running") /\ (p \in {"finish", "finally"} => s = "ran")
  OBVIOUS
<1>6. \A v \in Worker : job'[v] # None <=> Busy(v)' \/ pc'[v] = "finally"
  BY <1>1, <1>2, <1>5 DEF JobsOK, Busy
<1>7. ASSUME NEW v \in Worker PROVE /\ pc'[v] = "redirect" => status'[job'[v]] = "taken"
                                    /\ pc'[v] = "execute" => status'[job'[v]] = "running"
                                    /\ pc'[v] \in {"finish", "finally"} => status'[job'[v]] = "ran"
  <2>1. CASE v = w
    BY <1>1, <1>2, <1>3, <1>5, <2>1
  <2>2. CASE v # w
    <3>1. job[v] # None => job[v] # job[w] /\ job[v] \in Work
      BY <1>1, <2>2 DEF JobsOK, TypeOK
    <3>2. pc[v] \in {"redirect", "execute", "finish", "finally"} => job[v] # None
      BY <1>1 DEF JobsOK, Busy
    <3> QED BY <1>1, <1>2, <1>3, <2>2, <3>1, <3>2 DEF JobsOK
  <2> QED BY <2>1, <2>2
<1>8. /\ \A u, v \in Worker : job'[v] # None /\ job'[v] = job'[u] => v = u
      /\ \A x \in Work : status'[x] \in {"taken", "running", "ran"} => \E v \in Worker : job'[v] = x
  BY <1>1, <1>3 DEF JobsOK
<1> QED BY <1>3, <1>4, <1>5, <1>6, <1>7, <1>8 DEF JobsOK

\* A step of no item's.
LEMMA JobsKept ==
  ASSUME PlacesInv, UNCHANGED <<job, status>>,
         \A v \in Worker : pc'[v] # pc[v] => /\ pc[v] \in {"none", "test", "pop", "ended"}
                                             /\ pc'[v] \in {"none", "test", "pop", "ended"}
  PROVE  JobsOK'
<1>1. JobsOK
  BY DEF PlacesInv
<1>2. \A v \in Worker : (Busy(v)' \/ pc'[v] = "finally") <=> (Busy(v) \/ pc[v] = "finally")
  BY DEF Busy
<1>3. \A v \in Worker : pc'[v] \in {"redirect", "execute", "finish", "finally"} => pc'[v] = pc[v]
  OBVIOUS
<1> QED BY <1>1, <1>2, <1>3 DEF JobsOK

\* An item that is pushed is in one queue, or dropped as an equal check.
LEMMA PushItems ==
  ASSUME TagsApart, PlacesInv, NEW x \in Work, status[x] = "new", Push(x),
         UNCHANGED <<pc, home, tag, job>>
  PROVE  PlacesInv'
<1>1. /\ QueuesInv'
      /\ \E t \in Used :
            /\ t = RealTag(x) /\ QueueOf(t)' = PushTo(x, QueueOf(t))
            /\ \A u \in Used \ {t} : QueueOf(u)' = QueueOf(u)
            /\ status' = [status EXCEPT ![x] =
                             IF Coalesced(x, QueueOf(t)) THEN "dropped" ELSE "queued"]
  BY PushQueue DEF PlacesInv
<1> PICK t \in Used :
            /\ QueueOf(t)' = PushTo(x, QueueOf(t))
            /\ \A u \in Used \ {t} : QueueOf(u)' = QueueOf(u)
            /\ status' = [status EXCEPT ![x] =
                             IF Coalesced(x, QueueOf(t)) THEN "dropped" ELSE "queued"]
  BY <1>1
<1>2. ItemsOK /\ JobsOK /\ TypeOK /\ (\A u \in Used : QueueOf(u) \in Seq(Work))
  BY QueueType DEF PlacesInv, QueuesInv
<1>3. PICK c \in {"dropped", "queued"} : /\ c = IF Coalesced(x, QueueOf(t)) THEN "dropped" ELSE "queued"
                                         /\ \A y \in Work : status'[y] = IF y = x THEN c ELSE status[y]
  BY <1>2 DEF TypeOK
<1>4. JobsOK'
  <2>1. \A v \in Worker : job[v] # None => job[v] \in Work /\ job[v] # x
    BY <1>2, JobStatus
  <2>2. \A v \in Worker : pc[v] \in {"redirect", "execute", "finish", "finally"} => job[v] # None
    BY <1>2 DEF JobsOK, Busy
  <2>3. \A v \in Worker : /\ pc[v] = "redirect" => status'[job[v]] = "taken"
                          /\ pc[v] = "execute" => status'[job[v]] = "running"
                          /\ pc[v] \in {"finish", "finally"} => status'[job[v]] = "ran"
    BY <1>2, <1>3, <2>1, <2>2 DEF JobsOK
  <2>4. \A y \in Work : status'[y] \in {"taken", "running", "ran"} => \E v \in Worker : job[v] = y
    BY <1>2, <1>3 DEF JobsOK
  <2> QED BY <1>2, <2>3, <2>4 DEF JobsOK, Busy
<1>5. \A u \in Used : \A i \in DOMAIN QueueOf(u) :
         QueueOf(u)[i] \in Work /\ status[QueueOf(u)[i]] = "queued" /\ QueueOf(u)[i] # x
  BY <1>2 DEF ItemsOK
<1>6. CASE Coalesced(x, QueueOf(t))
  <2>1. \A u \in Used : QueueOf(u)' = QueueOf(u)
    BY <1>6 DEF PushTo
  <2>2. \A y \in Work : status'[y] = "queued" <=> status[y] = "queued"
    BY <1>3, <1>6
  <2> QED BY <1>1, <1>4, <2>1, <2>2, ItemsKept DEF PlacesInv
<1>7. CASE ~Coalesced(x, QueueOf(t))
  <2> DEFINE q == QueueOf(t)
             n == Len(q) + 1
  <2>1. QueueOf(t)' = Append(q, x) /\ q \in Seq(Work) /\ c = "queued"
    BY <1>2, <1>3, <1>7 DEF PushTo
  <2>2. /\ DOMAIN QueueOf(t)' = DOMAIN q \cup {n} /\ n \notin DOMAIN q /\ QueueOf(t)'[n] = x
        /\ \A i \in DOMAIN q : QueueOf(t)'[i] = q[i]
    BY <2>1
  <2> HIDE DEF q, n
  <2>3. \A u \in Used : \A i \in DOMAIN QueueOf(u)' :
           \/ u = t /\ i = n /\ QueueOf(u)'[i] = x
           \/ i \in DOMAIN QueueOf(u) /\ QueueOf(u)'[i] = QueueOf(u)[i]
    BY <2>2 DEF q
  <2>4. \A u \in Used : \A i \in DOMAIN QueueOf(u)' : status'[QueueOf(u)'[i]] = "queued"
    BY <1>3, <1>5, <2>1, <2>3
  <2>5. \A u, v \in Used : \A i \in DOMAIN QueueOf(u)', j \in DOMAIN QueueOf(v)' :
            QueueOf(u)'[i] = QueueOf(v)'[j] => u = v /\ i = j
    BY <1>2, <1>5, <2>3 DEF ItemsOK
  <2>6. ASSUME NEW y \in Work, status'[y] = "queued"
        PROVE  \E u \in Used : \E i \in DOMAIN QueueOf(u)' : QueueOf(u)'[i] = y
    <3>1. CASE y = x
      BY <2>2, <3>1
    <3>2. CASE y # x
      <4>1. PICK u \in Used : \E i \in DOMAIN QueueOf(u) : QueueOf(u)[i] = y
        BY <1>2, <1>3, <2>6, <3>2 DEF ItemsOK
      <4>2. PICK i \in DOMAIN QueueOf(u) : QueueOf(u)[i] = y
        BY <4>1
      <4>3. i \in DOMAIN QueueOf(u)' /\ QueueOf(u)'[i] = y
        BY <2>2, <4>2 DEF q
      <4> QED BY <4>3
    <3> QED BY <3>1, <3>2
  <2> QED BY <1>1, <1>4, <2>4, <2>5, <2>6 DEF PlacesInv, ItemsOK
<1> QED BY <1>6, <1>7

\* One that is popped is with one worker.
LEMMA PopItems ==
  ASSUME TagsApart, PlacesInv, NEW w \in Worker, Pop(w)
  PROVE  PlacesInv'
<1>1. /\ QueuesInv'
      /\ \E t \in Used :
            /\ QueueOf(t) # <<>>
            /\ job' = [job EXCEPT ![w] = Head(QueueOf(t))]
            /\ status' = [status EXCEPT ![Head(QueueOf(t))] = "taken"]
            /\ QueueOf(t)' = Tail(QueueOf(t))
            /\ \A u \in Used \ {t} : QueueOf(u)' = QueueOf(u)
  BY PopQueue DEF PlacesInv
<1> PICK t \in Used :
            /\ QueueOf(t) # <<>>
            /\ job' = [job EXCEPT ![w] = Head(QueueOf(t))]
            /\ status' = [status EXCEPT ![Head(QueueOf(t))] = "taken"]
            /\ QueueOf(t)' = Tail(QueueOf(t))
            /\ \A u \in Used \ {t} : QueueOf(u)' = QueueOf(u)
  BY <1>1
<1>2. ItemsOK /\ JobsOK /\ TypeOK /\ (\A u \in Used : QueueOf(u) \in Seq(Work))
  BY QueueType DEF PlacesInv, QueuesInv
<1> DEFINE q == QueueOf(t)
<1>3. /\ 1 \in DOMAIN q /\ Head(q) = q[1] /\ DOMAIN q = 1 .. Len(q) /\ Len(q) \in Nat \ {0}
      /\ DOMAIN Tail(q) = 1 .. (Len(q) - 1) /\ \A i \in 1 .. (Len(q) - 1) : Tail(q)[i] = q[i + 1]
  BY <1>2
<1> HIDE DEF q
<1> PICK x \in Work : x = Head(q)
  BY <1>2, <1>3 DEF q
<1>4. pc[w] = "pop" /\ job[w] = None /\ status[x] = "queued"
  BY <1>2, <1>3 DEF Pop, JobsOK, Busy, ItemsOK, q
<1>5. /\ \A v \in Worker : pc'[v] = IF v = w THEN "redirect" ELSE pc[v]
      /\ \A v \in Worker : job'[v] = IF v = w THEN x ELSE job[v]
      /\ \A y \in Work : status'[y] = IF y = x THEN "taken" ELSE status[y]
  BY <1>2 DEF TypeOK, Pop, q
<1>6. JobsOK'
  <2>1. \A v \in Worker : job[v] # None => job[v] \in Work /\ job[v] # x
    BY <1>2, <1>4, JobStatus
  <2>2. \A v \in Worker : pc[v] \in {"redirect", "execute", "finish", "finally"} => job[v] # None
    BY <1>2 DEF JobsOK, Busy
  <2>3. \A v \in Worker : job'[v] # None <=> Busy(v)' \/ pc'[v] = "finally"
    BY <1>2, <1>5, NoneIsNone DEF JobsOK, Busy
  <2>4. \A v \in Worker : /\ pc'[v] = "redirect" => status'[job'[v]] = "taken"
                          /\ pc'[v] = "execute" => status'[job'[v]] = "running"
                          /\ pc'[v] \in {"finish", "finally"} => status'[job'[v]] = "ran"
    BY <1>2, <1>5, <2>1, <2>2 DEF JobsOK
  <2>5. \A u, v \in Worker : job'[v] # None /\ job'[v] = job'[u] => v = u
    BY <1>2, <1>5, <2>1, NoneIsNone DEF JobsOK
  <2>6. \A y \in Work : status'[y] \in {"taken", "running", "ran"} => \E v \in Worker : job'[v] = y
    BY <1>2, <1>4, <1>5, NoneIsNone DEF JobsOK
  <2> QED BY <2>3, <2>4, <2>5, <2>6 DEF JobsOK
<1>7. \A u \in Used : \A i \in DOMAIN QueueOf(u) :
         QueueOf(u)[i] \in Work /\ (QueueOf(u)[i] = x => u = t /\ i = 1)
  BY <1>2, <1>3 DEF ItemsOK, q
<1>8. /\ \A i \in DOMAIN QueueOf(t)' : i \in Nat /\ i + 1 \in DOMAIN q /\ QueueOf(t)'[i] = q[i + 1]
      /\ \A j \in DOMAIN q \ {1} : j - 1 \in DOMAIN QueueOf(t)' /\ QueueOf(t)'[j - 1] = q[j]
  BY <1>3 DEF q
<1>9. ASSUME NEW u \in Used, NEW i \in DOMAIN QueueOf(u)' PROVE status'[QueueOf(u)'[i]] = "queued"
  <2>1. CASE u = t
    BY <1>2, <1>5, <1>7, <1>8, <2>1 DEF ItemsOK, q
  <2>2. CASE u # t
    BY <1>2, <1>5, <1>7, <2>2 DEF ItemsOK
  <2> QED BY <2>1, <2>2
<1>10. ASSUME NEW u \in Used, NEW v \in Used, NEW i \in DOMAIN QueueOf(u)', NEW j \in DOMAIN QueueOf(v)',
              QueueOf(u)'[i] = QueueOf(v)'[j]
       PROVE  u = v /\ i = j
  <2>1. CASE u = t /\ v = t
    BY <1>2, <1>8, <1>10, <2>1 DEF ItemsOK, q
  <2>2. CASE u = t /\ v # t
    BY <1>2, <1>8, <1>10, <2>2 DEF ItemsOK, q
  <2>3. CASE u # t /\ v = t
    BY <1>2, <1>8, <1>10, <2>3 DEF ItemsOK, q
  <2>4. CASE u # t /\ v # t
    BY <1>2, <1>10, <2>4 DEF ItemsOK
  <2> QED BY <2>1, <2>2, <2>3, <2>4
<1>11. ASSUME NEW y \in Work, status'[y] = "queued"
       PROVE  \E u \in Used : \E i \in DOMAIN QueueOf(u)' : QueueOf(u)'[i] = y
  <2>1. y # x /\ status[y] = "queued"
    BY <1>5, <1>11
  <2>2. PICK u \in Used : \E i \in DOMAIN QueueOf(u) : QueueOf(u)[i] = y
    BY <1>2, <2>1 DEF ItemsOK
  <2>3. PICK i \in DOMAIN QueueOf(u) : QueueOf(u)[i] = y
    BY <2>2
  <2>4. CASE u = t
    <3>1. i # 1
      BY <1>3, <2>1, <2>3, <2>4 DEF q
    <3>2. i - 1 \in DOMAIN QueueOf(u)' /\ QueueOf(u)'[i - 1] = y
      BY <1>8, <2>3, <2>4, <3>1 DEF q
    <3> QED BY <3>2
  <2>5. CASE u # t
    BY <2>3, <2>5
  <2> QED BY <2>4, <2>5
<1> QED BY <1>1, <1>6, <1>9, <1>10, <1>11 DEF PlacesInv, ItemsOK

\* The other steps of a worker move queues and end items.
LEMMA WorkerItems ==
  ASSUME TagsApart, PlacesInv, NEW w \in Worker,
         WorkerStep(w) \/ \E x \in Work : Expire(w, x)
  PROVE  PlacesInv'
<1>1. TypeOK /\ QueuesInv /\ JobsOK
  BY DEF PlacesInv, QueuesInv
<1>2. CASE \E x \in Work : PushAtom(w, x)
  BY <1>2, PushItems DEF PushAtom, poolVars, threadVars
<1>3. CASE Pop(w)
  BY <1>3, PopItems
<1>4. CASE Redirect(w)
  <2>1. job[w] # None /\ job[w] \in Work
    BY <1>1, <1>4 DEF Redirect, JobsOK, Busy, TypeOK
  <2>2. JobsOK' /\ \A x \in Work : status'[x] = "queued" <=> status[x] = "queued"
    <3>1. job' = job /\ pc' = [pc EXCEPT ![w] = "execute"] /\ status' = [status EXCEPT ![job[w]] = "running"]
      BY <1>4 DEF Redirect
    <3> QED BY <2>1, <3>1, JobMoved
  <2> QED BY <1>1, <1>4, <2>1, <2>2, RedirectQueue, ItemsKept DEF PlacesInv
<1>5. CASE Finished(w)
  <2>1. job[w] # None /\ job[w] \in Work /\ status[job[w]] = "ran"
    BY <1>1, <1>5 DEF Finished, JobsOK, Busy, TypeOK
  <2>2. status' = [status EXCEPT ![job[w]] = "ran"] /\ job' = job /\ pc' = [pc EXCEPT ![w] = "finally"]
    BY <1>1, <1>5, <2>1 DEF Finished, history, TypeOK
  <2>3. JobsOK' /\ \A x \in Work : status'[x] = "queued" <=> status[x] = "queued"
    BY <2>1, <2>2, JobMoved
  <2> QED BY <1>1, <1>5, <2>3, FinishedQueue, ItemsKept DEF PlacesInv
<1>6. CASE Executed(w)
  <2>1. job[w] # None
    BY <1>1, <1>6 DEF Executed, JobsOK, Busy
  <2>2. JobsOK' /\ \A x \in Work : status'[x] = "queued" <=> status[x] = "queued"
    <3>1. job' = job /\ pc' = [pc EXCEPT ![w] = "finish"] /\ status' = [status EXCEPT ![job[w]] = "ran"]
      BY <1>6 DEF Executed
    <3> QED BY <2>1, <3>1, JobMoved
  <2> QED BY <1>6, <2>2, OwnStepQueue, ItemsKept DEF PlacesInv
<1>7. CASE Finally(w)
  <2>1. job[w] # None /\ job[w] \in Work /\ status[job[w]] = "ran" /\ pc[w] = "finally"
    BY <1>1, <1>7 DEF Finally, JobsOK, Busy, TypeOK
  <2>2. /\ \A v \in Worker : pc'[v] = IF v = w THEN "test" ELSE pc[v]
        /\ \A v \in Worker : job'[v] = IF v = w THEN None ELSE job[v]
        /\ \A x \in Work : status'[x] = IF x = job[w] THEN "done" ELSE status[x]
    BY <1>1, <1>7, <2>1 DEF TypeOK, Finally
  <2>3. \A v \in Worker : job'[v] # None <=> Busy(v)' \/ pc'[v] = "finally"
    BY <1>1, <2>2 DEF JobsOK, Busy
  <2>4. ASSUME NEW v \in Worker, pc'[v] \in {"redirect", "execute", "finish", "finally"}
        PROVE  pc'[v] = pc[v] /\ job'[v] = job[v] /\ status'[job'[v]] = status[job[v]]
    <3>1. v # w /\ job[v] # None
      BY <1>1, <2>2, <2>4 DEF JobsOK, Busy
    <3>2. job[v] # job[w] /\ job[v] \in Work
      BY <1>1, <3>1 DEF JobsOK, TypeOK
    <3> QED BY <2>2, <3>1, <3>2
  <2>5. /\ \A u, v \in Worker : job'[v] # None /\ job'[v] = job'[u] => v = u
        /\ \A x \in Work : status'[x] \in {"taken", "running", "ran"} => \E v \in Worker : job'[v] = x
    BY <1>1, <2>1, <2>2 DEF JobsOK
  <2>6. JobsOK'
    BY <1>1, <2>3, <2>4, <2>5 DEF JobsOK
  <2>7. \A x \in Work : status'[x] = "queued" <=> status[x] = "queued"
    BY <2>1, <2>2
  <2> QED BY <1>7, <2>6, <2>7, OwnStepQueue, ItemsKept DEF PlacesInv
<1>8. CASE Test(w) \/ SetAlias(w) \/ EndChunk(w) \/ \E x \in Work : Expire(w, x)
  <2>1. UNCHANGED <<job, status>>
    BY <1>8 DEF Test, SetAlias, EndChunk, Expire, history
  <2>2. \A v \in Worker : pc'[v] # pc[v] => pc[v] = "test" /\ pc'[v] \in {"ended", "pop"}
    <3>1. CASE Test(w)
      BY <1>1, <3>1 DEF Test, TypeOK
    <3> QED BY <1>8, <3>1 DEF SetAlias, EndChunk, Expire
  <2>3. JobsOK'
    BY <2>1, <2>2, JobsKept
  <2> QED BY <1>8, <2>1, <2>3, OwnStepQueue, ItemsKept DEF PlacesInv
<1> QED BY <1>2, <1>3, <1>4, <1>5, <1>6, <1>7, <1>8 DEF WorkerStep

\* All items are new at first.
LEMMA PlacesInitial ==
  ASSUME TagsApart, Init
  PROVE  PlacesInv
<1>1. \A w \in Worker : w \in InPool => home[w] \in Redirector
  <2> SUFFICES ASSUME NEW w \in Worker, w \in InPool PROVE home[w] \in Redirector
    OBVIOUS
  <2> DEFINE n == Len(Redirectors)
  <2>1. n \in Nat /\ DOMAIN Redirectors = 1 .. n /\ StartSize \in Nat
    BY WorkAssumption
  <2> HIDE DEF n
  <2>2. w \in 1 .. StartSize * n
    BY DEF Init, InPool, n
  <2>3. n # 0
    BY <2>1, <2>2
  <2>4. w \in Nat /\ w - 1 \in Nat /\ (w - 1) % n \in 0 .. (n - 1)
    BY <2>1, <2>3, <2>2
  <2>5. 1 + ((w - 1) % n) \in DOMAIN Redirectors
    BY <2>1, <2>4
  <2>6. home[w] = Redirectors[1 + ((w - 1) % n)]
    BY DEF Init, n
  <2> QED BY <2>5, <2>6 DEF Redirector
<1>2. \A w \in Worker : pc[w] \in {"test", "none"} /\ job[w] = None /\ private[w] = <<>>
  BY DEF Init
<1>3. TypeOK
  <2>1. home \in [Worker -> Redirector \cup {None}]
    BY <1>1 DEF Init
  <2>2. pc \in [Worker -> PCs]
    BY DEF Init, PCs
  <2>3. /\ qs \in [Redirector -> [Tag -> Seq(Work)]] /\ private \in [Worker -> Seq(Work)]
        /\ overrides \in [Tag -> Worker \cup {None}] /\ aliases \in [Tag -> Tag \cup {None}]
        /\ job \in [Worker -> Work \cup {None}]
    BY DEF Init
  <2>4. /\ last \in [Redirector -> 0 .. NTags] /\ tag \in [Worker -> 0 .. NTags]
        /\ status \in [Work -> Statuses]
    BY NoneIsNone DEF Init, Statuses
  <2> QED BY <2>1, <2>2, <2>3, <2>4 DEF TypeOK
<1>4. TagsOK
  <2>1. \A w \in Worker : pc[w] # "none" => home[w] \in Redirector
    BY <1>1 DEF Init
  <2>2. \A w \in Worker : ~Busy(w) /\ ~Holding(w)
    BY <1>2 DEF Busy, Holding
  <2>3. \A t \in Tag, w \in Worker : overrides[t] # w
    BY NoneIsNone DEF Init
  <2> QED BY <2>1, <2>2, <2>3 DEF TagsOK
<1>5. AliasesOK /\ OthersEmpty
  BY <1>2 DEF Init, AliasesOK, OthersEmpty
<1>6. \A x \in Work : status[x] = "new"
  BY DEF Init
<1>7. \A r \in Redirector, t \in Tag : qs[r][t] = <<>> /\ overrides[t] = None
  BY DEF Init
<1>8. ASSUME NEW t \in Used PROVE DOMAIN QueueOf(t) = {}
  <2>1. t \in Tag /\ HomeOf(t) \in Redirector
    BY UsedTags
  <2> QED BY <1>7, <2>1 DEF QueueOf
<1>9. ItemsOK /\ JobsOK
  BY <1>2, <1>6, <1>8 DEF ItemsOK, JobsOK, Busy
<1> QED BY <1>3, <1>4, <1>5, <1>9 DEF PlacesInv, QueuesInv

\* The invariant is inductive.
LEMMA PlacesStep ==
  ASSUME TagsApart, PlacesInv, [Next]_vars
  PROVE  PlacesInv'
<1>1. CASE \E x \in Work : Submit(x)
  BY <1>1, PushItems DEF Submit, poolVars, threadVars
<1>2. CASE \E w \in Worker : WorkerStep(w) \/ \E x \in Work : Expire(w, x)
  BY <1>2, WorkerItems
<1>3. CASE (\E s \in Setter : SetterStep(s)) \/ UNCHANGED vars
  <2>1. /\ QueuesInv' /\ (\A u \in Used : QueueOf(u)' = QueueOf(u)) /\ UNCHANGED <<job, status>>
        /\ \A v \in Worker : pc'[v] # pc[v] => pc[v] = "none" /\ pc'[v] = "test"
    BY <1>3, SetterQueue DEF PlacesInv
  <2>2. JobsOK'
    BY <2>1, JobsKept
  <2>3. ItemsOK'
    BY <2>1, ItemsKept
  <2> QED BY <2>1, <2>2, <2>3 DEF PlacesInv
<1> QED BY <1>1, <1>2, <1>3 DEF Next

\* The places of an item, one kind after the other.
InShared(x, p)  == \E r \in Redirector, t \in Tag : \E i \in DOMAIN qs[r][t] : p = <<r, t, i>> /\ qs[r][t][i] = x
InPrivate(x, p) == \E w \in Worker : \E i \in DOMAIN private[w] : p = <<w, i>> /\ private[w][i] = x
AtWorker(x, p)  == \E w \in Worker : p = <<w>> /\ job[w] = x

\* The places of an item, by kind.
LEMMA PlaceKinds ==
  ASSUME NEW x, NEW p
  PROVE  p \in Places(x) <=> InShared(x, p) \/ InPrivate(x, p) \/ AtWorker(x, p)
<1> DEFINE a(r, t) == {<<r, t, i>> : i \in Positions(qs[r][t], x)}
           row(r) == UNION {a(r, t) : t \in Tag}
           b(w) == {<<w, i>> : i \in Positions(private[w], x)}
           A == UNION {row(r) : r \in Redirector}
           B == UNION {b(w) : w \in Worker}
           C == {<<w>> : w \in {v \in Worker : job[v] = x}}
<1>1. \A r, t : p \in a(r, t) <=> \E i \in DOMAIN qs[r][t] : p = <<r, t, i>> /\ qs[r][t][i] = x
  BY DEF Positions
<1>2. \A w : p \in b(w) <=> \E i \in DOMAIN private[w] : p = <<w, i>> /\ private[w][i] = x
  BY DEF Positions
<1>3. p \in C <=> AtWorker(x, p)
  BY DEF AtWorker
<1>4. Places(x) = A \cup B \cup C
  BY Zenon DEF Places
<1> HIDE DEF a, b, C
<1>5. \A r : p \in row(r) <=> \E t \in Tag : p \in a(r, t)
  BY Zenon
<1> HIDE DEF row
<1>6. p \in A <=> \E r \in Redirector : p \in row(r)
  BY Zenon
<1>7. p \in B <=> \E w \in Worker : p \in b(w)
  BY Zenon
<1> HIDE DEF A, B
<1>8. p \in A <=> InShared(x, p)
  BY <1>1, <1>5, <1>6 DEF InShared
<1>9. p \in B <=> InPrivate(x, p)
  BY <1>2, <1>7 DEF InPrivate
<1> QED BY <1>3, <1>4, <1>8, <1>9

\* An item under way has one.
LEMMA OnePlace ==
  ASSUME TagsApart, PlacesInv, NEW x \in Work, status[x] \in {"queued", "taken", "running", "ran"}
  PROVE  \E p \in Places(x) : Places(x) = {p}
<1>1. TypeOK /\ TagsOK /\ OthersEmpty /\ ItemsOK /\ JobsOK
  BY DEF PlacesInv, QueuesInv
<1>2. ASSUME NEW r \in Redirector, NEW t \in Tag, NEW i \in DOMAIN qs[r][t], qs[r][t][i] = x
      PROVE  t \in Used /\ r = HomeOf(t) /\ overrides[t] = None /\ i \in DOMAIN QueueOf(t) /\ QueueOf(t)[i] = x
  <2>1. qs[r][t] # <<>>
    OBVIOUS
  <2> QED BY <1>1, <1>2, <2>1 DEF OthersEmpty, QueueOf
<1>3. ASSUME NEW w \in Worker, NEW i \in DOMAIN private[w], private[w][i] = x
      PROVE  /\ tag[w] \in Used /\ overrides[tag[w]] = w
             /\ i \in DOMAIN QueueOf(tag[w]) /\ QueueOf(tag[w])[i] = x
  <2>1. private[w] # <<>>
    OBVIOUS
  <2>2. Holding(w) /\ Busy(w)
    BY <1>1, <2>1 DEF OthersEmpty, Holding, Busy
  <2>3. tag[w] \in Used /\ tag[w] \in Tag
    BY <1>1, <2>2, UsedTags DEF TagsOK
  <2>4. overrides[tag[w]] = w
    BY <1>1, <2>2, <2>3 DEF TagsOK
  <2> QED BY <1>3, <2>3, <2>4, NoneIsNone DEF QueueOf
<1>4. CASE status[x] = "queued"
  <2>1. PICK t \in Used : \E i \in DOMAIN QueueOf(t) : QueueOf(t)[i] = x
    BY <1>1, <1>4 DEF ItemsOK
  <2>2. PICK i \in DOMAIN QueueOf(t) : QueueOf(t)[i] = x
    BY <2>1
  <2>3. \A u \in Used : \A j \in DOMAIN QueueOf(u) : QueueOf(u)[j] = x => u = t /\ j = i
    BY <1>1, <2>2 DEF ItemsOK
  <2>4. \A w \in Worker : job[w] # x
    BY <1>1, <1>4, JobStatus, NoneIsNone
  <2>5. t \in Tag /\ HomeOf(t) \in Redirector /\ overrides[t] \in Worker \cup {None}
    BY <1>1, UsedTags DEF TypeOK
  <2>6. CASE overrides[t] = None
    <3> DEFINE p == <<HomeOf(t), t, i>>
    <3>1. InShared(x, p)
      BY <2>2, <2>5, <2>6 DEF InShared, QueueOf
    <3>2. ASSUME NEW o, o \in Places(x) PROVE o = p
      <4>1. ~InPrivate(x, o)
        BY <1>3, <2>3, <2>6, NoneIsNone DEF InPrivate
      <4>2. ~AtWorker(x, o)
        BY <2>4 DEF AtWorker
      <4>3. InShared(x, o)
        BY <3>2, <4>1, <4>2, PlaceKinds
      <4>4. PICK r \in Redirector, u \in Tag : \E j \in DOMAIN qs[r][u] : o = <<r, u, j>> /\ qs[r][u][j] = x
        BY <4>3 DEF InShared
      <4>5. PICK j \in DOMAIN qs[r][u] : o = <<r, u, j>> /\ qs[r][u][j] = x
        BY <4>4
      <4>6. u = t /\ j = i /\ r = HomeOf(t)
        BY <1>2, <2>3, <4>5
      <4> QED BY <4>5, <4>6
    <3>3. p \in Places(x)
      BY <3>1, PlaceKinds
    <3> HIDE DEF p
    <3> QED BY <3>2, <3>3
  <2>7. CASE overrides[t] # None
    <3> PICK w \in Worker : w = overrides[t]
      BY <2>5, <2>7
    <3> DEFINE p == <<w, i>>
    <3>1. InPrivate(x, p)
      BY <2>2, <2>7 DEF InPrivate, QueueOf
    <3>2. ASSUME NEW o, o \in Places(x) PROVE o = p
      <4>1. ~InShared(x, o)
        BY <1>2, <2>3, <2>7 DEF InShared
      <4>2. ~AtWorker(x, o)
        BY <2>4 DEF AtWorker
      <4>3. InPrivate(x, o)
        BY <3>2, <4>1, <4>2, PlaceKinds
      <4>4. PICK v \in Worker : \E j \in DOMAIN private[v] : o = <<v, j>> /\ private[v][j] = x
        BY <4>3 DEF InPrivate
      <4>5. PICK j \in DOMAIN private[v] : o = <<v, j>> /\ private[v][j] = x
        BY <4>4
      <4>6. j = i /\ v = w
        BY <1>3, <2>3, <4>5
      <4> QED BY <4>5, <4>6
    <3>3. p \in Places(x)
      BY <3>1, PlaceKinds
    <3> HIDE DEF p
    <3> QED BY <3>2, <3>3
  <2> QED BY <2>6, <2>7
<1>5. CASE status[x] # "queued"
  <2>1. PICK w \in Worker : job[w] = x
    BY <1>1, <1>5 DEF JobsOK
  <2>2. \A t \in Used : \A i \in DOMAIN QueueOf(t) : QueueOf(t)[i] # x
    BY <1>1, <1>5 DEF ItemsOK
  <2>3. <<w>> \in Places(x)
    BY <2>1, PlaceKinds DEF AtWorker
  <2>4. ASSUME NEW o, o \in Places(x) PROVE o = <<w>>
    <3>1. ~InShared(x, o)
      BY <1>2, <2>2 DEF InShared
    <3>2. ~InPrivate(x, o)
      BY <1>3, <2>2 DEF InPrivate
    <3>3. PICK v \in Worker : o = <<v>> /\ job[v] = x
      BY <2>4, <3>1, <3>2, PlaceKinds DEF AtWorker
    <3>4. v = w
      BY <1>1, <2>1, <3>3, NoneIsNone DEF JobsOK
    <3> QED BY <3>3, <3>4
  <2> QED BY <2>3, <2>4
<1> QED BY <1>4, <1>5

\* If items with one tag are pushed to one redirector, no item is lost or
\* doubled on its way from the redirector's queue to a worker's private queue
\* and back, whatever the number of workers and whatever aliases are set up.
THEOREM NoItemLost ==
  ASSUME TagsApart
  PROVE  Spec => []NothingLost
<1>1. Init => PlacesInv
  BY PlacesInitial
<1>2. PlacesInv /\ [Next]_vars => PlacesInv'
  BY PlacesStep
<1>3. PlacesInv => NothingLost
  <2> SUFFICES ASSUME PlacesInv PROVE NothingLost
    OBVIOUS
  <2>1. \A w \in Worker : private[w] # <<>> => pc[w] \in {"execute", "finish"}
    BY DEF PlacesInv, QueuesInv, OthersEmpty, Holding
  <2> QED BY <2>1, OnePlace DEF NothingLost
<1> QED BY <1>1, <1>2, <1>3, PTL DEF Spec

-----------------------------------------------------------------------------
(* Checks that were coalesced away *)

Fresh(x) == status[x] \in {"queued", "taken"}

\* A check that is dropped has an equal one before it in its queue.
LEMMA PushCovers ==
  ASSUME TagsApart, PlacesInv, CheckCovered, NEW x \in Work, status[x] = "new", Push(x),
         UNCHANGED <<pc, home, tag, job>>
  PROVE  CheckCovered'
<1>1. PICK t \in Used : status' = [status EXCEPT ![x] =
                                     IF Coalesced(x, QueueOf(t)) THEN "dropped" ELSE "queued"]
  BY PushQueue DEF PlacesInv
<1>2. ItemsOK /\ TypeOK /\ QueueOf(t) \in Seq(Work)
  BY QueueType DEF PlacesInv, QueuesInv
<1>3. /\ \A y \in Work \ {x} : status'[y] = status[y]
      /\ status'[x] = IF Coalesced(x, QueueOf(t)) THEN "dropped" ELSE "queued"
  BY <1>1, <1>2 DEF TypeOK
<1>4. \A c \in due' : c \in due \/ c = Check[x]
  BY DEF Push
<1>5. ASSUME NEW c \in due PROVE \E y \in Work : Check[y] = c /\ Fresh(y)'
  <2>1. PICK y \in Work : Check[y] = c /\ Fresh(y)
    BY DEF CheckCovered, Fresh
  <2> QED BY <1>3, <2>1 DEF Fresh
<1>6. \E y \in Work : Check[y] = Check[x] /\ Fresh(y)'
  <2>1. CASE Coalesced(x, QueueOf(t))
    <3>1. PICK i \in DOMAIN QueueOf(t) : Check[QueueOf(t)[i]] = Check[x]
      BY <2>1 DEF Coalesced
    <3>2. QueueOf(t)[i] \in Work /\ status[QueueOf(t)[i]] = "queued"
      BY <1>2 DEF ItemsOK
    <3>3. status'[QueueOf(t)[i]] = "queued"
      BY <1>3, <3>2
    <3> QED BY <3>1, <3>2, <3>3 DEF Fresh
  <2>2. CASE ~Coalesced(x, QueueOf(t))
    BY <1>3, <2>2 DEF Fresh
  <2> QED BY <2>1, <2>2
<1> QED BY <1>4, <1>5, <1>6 DEF CheckCovered, Fresh

\* A check that is popped has yet to begin.
LEMMA PopCovers ==
  ASSUME TagsApart, PlacesInv, CheckCovered, NEW w \in Worker, Pop(w)
  PROVE  CheckCovered'
<1>1. PICK t \in Used : QueueOf(t) # <<>> /\ status' = [status EXCEPT ![Head(QueueOf(t))] = "taken"]
  BY PopQueue DEF PlacesInv
<1>2. TypeOK /\ QueueOf(t) \in Seq(Work)
  BY QueueType DEF PlacesInv, QueuesInv
<1> PICK x \in Work : x = Head(QueueOf(t))
  BY <1>1, <1>2
<1>3. \A y \in Work : status'[y] = IF y = x THEN "taken" ELSE status[y]
  BY <1>1, <1>2 DEF TypeOK
<1>4. due' = due
  BY DEF Pop
<1> QED BY <1>3, <1>4 DEF CheckCovered

\* A worker's step changes the state of its own item only.
LEMMA WorkerCovers ==
  ASSUME TagsApart, PlacesInv, CheckCovered, NEW w \in Worker,
         WorkerStep(w) \/ \E x \in Work : Expire(w, x)
  PROVE  CheckCovered'
<1>1. TypeOK /\ JobsOK
  BY DEF PlacesInv, QueuesInv
<1>2. CASE \E x \in Work : PushAtom(w, x)
  BY <1>2, PushCovers DEF PushAtom, poolVars, threadVars
<1>3. CASE Pop(w)
  BY <1>3, PopCovers
<1>4. CASE Redirect(w)
  <2>1. due' = due \ {Check[job[w]]} /\ status' = [status EXCEPT ![job[w]] = "running"]
    BY <1>4 DEF Redirect
  <2>2. ASSUME NEW c \in due' PROVE \E y \in Work : Check[y] = c /\ status'[y] \in {"queued", "taken"}
    <3>1. PICK y \in Work : Check[y] = c /\ status[y] \in {"queued", "taken"}
      BY <2>1 DEF CheckCovered
    <3>2. y # job[w]
      BY <2>1, <3>1
    <3>3. status'[y] = status[y]
      BY <1>1, <2>1, <3>2 DEF TypeOK
    <3> QED BY <3>1, <3>3
  <2> QED BY <2>2 DEF CheckCovered
<1>5. CASE Executed(w) \/ Finally(w)
  <2>1. job[w] \in Work /\ status[job[w]] \in {"running", "ran"}
    BY <1>1, <1>5 DEF Executed, Finally, JobsOK, TypeOK, Busy
  <2>2. due' = due /\ \E c : status' = [status EXCEPT ![job[w]] = c]
    BY <1>5 DEF Executed, Finally
  <2>3. \A y \in Work : status[y] \in {"queued", "taken"} => status'[y] = status[y]
    BY <1>1, <2>1, <2>2 DEF TypeOK
  <2> QED BY <2>2, <2>3 DEF CheckCovered
<1>6. CASE \/ Finished(w) \/ Test(w) \/ SetAlias(w) \/ EndChunk(w) \/ \E x \in Work : Expire(w, x)
  <2>1. UNCHANGED <<due, status>>
    BY <1>6 DEF Finished, Test, SetAlias, EndChunk, Expire, history
  <2> QED BY <2>1 DEF CheckCovered
<1> QED BY <1>2, <1>3, <1>4, <1>5, <1>6 DEF WorkerStep

\* A check that was dropped because one like it waits is made up for.
THEOREM ChecksMadeUp ==
  ASSUME TagsApart
  PROVE  Spec => []CheckCovered
<1> DEFINE I == PlacesInv /\ CheckCovered
<1>1. Init => I
  BY PlacesInitial DEF Init, CheckCovered
<1>2. I /\ [Next]_vars => I'
  <2> SUFFICES ASSUME PlacesInv, CheckCovered, [Next]_vars PROVE PlacesInv' /\ CheckCovered'
    OBVIOUS
  <2>1. CASE \E x \in Work : Submit(x)
    BY <2>1, PushCovers, PlacesStep DEF Submit, poolVars, threadVars
  <2>2. CASE (\E s \in Setter : SetterStep(s)) \/ UNCHANGED vars
    <3>1. UNCHANGED <<due, status>>
      BY <2>2, SetterQueue DEF PlacesInv
    <3> QED BY <3>1, PlacesStep DEF CheckCovered
  <2> QED BY <2>1, <2>2, PlacesStep, WorkerCovers DEF Next
<1>3. I => CheckCovered
  OBVIOUS
<1> QED BY <1>1, <1>2, <1>3, PTL DEF Spec

-----------------------------------------------------------------------------
(* The order of the items of a tag *)

Plain(x)     == ~IsAtom(x)
InOrder(x, y) == x < y /\ TagOf[x] = TagOf[y] /\ Plain(x) /\ Plain(y)
Begun        == {"taken", "running", "ran", "done"}
Over         == {"dropped", "ran", "done"}

SerialOK ==
    /\ \A t \in Tag : aliases[t] = None
    /\ \A t \in Used : \A i \in DOMAIN QueueOf(t) : TagOf[QueueOf(t)[i]] = t
    /\ \A w \in Worker : Busy(w) => TagOf[job[w]] = tag[w]
    /\ \A t \in Used : \A i, j \in DOMAIN QueueOf(t) :
          i < j /\ Plain(QueueOf(t)[i]) /\ Plain(QueueOf(t)[j]) => QueueOf(t)[i] < QueueOf(t)[j]
    /\ \A x, y \in Work : InOrder(x, y) =>
          /\ status[x] = "new" => status[y] = "new"
          /\ status[y] \in Begun => status[x] \in Over

NoAliases == \A x \in Work : Alias[x] = None

\* A step that begins nothing keeps the order.
LEMMA SerialKept ==
  ASSUME SerialOK, \A t \in Tag : aliases'[t] = None, \A u \in Used : QueueOf(u)' = QueueOf(u),
         \A w \in Worker : Busy(w)' => Busy(w) /\ job'[w] = job[w] /\ tag'[w] = tag[w],
         \A x \in Work : /\ status'[x] = "new" <=> status[x] = "new"
                         /\ status'[x] \in Begun => status[x] \in Begun
                         /\ status[x] \in Over => status'[x] \in Over
  PROVE  SerialOK'
<1>1. \A x, y \in Work : InOrder(x, y) =>
          /\ status'[x] = "new" => status'[y] = "new"
          /\ status'[y] \in Begun => status'[x] \in Over
  BY DEF SerialOK
<1>2. \A w \in Worker : Busy(w)' => TagOf[job'[w]] = tag'[w]
  BY DEF SerialOK
<1>3. /\ \A t \in Used : \A i \in DOMAIN QueueOf(t)' : TagOf[QueueOf(t)'[i]] = t
      /\ \A t \in Used : \A i, j \in DOMAIN QueueOf(t)' :
          i < j /\ Plain(QueueOf(t)'[i]) /\ Plain(QueueOf(t)'[j]) => QueueOf(t)'[i] < QueueOf(t)'[j]
  BY DEF SerialOK
<1> QED BY <1>1, <1>2, <1>3 DEF SerialOK

\* A new item goes behind those of its tag.
LEMMA PushSerial ==
  ASSUME TagsApart, PlacesInv, SerialOK, NEW x \in Work, status[x] = "new", Push(x),
         Plain(x) => \A y \in 1 .. x - 1 : TagOf[y] = TagOf[x] => status[y] # "new",
         UNCHANGED <<pc, home, tag, job>>
  PROVE  SerialOK'
<1>1. /\ TypeOK /\ ItemsOK /\ (\A u \in Used : QueueOf(u) \in Seq(Work)) /\ TagOf[x] \in Tag
  BY QueueType, WorkAssumption DEF PlacesInv, QueuesInv
<1>2. RealTag(x) = TagOf[x]
  BY <1>1 DEF RealTag, SerialOK
<1> PICK t \in Used :
            /\ t = RealTag(x) /\ QueueOf(t)' = PushTo(x, QueueOf(t))
            /\ \A u \in Used \ {t} : QueueOf(u)' = QueueOf(u)
            /\ status' = [status EXCEPT ![x] =
                             IF Coalesced(x, QueueOf(t)) THEN "dropped" ELSE "queued"]
  BY PushQueue DEF PlacesInv
<1> DEFINE q == QueueOf(t)
<1>3. \A y \in Work : status'[y] = status[y] \/ (y = x /\ status'[y] \in {"dropped", "queued"})
  BY <1>1 DEF TypeOK
<1>4. status'[x] \in {"dropped", "queued"}
  BY <1>1 DEF TypeOK
<1>5. ASSUME NEW a \in Work, NEW b \in Work, InOrder(a, b)
      PROVE  /\ status'[a] = "new" => status'[b] = "new"
             /\ status'[b] \in Begun => status'[a] \in Over
  <2>1. /\ status[a] = "new" => status[b] = "new"
        /\ status[b] \in Begun => status[a] \in Over
    BY <1>5 DEF SerialOK
  <2>2. ASSUME b = x PROVE status[a] # "new"
    <3>1. a \in 1 .. x - 1
      BY <1>5, <2>2, NoneIsNone DEF InOrder, Work
    <3> QED BY <1>5, <2>2, <3>1 DEF InOrder
  <2> QED BY <1>3, <1>4, <2>1, <2>2 DEF Begun, Over
<1>6. ASSUME NEW i \in DOMAIN q, Plain(q[i]), Plain(x) PROVE q[i] < x
  <2>1. q[i] \in Work /\ status[q[i]] = "queued" /\ TagOf[q[i]] = TagOf[x]
    BY <1>1, <1>2 DEF ItemsOK, SerialOK
  <2>2. ~InOrder(x, q[i])
    BY <2>1 DEF SerialOK
  <2>3. q[i] # x /\ q[i] \in Nat /\ x \in Nat
    BY <2>1, NoneIsNone
  <2> QED BY <1>6, <2>1, <2>2, <2>3 DEF InOrder
<1>7. \/ QueueOf(t)' = q
      \/ /\ DOMAIN QueueOf(t)' = DOMAIN q \cup {Len(q) + 1} /\ QueueOf(t)'[Len(q) + 1] = x
         /\ DOMAIN q = 1 .. Len(q) /\ Len(q) \in Nat
         /\ \A i \in DOMAIN q : QueueOf(t)'[i] = q[i]
  <2>1. q \in Seq(Work) /\ (QueueOf(t)' = q \/ QueueOf(t)' = Append(q, x))
    BY <1>1 DEF PushTo
  <2> HIDE DEF q
  <2>2. ASSUME NEW p, p = Append(q, x)
        PROVE  /\ DOMAIN p = DOMAIN q \cup {Len(q) + 1} /\ p[Len(q) + 1] = x
               /\ DOMAIN q = 1 .. Len(q) /\ Len(q) \in Nat /\ \A i \in DOMAIN q : p[i] = q[i]
    BY <2>1, <2>2
  <2> QED BY <2>1, <2>2
<1> HIDE DEF q
<1>8. \A i \in DOMAIN QueueOf(t)' : TagOf[QueueOf(t)'[i]] = t
  BY <1>2, <1>7 DEF SerialOK, q
<1>9. ASSUME NEW i \in DOMAIN QueueOf(t)', NEW j \in DOMAIN QueueOf(t)', i < j,
             Plain(QueueOf(t)'[i]), Plain(QueueOf(t)'[j])
      PROVE  QueueOf(t)'[i] < QueueOf(t)'[j]
  <2>1. CASE QueueOf(t)' = q
    BY <1>9, <2>1 DEF SerialOK, q
  <2>2. CASE QueueOf(t)' # q
    <3>1. i \in DOMAIN q /\ (j \in DOMAIN q \/ j = Len(q) + 1)
      BY <1>7, <1>9, <2>2
    <3>2. CASE j \in DOMAIN q
      <4>1. QueueOf(t)'[i] = q[i] /\ QueueOf(t)'[j] = q[j]
        BY <1>7, <2>2, <3>1, <3>2
      <4> QED BY <1>9, <3>1, <3>2, <4>1 DEF SerialOK, q
    <3>3. CASE j = Len(q) + 1
      <4>1. QueueOf(t)'[i] = q[i] /\ QueueOf(t)'[j] = x
        BY <1>7, <2>2, <3>1, <3>3
      <4> QED BY <1>6, <1>9, <3>1, <4>1
    <3> QED BY <3>1, <3>2, <3>3
  <2> QED BY <2>1, <2>2
<1>10. aliases' = aliases
  BY DEF Push
<1>11. \A w \in Worker : Busy(w)' => TagOf[job'[w]] = tag'[w]
  BY DEF SerialOK, Busy
<1>12. \A u \in Used : \A i \in DOMAIN QueueOf(u)' : TagOf[QueueOf(u)'[i]] = u
  BY <1>8 DEF SerialOK
<1>13. \A u \in Used : \A i, j \in DOMAIN QueueOf(u)' :
         i < j /\ Plain(QueueOf(u)'[i]) /\ Plain(QueueOf(u)'[j]) => QueueOf(u)'[i] < QueueOf(u)'[j]
  BY <1>9 DEF SerialOK
<1>14. \A u \in Tag : aliases'[u] = None
  BY <1>10 DEF SerialOK
<1> QED BY <1>5, <1>11, <1>12, <1>13, <1>14 DEF SerialOK

\* The first of its tag is taken when no other of the tag is under way.
LEMMA PopSerial ==
  ASSUME TagsApart, PlacesInv, SerialOK, NEW w \in Worker, Pop(w)
  PROVE  SerialOK'
<1>1. TypeOK /\ ItemsOK /\ JobsOK /\ (\A u \in Used : QueueOf(u) \in Seq(Work))
  BY QueueType DEF PlacesInv, QueuesInv
<1> PICK t \in Used :
            /\ QueueOf(t) # <<>> /\ tag'[w] = t /\ \A v \in Worker : Busy(v) => tag[v] # t
            /\ job' = [job EXCEPT ![w] = Head(QueueOf(t))]
            /\ status' = [status EXCEPT ![Head(QueueOf(t))] = "taken"]
            /\ QueueOf(t)' = Tail(QueueOf(t))
            /\ \A u \in Used \ {t} : QueueOf(u)' = QueueOf(u)
  BY PopQueue DEF PlacesInv
<1> DEFINE q == QueueOf(t)
<1>2. /\ 1 \in DOMAIN q /\ Head(q) = q[1] /\ DOMAIN q = 1 .. Len(q) /\ Len(q) \in Nat \ {0}
      /\ DOMAIN Tail(q) = 1 .. (Len(q) - 1) /\ \A i \in 1 .. (Len(q) - 1) : Tail(q)[i] = q[i + 1]
  BY <1>1
<1> HIDE DEF q
<1> PICK x \in Work : x = Head(q)
  BY <1>1, <1>2 DEF q
<1>3. status[x] = "queued" /\ TagOf[x] = t /\ x = q[1]
  BY <1>1, <1>2 DEF ItemsOK, SerialOK, q
<1>4. /\ \A v \in Worker : pc'[v] = IF v = w THEN "redirect" ELSE pc[v]
      /\ \A v \in Worker : job'[v] = IF v = w THEN x ELSE job[v]
      /\ \A v \in Worker \ {w} : tag'[v] = tag[v]
      /\ \A y \in Work : status'[y] = IF y = x THEN "taken" ELSE status[y]
  BY <1>1 DEF TypeOK, Pop, q
<1>5. ASSUME NEW a \in Work, NEW b \in Work, InOrder(a, b)
      PROVE  /\ status'[a] = "new" => status'[b] = "new"
             /\ status'[b] \in Begun => status'[a] \in Over
  <2>1. /\ status[a] = "new" => status[b] = "new"
        /\ status[b] \in Begun => status[a] \in Over
    BY <1>5 DEF SerialOK
  <2>2. ASSUME b = x PROVE status[a] \in Over /\ a # x
    <3>1. a # x /\ TagOf[a] = t /\ status[a] \in Statuses /\ status[a] # "new"
      BY <1>1, <1>3, <1>5, <2>1, <2>2, NoneIsNone DEF InOrder, TypeOK
    <3>2. status[a] # "queued"
      <4> SUFFICES ASSUME status[a] = "queued" PROVE FALSE
        OBVIOUS
      <4>1. PICK u \in Used : \E i \in DOMAIN QueueOf(u) : QueueOf(u)[i] = a
        BY <1>1 DEF ItemsOK
      <4>2. PICK i \in DOMAIN QueueOf(u) : QueueOf(u)[i] = a
        BY <4>1
      <4>3. u = t
        BY <3>1, <4>2 DEF SerialOK
      <4>4. i \in DOMAIN q /\ q[i] = a /\ i # 1
        BY <1>3, <3>1, <4>2, <4>3 DEF q
      <4>5. 1 < i
        BY <1>2, <4>4
      <4>6. x < a
        BY <1>2, <1>3, <1>5, <2>2, <4>4, <4>5 DEF SerialOK, InOrder, q
      <4> QED BY <1>5, <2>2, <4>6, NoneIsNone DEF InOrder
    <3>3. status[a] \notin {"taken", "running"}
      <4> SUFFICES ASSUME status[a] \in {"taken", "running"} PROVE FALSE
        OBVIOUS
      <4>1. PICK v \in Worker : job[v] = a
        BY <1>1 DEF JobsOK
      <4>2. Busy(v)
        <5>1. job[v] # None
          BY <4>1, NoneIsNone
        <5> QED BY <1>1, <4>1, <5>1 DEF JobsOK, Busy
      <4>3. tag[v] = t
        BY <3>1, <4>1, <4>2 DEF SerialOK
      <4> QED BY <4>2, <4>3
    <3> QED BY <3>1, <3>2, <3>3 DEF Statuses, Over
  <2> QED BY <1>3, <1>4, <2>1, <2>2 DEF Begun, Over
<1>6. \A v \in Worker : Busy(v)' => TagOf[job'[v]] = tag'[v]
  BY <1>3, <1>4 DEF SerialOK, Busy
<1>7. \A i \in DOMAIN QueueOf(t)' : i \in Nat /\ i + 1 \in DOMAIN q /\ QueueOf(t)'[i] = q[i + 1]
  BY <1>2 DEF q
<1>8. \A u \in Used : \A i \in DOMAIN QueueOf(u)' : TagOf[QueueOf(u)'[i]] = u
  BY <1>7 DEF SerialOK, q
<1>9. ASSUME NEW u \in Used, NEW i \in DOMAIN QueueOf(u)', NEW j \in DOMAIN QueueOf(u)', i < j,
             Plain(QueueOf(u)'[i]), Plain(QueueOf(u)'[j])
      PROVE  QueueOf(u)'[i] < QueueOf(u)'[j]
  <2>1. CASE u = t
    <3>1. i + 1 \in DOMAIN q /\ j + 1 \in DOMAIN q /\ QueueOf(u)'[i] = q[i + 1] /\ QueueOf(u)'[j] = q[j + 1]
      BY <1>7, <2>1
    <3>2. i + 1 < j + 1
      BY <1>7, <1>9, <2>1
    <3> QED BY <1>9, <2>1, <3>1, <3>2 DEF SerialOK, q
  <2>2. CASE u # t
    BY <1>9, <2>2 DEF SerialOK
  <2> QED BY <2>1, <2>2
<1>10. \A u \in Tag : aliases'[u] = None
  BY DEF Pop, SerialOK
<1> QED BY <1>5, <1>6, <1>8, <1>9, <1>10 DEF SerialOK

\* A worker ends its item before it takes the next of the tag.
LEMMA WorkerSerial ==
  ASSUME TagsApart, NoAliases, PlacesInv, SerialOK, NEW w \in Worker,
         WorkerStep(w) \/ \E x \in Work : Expire(w, x)
  PROVE  SerialOK'
<1>1. TypeOK /\ JobsOK /\ QueuesInv
  BY DEF PlacesInv, QueuesInv
<1>2. CASE \E x \in Work : PushAtom(w, x)
  <2>1. PICK x \in Work : PushAtom(w, x)
    BY <1>2
  <2>2. job[w] \in Work /\ pc[w] = "execute"
    BY <1>1, <2>1 DEF PushAtom, JobsOK, Busy, TypeOK
  <2>3. IsAtom(x)
    <3>1. x \in AtomsOf(job[w])
      BY <2>1 DEF PushAtom, Chunk, AtomsOf
    <3> QED BY <2>2, <3>1 DEF IsAtom
  <2>4. status[x] = "new" /\ Push(x) /\ UNCHANGED <<pc, home, tag, job>> /\ ~Plain(x)
    BY <2>1, <2>3 DEF PushAtom, poolVars, threadVars, Plain
  <2> QED BY <2>4, PushSerial
<1>3. CASE Pop(w)
  BY <1>3, PopSerial
<1>4. CASE Redirect(w) \/ Executed(w) \/ Finally(w)
  <2>1. /\ job[w] \in Work /\ (Redirect(w) => status[job[w]] = "taken")
        /\ (Executed(w) => status[job[w]] = "running") /\ (Finally(w) => status[job[w]] = "ran")
    BY <1>1, <1>4 DEF Redirect, Executed, Finally, JobsOK, TypeOK, Busy
  <2>2. \A x \in Work : status'[x] = IF x # job[w] THEN status[x] ELSE
                            IF Redirect(w) THEN "running" ELSE IF Executed(w) THEN "ran" ELSE "done"
    BY <1>1, <1>4 DEF Redirect, Executed, Finally, TypeOK
  <2>3. \A x \in Work : /\ status'[x] = "new" <=> status[x] = "new"
                        /\ status'[x] \in Begun => status[x] \in Begun
                        /\ status[x] \in Over => status'[x] \in Over
    BY <1>4, <2>1, <2>2 DEF Begun, Over
  <2>4. \A v \in Worker : Busy(v)' => Busy(v) /\ job'[v] = job[v] /\ tag'[v] = tag[v]
    BY <1>1, <1>4 DEF Redirect, Executed, Finally, Busy, TypeOK
  <2>5. \A t \in Tag : aliases'[t] = None
    BY <1>4 DEF Redirect, Executed, Finally, queueVars, SerialOK
  <2>6. \A u \in Used : QueueOf(u)' = QueueOf(u)
    BY <1>1, <1>4, <2>1, RedirectQueue, OwnStepQueue
  <2> QED BY <2>3, <2>4, <2>5, <2>6, SerialKept
<1>5. CASE Finished(w) \/ Test(w) \/ SetAlias(w) \/ EndChunk(w) \/ (\E x \in Work : Expire(w, x))
  <2>1. status' = status
    BY <1>5 DEF Finished, Test, SetAlias, EndChunk, Expire, history
  <2>2. \A v \in Worker : Busy(v)' => Busy(v) /\ job'[v] = job[v] /\ tag'[v] = tag[v]
    BY <1>1, <1>5 DEF Finished, Test, SetAlias, EndChunk, Expire, Busy, TypeOK
  <2>3. \A t \in Tag : aliases'[t] = None
    <3>1. CASE SetAlias(w)
      <4>1. job[w] \in Work
        BY <1>1, <3>1 DEF SetAlias, JobsOK, TypeOK, Busy
      <4> QED BY <3>1, <4>1 DEF SetAlias, NoAliases, SerialOK
    <3>2. CASE Finished(w)
      BY <3>2 DEF Finished, SerialOK
    <3> QED BY <1>5, <3>1, <3>2 DEF Test, EndChunk, Expire, queueVars, SerialOK
  <2>4. \A u \in Used : QueueOf(u)' = QueueOf(u)
    BY <1>1, <1>5, FinishedQueue, OwnStepQueue
  <2> QED BY <2>1, <2>2, <2>3, <2>4, SerialKept
<1> QED BY <1>2, <1>3, <1>4, <1>5 DEF WorkerStep

\* "Items with the same [tag] are serialised": an item begins to execute only
\* when those pushed before it with its tag have been executed, whatever the
\* number of workers, if one tag is pushed to one redirector and has no alias.
THEOREM ItemsSerialised ==
  ASSUME TagsApart, NoAliases
  PROVE  Spec => []Serialised
<1> DEFINE I == PlacesInv /\ SerialOK
<1>1. Init => I
  <2> SUFFICES ASSUME Init PROVE PlacesInv /\ SerialOK
    OBVIOUS
  <2>1. PlacesInv
    BY PlacesInitial
  <2>2. ASSUME NEW t \in Used PROVE DOMAIN QueueOf(t) = {}
    <3>1. t \in Tag /\ HomeOf(t) \in Redirector
      BY UsedTags
    <3> QED BY <3>1 DEF QueueOf, Init
  <2>3. /\ \A x \in Work : status[x] = "new"
        /\ \A w \in Worker : ~Busy(w)
        /\ \A t \in Tag : aliases[t] = None
    BY DEF Init, Busy
  <2> QED BY <2>1, <2>2, <2>3 DEF SerialOK, Begun
<1>2. I /\ [Next]_vars => I'
  <2> SUFFICES ASSUME PlacesInv, SerialOK, [Next]_vars PROVE PlacesInv' /\ SerialOK'
    OBVIOUS
  <2>1. CASE \E x \in Work : Submit(x)
    BY <2>1, PushSerial, PlacesStep DEF Submit, poolVars, threadVars
  <2>2. CASE (\E s \in Setter : SetterStep(s)) \/ UNCHANGED vars
    <3>1. /\ \A u \in Used : QueueOf(u)' = QueueOf(u)
          /\ UNCHANGED <<job, status>>
          /\ \A v \in Worker : pc'[v] # pc[v] => pc[v] = "none" /\ pc'[v] = "test"
      BY <2>2, SetterQueue DEF PlacesInv
    <3>2. UNCHANGED <<aliases, tag>>
      BY <2>2 DEF SetterStep, Count, Adjust, Adjusted, vars, queueVars, threadVars
    <3>3. \A v \in Worker : Busy(v)' => Busy(v) /\ job'[v] = job[v] /\ tag'[v] = tag[v]
      BY <3>1, <3>2 DEF Busy
    <3>4. \A t \in Tag : aliases'[t] = None
      BY <3>2 DEF SerialOK
    <3>5. SerialOK'
      BY <3>1, <3>3, <3>4, SerialKept
    <3> QED BY <3>5, PlacesStep
  <2> QED BY <2>1, <2>2, PlacesStep, WorkerSerial DEF Next
<1>3. I => Serialised
  BY DEF SerialOK, InOrder, Plain, Begun, Over, Serialised
<1> QED BY <1>1, <1>2, <1>3, PTL DEF Spec

-----------------------------------------------------------------------------
(* The size of the pool *)

\* What `gc' computes: the workers of the list that have not ended.
LEMMA GcKeeps ==
  ASSUME pool \in Seq(Worker), NEW r
  PROVE  /\ Gc(r) \in Seq(Worker)
         /\ \A w : (\E i \in DOMAIN Gc(r) : Gc(r)[i] = w)
                      <=> w \in InPool /\ ~(home[w] = r /\ ReportsShutdown(w))
<1> DEFINE s == pool
           n == Len(s)
           Drop(w) == home[w] = r /\ ReportsShutdown(w)
           Step(i, prev) == IF Drop(s[i]) THEN prev ELSE <<s[i]>> \o prev
           Body(f, m) == [i \in 0 .. m |-> IF i = 0 THEN <<>> ELSE Step(i, f[i - 1])]
           acc == CHOOSE f : f = Body(f, n)
<1>1. Gc(r) = acc[n]
  BY DEF Gc
<1>2. n \in Nat /\ DOMAIN s = 1 .. n /\ \A i \in 1 .. n : s[i] \in Worker
  OBVIOUS
<1> HIDE DEF n, Step
<1> DEFINE None1 == {m \in Nat : ~\E f : f = Body(f, m)}
<1>3. None1 = {}
  <2> SUFFICES ASSUME None1 # {} PROVE FALSE
    OBVIOUS
  <2>1. PICK m \in None1 : \A y \in None1 : ~(<<y, m>> \in OpToRel(<, Nat))
    BY WFMin, NatLessThanWellFounded
  <2>2. m \in Nat /\ (~\E f : f = Body(f, m)) /\ \A y \in None1 : ~(y < m)
    BY <2>1 DEF OpToRel
  <2>3. CASE m = 0
    <3> DEFINE g == [i \in 0 .. m |-> <<>>]
    <3>1. g = Body(g, m)
      BY <2>3
    <3> HIDE DEF g, Body
    <3> QED BY <2>2, <3>1
  <2>4. CASE m # 0
    <3>1. m - 1 \in Nat /\ m - 1 < m
      BY <2>2, <2>4
    <3>2. m - 1 \notin None1
      BY <2>2, <3>1
    <3>3. PICK f : f = Body(f, m - 1)
      BY <3>1, <3>2
    <3> DEFINE g == [i \in 0 .. m |-> IF i < m THEN f[i] ELSE Step(m, f[m - 1])]
    <3>4. ASSUME NEW i \in 0 .. m PROVE g[i] = IF i = 0 THEN <<>> ELSE Step(i, g[i - 1])
      <4>1. CASE i = 0
        <5>1. g[i] = f[0] /\ f[0] = <<>>
          BY <2>2, <2>4, <3>3, <4>1
        <5> QED BY <4>1, <5>1
      <4>2. CASE i # 0 /\ i < m
        <5>1. i \in 0 .. m - 1 /\ i - 1 \in 0 .. m /\ i - 1 < m
          BY <2>2, <4>2
        <5>2. g[i] = f[i] /\ g[i - 1] = f[i - 1]
          BY <4>2, <5>1
        <5>3. f[i] = Step(i, f[i - 1])
          BY <3>3, <4>2, <5>1
        <5> QED BY <4>2, <5>2, <5>3
      <4>3. CASE i = m
        <5>1. i - 1 \in 0 .. m /\ i - 1 < m
          BY <2>2, <2>4, <4>3
        <5>2. g[i - 1] = f[m - 1] /\ g[i] = Step(m, f[m - 1])
          BY <2>2, <4>3, <5>1
        <5> QED BY <2>4, <4>3, <5>2
      <4> QED BY <2>2, <4>1, <4>2, <4>3
    <3>5. g = Body(g, m)
      <4> DEFINE h == g
      <4>1. h = [i \in 0 .. m |-> h[i]]
        OBVIOUS
      <4>2. \A i \in 0 .. m : h[i] = IF i = 0 THEN <<>> ELSE Step(i, h[i - 1])
        BY <3>4
      <4> HIDE DEF h
      <4>3. h = Body(h, m)
        BY <4>1, <4>2
      <4> QED BY <4>3 DEF h
    <3> HIDE DEF g, Body
    <3> QED BY <2>2, <3>5
  <2> QED BY <2>3, <2>4
<1>4. acc = Body(acc, n)
  <2>1. n \notin None1
    BY <1>3
  <2>2. \E f : f = Body(f, n)
    BY <1>2, <2>1
  <2> HIDE DEF Body
  <2> QED BY <2>2
<1> HIDE DEF acc
<1>5. /\ acc[0] = <<>>
      /\ \A i \in 1 .. n : acc[i] = Step(i, acc[i - 1])
  BY <1>2, <1>4
<1> DEFINE Good(i) == /\ acc[i] \in Seq(Worker)
                      /\ \A w : (\E k \in DOMAIN acc[i] : acc[i][k] = w)
                                   <=> \E j \in 1 .. i : s[j] = w /\ ~Drop(w)
           Bad == {i \in 0 .. n : ~Good(i)}
<1>6. Bad = {}
  <2> SUFFICES ASSUME Bad # {} PROVE FALSE
    OBVIOUS
  <2>1. Bad \subseteq Nat
    BY <1>2
  <2>2. PICK m \in Bad : \A y \in Bad : ~(<<y, m>> \in OpToRel(<, Nat))
    BY <2>1, WFMin, NatLessThanWellFounded
  <2>3. m \in 0 .. n /\ ~Good(m) /\ m \in Nat /\ \A y \in Bad : ~(y < m)
    BY <2>1, <2>2 DEF OpToRel
  <2>4. CASE m = 0
    <3> HIDE DEF s, Drop
    <3>1. acc[0] \in Seq(Worker) /\ DOMAIN acc[0] = {} /\ 1 .. 0 = {}
      BY <1>5
    <3>2. Good(0)
      BY <3>1
    <3> QED BY <2>3, <2>4, <3>2
  <2>5. CASE m # 0
    <3>1. m - 1 \in 0 .. n /\ m \in 1 .. n /\ m - 1 < m
      BY <1>2, <2>3, <2>5
    <3>2. Good(m - 1)
      BY <2>3, <3>1
    <3> DEFINE a == acc[m - 1]
               b == acc[m]
    <3>3. b = (IF Drop(s[m]) THEN a ELSE <<s[m]>> \o a) /\ s[m] \in Worker
      BY <1>2, <1>5, <3>1 DEF Step
    <3>4. a \in Seq(Worker) /\ \A w : (\E k \in DOMAIN a : a[k] = w) <=> \E j \in 1 .. (m - 1) : s[j] = w /\ ~Drop(w)
      BY <3>2
    <3> HIDE DEF a, b, Drop, s
    <3>5. \A w : (\E j \in 1 .. m : s[j] = w /\ ~Drop(w))
                    <=> (\E j \in 1 .. (m - 1) : s[j] = w /\ ~Drop(w)) \/ (s[m] = w /\ ~Drop(w))
      BY <2>3, <3>1
    <3>6. CASE Drop(s[m])
      BY <2>3, <3>3, <3>4, <3>5, <3>6 DEF b
    <3>7. CASE ~Drop(s[m])
      <4> DEFINE x == s[m]
      <4>1. b = <<x>> \o a /\ x \in Worker
        BY <3>3, <3>7
      <4> HIDE DEF x
      <4>2. b \in Seq(Worker) /\ \A w : (\E k \in DOMAIN b : b[k] = w) <=> w = x \/ \E k \in DOMAIN a : a[k] = w
        <5>1. b \in Seq(Worker) /\ Len(b) = Len(a) + 1 /\ DOMAIN b = 1 .. Len(b) /\ DOMAIN a = 1 .. Len(a) /\ Len(a) \in Nat
          BY <3>4, <4>1
        <5>2. b[1] = x /\ \A k \in 1 .. Len(a) : b[k + 1] = a[k]
          BY <3>4, <4>1
        <5>3. ASSUME NEW w, NEW k \in DOMAIN b, b[k] = w PROVE w = x \/ \E l \in DOMAIN a : a[l] = w
          <6>1. CASE k = 1
            BY <5>2, <5>3, <6>1
          <6>2. CASE k # 1
            <7>1. k - 1 \in 1 .. Len(a) /\ (k - 1) + 1 = k
              BY <5>1, <6>2
            <7>2. b[(k - 1) + 1] = a[k - 1]
              BY <5>2, <7>1
            <7> QED BY <5>1, <5>3, <7>1, <7>2
          <6> QED BY <6>1, <6>2
        <5>4. ASSUME NEW w, NEW k \in DOMAIN a, a[k] = w PROVE \E l \in DOMAIN b : b[l] = w
          <6>1. k + 1 \in DOMAIN b /\ b[k + 1] = w
            BY <5>1, <5>2, <5>4
          <6> QED BY <6>1
        <5>5. 1 \in DOMAIN b
          BY <5>1
        <5> QED BY <5>1, <5>2, <5>3, <5>4, <5>5
      <4> QED BY <2>3, <3>4, <3>5, <3>7, <4>2 DEF b, x
    <3> QED BY <3>6, <3>7
  <2> QED BY <2>4, <2>5
<1>7. Good(n)
  <2>1. n \in 0 .. n
    BY <1>2
  <2> HIDE DEF Good
  <2> QED BY <1>6, <2>1
<1>8. \A w : (\E j \in 1 .. n : s[j] = w) <=> w \in InPool
  BY <1>2 DEF InPool
<1> QED BY <1>1, <1>7, <1>8

Active(r) == {w \in InPool : home[w] = r /\ ~stop[w] /\ pc[w] # "ended"}

\* A worker ends only when it was asked to, and is not taken back after that:
\* so `gc' never leaves one out, and those it counts are those that work.
WorkersOK ==
    /\ pool \in Seq(Worker)
    /\ stop \in [Worker -> BOOLEAN] /\ DOMAIN home = Worker /\ DOMAIN pc = Worker
    /\ \A w \in Worker : /\ pc[w] = "ended" => stop[w]
                         /\ pc[w] = "none" => w \notin InPool /\ ~stop[w]

\* A set_size that nobody has run with, or that has not done anything yet.
Judged(s) == alone = s \/ NotBegun(s)

\* The redirectors that a lone set_size has been to have their workers, and
\* the one it is at will have them when it is done.
SizesOK ==
    /\ setAt \in [Setter -> Nat \ {0}] /\ setBy \in [Setter -> Int \cup {None}]
    /\ alone \in Setter \cup {None}
    /\ \A s \in Setter : alone = s =>
          /\ \A i \in DOMAIN Redirectors :
                i < setAt[s] => Cardinality(Active(Redirectors[i])) = SizeOf[s]
          /\ setAt[s] \in DOMAIN Redirectors /\ setBy[s] # None =>
                Cardinality(Active(Redirectors[setAt[s]])) + setBy[s] = SizeOf[s]

PoolInv == WorkersOK /\ SizesOK

\* The pool's list holds workers.
LEMMA InPoolWorkers ==
  ASSUME WorkersOK
  PROVE  InPool \subseteq Worker
BY DEF WorkersOK, InPool

\* There are finitely many of them.
LEMMA ActiveFinite ==
  ASSUME WorkersOK, NEW r
  PROVE  IsFiniteSet(Active(r)) /\ Cardinality(Active(r)) \in Nat
<1>1. Active(r) \in SUBSET Worker
  BY InPoolWorkers DEF Active
<1>2. IsFiniteSet(Worker)
  BY FS_Interval, WorkAssumption DEF Worker
<1>3. IsFiniteSet(Active(r))
  BY <1>1, <1>2, FS_Subset
<1> QED BY <1>3, FS_CardinalityType

\* `gc' keeps every worker.
LEMMA GcAll ==
  ASSUME WorkersOK, NEW r
  PROVE  Gc(r) \in Seq(Worker) /\ {Gc(r)[i] : i \in DOMAIN Gc(r)} = InPool
<1>1. \A w \in InPool : ~ReportsShutdown(w)
  BY InPoolWorkers DEF WorkersOK, ReportsShutdown
<1>2. Gc(r) \in Seq(Worker) /\ \A w : (\E i \in DOMAIN Gc(r) : Gc(r)[i] = w) <=> w \in InPool
  BY <1>1, GcKeeps DEF WorkersOK
<1> DEFINE p == Gc(r)
<1> HIDE DEF p
<1>3. \A w : (\E i \in DOMAIN p : p[i] = w) <=> w \in InPool
  BY <1>2 DEF p
<1>4. {p[i] : i \in DOMAIN p} = InPool
  BY <1>3
<1> QED BY <1>2, <1>4 DEF p

\* The first worker found is one worker, and there is one if any fits.
LEMMA FirstOne ==
  ASSUME NEW p \in Seq(Worker), NEW r, NEW S
  PROVE  /\ \A w \in FirstOf(r, p, S) : /\ w \in S /\ home[w] = r /\ FirstOf(r, p, S) = {w}
                                        /\ \E i \in DOMAIN p : p[i] = w
         /\ (\E i \in DOMAIN p : p[i] \in S /\ home[p[i]] = r) => FirstOf(r, p, S) # {}
<1> DEFINE Fits(i) == p[i] \in S /\ home[p[i]] = r
           F == FirstOf(r, p, S)
<1>1. DOMAIN p = 1 .. Len(p) /\ Len(p) \in Nat
  OBVIOUS
<1>2. \A w : w \in F <=> \E j \in DOMAIN p : p[j] = w /\ Fits(j) /\ \A k \in 1 .. j - 1 : ~Fits(k)
  BY DEF FirstOf
<1> HIDE DEF Fits, F
<1>3. ASSUME NEW w \in F
      PROVE  /\ \E j \in DOMAIN p : p[j] = w /\ Fits(j)
             /\ F = {w}
  <2>1. PICK j \in DOMAIN p : p[j] = w /\ Fits(j) /\ \A k \in 1 .. j - 1 : ~Fits(k)
    BY <1>2, <1>3
  <2>2. ASSUME NEW v \in F PROVE v = w
    <3>1. PICK i \in DOMAIN p : p[i] = v /\ Fits(i) /\ \A k \in 1 .. i - 1 : ~Fits(k)
      BY <1>2, <2>2
    <3>2. ~(i < j) /\ ~(j < i) /\ i \in Int /\ j \in Int
      BY <1>1, <2>1, <3>1
    <3> QED BY <2>1, <3>1, <3>2
  <2> QED BY <1>3, <2>1, <2>2
<1>4. ASSUME \E i \in DOMAIN p : Fits(i) PROVE F # {}
  <2> DEFINE T == {i \in DOMAIN p : Fits(i)}
             j == Least(T)
  <2>1. T \in SUBSET Nat /\ T # {}
    BY <1>1, <1>4
  <2>2. j \in T /\ \A u \in T : j <= u
    BY <2>1, LeastIn
  <2> HIDE DEF j
  <2>3. \A k \in 1 .. j - 1 : ~Fits(k)
    BY <1>1, <2>2
  <2> QED BY <1>2, <2>2, <2>3
<1> QED BY <1>3, <1>4 DEF F, Fits

\* incr adds one active worker to its redirector,
LEMMA IncrAdds ==
  ASSUME WorkersOK, NEW r, Incr(r)
  PROVE  /\ WorkersOK'
         /\ \E v : /\ v \notin Active(r) /\ Active(r)' = Active(r) \cup {v}
                   /\ \A q : q # r => Active(q)' = Active(q)
<1>1. PICK p \in Seq(Worker) : p = Gc(r)
  BY GcAll
<1> DEFINE S == {w \in Worker : CanRestart(w)}
           F == FirstOf(r, p, S)
<1>2. {p[i] : i \in DOMAIN p} = InPool
  BY <1>1, GcAll
<1>3. CASE /\ F # {} /\ pool' = p /\ UNCHANGED <<home, pc>>
           /\ stop' = [w \in Worker |-> IF w \in F THEN FALSE ELSE stop[w]]
  <2>1. PICK v : v \in F
    BY <1>3
  <2>2. v \in S /\ home[v] = r /\ F = {v} /\ v \in InPool
    <3> HIDE DEF S
    <3> QED BY <1>2, <2>1, FirstOne
  <2> HIDE DEF F
  <2>3. InPool' = InPool
    BY <1>2, <1>3 DEF InPool
  <2>4. v \in Worker /\ stop[v] /\ pc[v] # "ended"
    BY <2>2 DEF CanRestart
  <2>5. \A w \in Worker : stop'[w] = IF w = v THEN FALSE ELSE stop[w]
    BY <1>3, <2>2
  <2>6. stop' \in [Worker -> BOOLEAN]
    BY <1>3 DEF WorkersOK
  <2>7. WorkersOK'
    <3>1. \A w \in Worker : /\ pc'[w] = "ended" => stop'[w]
                            /\ pc'[w] = "none" => w \notin InPool' /\ ~stop'[w]
      BY <1>3, <2>3, <2>4, <2>5 DEF WorkersOK
    <3> QED BY <1>3, <2>6, <3>1 DEF WorkersOK
  <2>8. v \notin Active(r) /\ Active(r)' = Active(r) \cup {v}
    BY <1>3, <2>2, <2>3, <2>4, <2>5, InPoolWorkers DEF Active
  <2>9. \A q : q # r => Active(q)' = Active(q)
    BY <1>3, <2>2, <2>3, <2>4, <2>5, InPoolWorkers DEF Active
  <2> QED BY <2>7, <2>8, <2>9
<1>4. CASE /\ \E v \in Worker : pc[v] = "none"
           /\ LET v == Least({w \in Worker : pc[w] = "none"})
              IN  /\ pc' = [pc EXCEPT ![v] = "test"]
                  /\ home' = [home EXCEPT ![v] = r]
                  /\ pool' = <<v>> \o p
           /\ UNCHANGED stop
  <2>1. Least({w \in Worker : pc[w] = "none"}) \in {w \in Worker : pc[w] = "none"}
    <3> DEFINE N == {w \in Worker : pc[w] = "none"}
    <3>1. N \subseteq Worker /\ N # {}
      BY <1>4
    <3>2. Worker \subseteq Nat
      BY WorkAssumption DEF Worker
    <3> HIDE DEF N
    <3>3. N \in SUBSET Nat
      BY <3>1, <3>2
    <3>4. Least(N) \in N
      BY <3>1, <3>3, LeastIn
    <3> QED BY <3>4 DEF N
  <2>2. PICK v \in Worker : /\ pc[v] = "none" /\ pc' = [pc EXCEPT ![v] = "test"]
                            /\ home' = [home EXCEPT ![v] = r] /\ pool' = <<v>> \o p
    BY <1>4, <2>1
  <2>3. pool' \in Seq(Worker) /\ InPool' = InPool \cup {v}
    <3>1. PICK b : b = <<v>> \o p
      OBVIOUS
    <3>2. b \in Seq(Worker) /\ Len(b) = Len(p) + 1 /\ DOMAIN b = 1 .. Len(b) /\ DOMAIN p = 1 .. Len(p) /\ Len(p) \in Nat
      BY <3>1
    <3>3. b[1] = v /\ \A k \in 1 .. Len(p) : b[k + 1] = p[k]
      BY <3>1
    <3>4. ASSUME NEW k \in DOMAIN b PROVE b[k] \in InPool \cup {v}
      <4>1. CASE k = 1
        BY <3>3, <4>1
      <4>2. CASE k # 1
        <5>1. k - 1 \in 1 .. Len(p) /\ (k - 1) + 1 = k
          BY <3>2, <4>2
        <5>2. b[(k - 1) + 1] = p[k - 1]
          BY <3>3, <5>1
        <5> QED BY <1>2, <3>2, <5>1, <5>2
      <4> QED BY <4>1, <4>2
    <3>5. ASSUME NEW w \in InPool PROVE \E k \in DOMAIN b : b[k] = w
      <4>1. PICK k \in DOMAIN p : p[k] = w
        BY <1>2
      <4>2. k + 1 \in DOMAIN b /\ b[k + 1] = w
        BY <3>2, <3>3, <4>1
      <4> QED BY <4>2
    <3>6. 1 \in DOMAIN b
      BY <3>2
    <3>7. {b[k] : k \in DOMAIN b} = InPool \cup {v}
      BY <3>3, <3>4, <3>5, <3>6
    <3>8. pool' = b
      BY <2>2, <3>1
    <3> QED BY <3>2, <3>7, <3>8 DEF InPool
  <2>4. v \notin InPool /\ ~stop[v]
    BY <2>2 DEF WorkersOK
  <2>5. \A w \in Worker : /\ pc'[w] = IF w = v THEN "test" ELSE pc[w]
                          /\ home'[w] = IF w = v THEN r ELSE home[w]
    BY <2>2 DEF WorkersOK
  <2>6. WorkersOK'
    <3>1. \A w \in Worker : /\ pc'[w] = "ended" => stop'[w]
                            /\ pc'[w] = "none" => w \notin InPool' /\ ~stop'[w]
      BY <1>4, <2>3, <2>5 DEF WorkersOK
    <3> QED BY <1>4, <2>2, <2>3, <3>1 DEF WorkersOK
  <2>7. v \notin Active(r) /\ Active(r)' = Active(r) \cup {v}
    BY <1>4, <2>3, <2>4, <2>5, InPoolWorkers DEF Active
  <2>8. \A q : q # r => Active(q)' = Active(q)
    BY <1>4, <2>3, <2>4, <2>5, InPoolWorkers DEF Active
  <2> QED BY <2>6, <2>7, <2>8
<1> QED BY <1>1, <1>3, <1>4 DEF Incr

\* and decr takes one away, if there is one.
LEMMA DecrTakes ==
  ASSUME WorkersOK, NEW r, Decr(r), Active(r) # {}
  PROVE  /\ WorkersOK'
         /\ \E v : /\ v \in Active(r) /\ Active(r)' = Active(r) \ {v}
                   /\ \A q : q # r => Active(q)' = Active(q)
<1>1. PICK p \in Seq(Worker) : p = Gc(r)
  BY GcAll
<1> DEFINE S == {w \in Worker : CanStop(w)}
           F == FirstOf(r, p, S)
<1>2. {p[i] : i \in DOMAIN p} = InPool
  BY <1>1, GcAll
<1>3. /\ pool' = p /\ UNCHANGED <<home, pc>>
      /\ stop' = [w \in Worker |-> IF w \in F THEN TRUE ELSE stop[w]]
  BY <1>1 DEF Decr
<1>4. F # {}
  <2>1. PICK a : a \in Active(r)
    OBVIOUS
  <2>2. a \in InPool /\ home[a] = r /\ a \in S
    BY <2>1, InPoolWorkers DEF Active, CanStop
  <2>3. PICK i \in DOMAIN p : p[i] = a
    BY <1>2, <2>2
  <2>4. \E j \in DOMAIN p : p[j] \in S /\ home[p[j]] = r
    BY <2>2, <2>3
  <2> HIDE DEF S
  <2> QED BY <2>4, FirstOne
<1>5. PICK v : v \in F
  BY <1>4
<1>6. v \in S /\ home[v] = r /\ F = {v} /\ v \in InPool
  <2> HIDE DEF S
  <2> QED BY <1>2, <1>5, FirstOne
<1> HIDE DEF F
<1>7. v \in Worker /\ ~stop[v] /\ pc[v] # "ended" /\ pc[v] # "none"
  BY <1>6 DEF CanStop, WorkersOK
<1>8. InPool' = InPool
  BY <1>2, <1>3 DEF InPool
<1>9. \A w \in Worker : stop'[w] = IF w = v THEN TRUE ELSE stop[w]
  BY <1>3, <1>6
<1>10. WorkersOK'
  <2>1. stop' \in [Worker -> BOOLEAN]
    BY <1>3 DEF WorkersOK
  <2>2. \A w \in Worker : /\ pc'[w] = "ended" => stop'[w]
                          /\ pc'[w] = "none" => w \notin InPool' /\ ~stop'[w]
    BY <1>3, <1>7, <1>8, <1>9 DEF WorkersOK
  <2> QED BY <1>3, <2>1, <2>2 DEF WorkersOK
<1>11. v \in Active(r) /\ Active(r)' = Active(r) \ {v}
  BY <1>3, <1>6, <1>7, <1>8, <1>9, InPoolWorkers DEF Active
<1>12. \A q : q # r => Active(q)' = Active(q)
  BY <1>3, <1>6, <1>7, <1>8, <1>9, InPoolWorkers DEF Active
<1> QED BY <1>10, <1>11, <1>12

\* Whether there is one or not, no worker is asked that the list does not have.
LEMMA DecrKeeps ==
  ASSUME WorkersOK, NEW r, Decr(r)
  PROVE  WorkersOK'
<1>1. PICK p \in Seq(Worker) : p = Gc(r) /\ {p[i] : i \in DOMAIN p} = InPool
  BY GcAll
<1>2. PICK F : F = FirstOf(r, p, {w \in Worker : CanStop(w)})
  OBVIOUS
<1>3. /\ pool' = p /\ UNCHANGED <<home, pc>>
      /\ stop' = [w \in Worker |-> IF w \in F THEN TRUE ELSE stop[w]]
  BY <1>1, <1>2 DEF Decr
<1>4. F \subseteq InPool
  BY <1>1, <1>2 DEF FirstOf
<1>5. InPool' = InPool
  BY <1>1, <1>3 DEF InPool
<1>6. stop' \in [Worker -> BOOLEAN]
  BY <1>3 DEF WorkersOK
<1>7. \A w \in Worker : /\ pc'[w] = "ended" => stop'[w]
                        /\ pc'[w] = "none" => w \notin InPool' /\ ~stop'[w]
  BY <1>3, <1>4, <1>5 DEF WorkersOK
<1> QED BY <1>3, <1>6, <1>7 DEF WorkersOK

\* What a worker does to its own place changes nothing: it ends only when
\* asked to stop, and it is not active then.
LEMMA PlacesKeep ==
  ASSUME WorkersOK, UNCHANGED <<pool, stop, home>>, DOMAIN pc' = Worker,
         \A w \in Worker : \/ pc'[w] = pc[w]
                           \/ /\ pc[w] \notin {"none", "ended"} /\ pc'[w] # "none"
                              /\ pc'[w] = "ended" => stop[w]
  PROVE  WorkersOK' /\ \A r : Active(r)' = Active(r)
<1>1. InPool' = InPool
  BY DEF InPool
<1>2. WorkersOK'
  <2>1. \A w \in Worker : /\ pc'[w] = "ended" => stop'[w]
                          /\ pc'[w] = "none" => w \notin InPool' /\ ~stop'[w]
    BY <1>1 DEF WorkersOK
  <2> QED BY <2>1 DEF WorkersOK
<1>3. \A r : Active(r)' = Active(r)
  BY <1>1, InPoolWorkers DEF Active, WorkersOK
<1> QED BY <1>2, <1>3

\* A worker ends only if it was asked to.
LEMMA WorkersStep ==
  ASSUME WorkersOK, NEW w \in Worker, WorkerStep(w)
  PROVE  UNCHANGED <<setAt, setBy, alone>> /\ WorkersOK' /\ \A r : Active(r)' = Active(r)
<1>1. DOMAIN pc = Worker
  BY DEF WorkersOK
<1> DEFINE Moves(p) == /\ pc' = [pc EXCEPT ![w] = p]
                       /\ pc[w] \notin {"none", "ended"} /\ p # "none"
                       /\ p = "ended" => stop[w]
<1>2. /\ UNCHANGED <<pool, stop, home, setAt, setBy, alone>>
      /\ \/ pc' = pc
         \/ \E p : Moves(p)
  <2>1. CASE Test(w)
    <3>1. pc' = [pc EXCEPT ![w] = IF stop[w] THEN "ended" ELSE "pop"]
          /\ pc[w] = "test" /\ UNCHANGED <<pool, stop, home, setAt, setBy, alone>>
      BY <2>1 DEF Test, poolVars
    <3>2. CASE stop[w]
      <4>1. Moves("ended")
        BY <3>1, <3>2
      <4> QED BY <3>1, <4>1
    <3>3. CASE ~stop[w]
      <4>1. Moves("pop")
        BY <3>1, <3>3
      <4> QED BY <3>1, <4>1
    <3> QED BY <3>2, <3>3
  <2>2. CASE Pop(w)
    <3>1. Moves("redirect")
      BY <2>2 DEF Pop
    <3>2. UNCHANGED <<pool, stop, home, setAt, setBy, alone>>
      BY <2>2 DEF Pop, poolVars
    <3> QED BY <3>1, <3>2
  <2>3. CASE Redirect(w)
    <3>1. Moves("execute")
      BY <2>3 DEF Redirect
    <3>2. UNCHANGED <<pool, stop, home, setAt, setBy, alone>>
      BY <2>3 DEF Redirect, poolVars
    <3> QED BY <3>1, <3>2
  <2>4. CASE Finished(w)
    <3>1. Moves("finally")
      BY <2>4 DEF Finished
    <3>2. UNCHANGED <<pool, stop, home, setAt, setBy, alone>>
      BY <2>4 DEF Finished, poolVars
    <3> QED BY <3>1, <3>2
  <2>5. CASE Finally(w)
    <3>1. Moves("test")
      BY <2>5 DEF Finally
    <3>2. UNCHANGED <<pool, stop, home, setAt, setBy, alone>>
      BY <2>5 DEF Finally, poolVars
    <3> QED BY <3>1, <3>2
  <2>6. CASE SetAlias(w)
    BY <2>6 DEF SetAlias, poolVars
  <2>7. CASE EndChunk(w)
    BY <2>7 DEF EndChunk, poolVars
  <2>8. CASE Executed(w)
    <3>1. Moves("finish")
      BY <2>8 DEF Executed
    <3>2. UNCHANGED <<pool, stop, home, setAt, setBy, alone>>
      BY <2>8 DEF Executed, poolVars
    <3> QED BY <3>1, <3>2
  <2>9. CASE \E x \in Work : PushAtom(w, x)
    BY <2>9 DEF PushAtom, poolVars, threadVars
  <2> QED BY <2>1, <2>2, <2>3, <2>4, <2>5, <2>6, <2>7, <2>8, <2>9 DEF WorkerStep
<1>3. /\ DOMAIN pc' = Worker
      /\ \A v \in Worker : \/ pc'[v] = pc[v]
                           \/ /\ pc[v] \notin {"none", "ended"} /\ pc'[v] # "none"
                              /\ pc'[v] = "ended" => stop[v]
  BY <1>1, <1>2
<1>4. WorkersOK' /\ \A r : Active(r)' = Active(r)
  BY <1>2, <1>3, PlacesKeep
<1> QED BY <1>2, <1>4

\* When the callers of set_size stay where they are, so does what they have done.
LEMMA SizesKeep ==
  ASSUME SizesOK, UNCHANGED <<setAt, setBy, alone>>, \A r : Active(r)' = Active(r)
  PROVE  SizesOK'
BY DEF SizesOK

\* Nobody becomes the last to have run alone but the one that steps.
LEMMA AloneBefore ==
  ASSUME SizesOK, NEW s \in Setter, NEW t \in Setter, SetterStep(s), alone' = t
  PROVE  s = t /\ Judged(s)
BY WorkAssumption DEF SetterStep, Judged

\* incr makes one more active, decr one fewer.
LEMMA SetterSizes ==
  ASSUME PoolInv, NEW s \in Setter, SetterStep(s)
  PROVE  PoolInv'
<1>1. /\ setAt \in [Setter -> Nat \ {0}] /\ setBy \in [Setter -> Int \cup {None}] /\ None \notin Int
      /\ WorkersOK /\ SizesOK
  BY WorkAssumption DEF PoolInv, SizesOK
<1>14. alone' \in Setter \cup {None}
  BY DEF SetterStep
<1>2. SizeOf[s] \in Nat
  BY WorkAssumption
<1>3. PICK at : at = setAt[s]
  OBVIOUS
<1>4. PICK r : r = Redirectors[at]
  OBVIOUS
<1>5. PICK by : by = setBy[s]
  OBVIOUS
<1>6. at \in DOMAIN Redirectors
  BY <1>3 DEF SetterStep, Count, Adjust, Adjusted
<1>7. \A q : IsFiniteSet(Active(q)) /\ Cardinality(Active(q)) \in Nat
  BY <1>1, ActiveFinite
<1>8. \A q : CountActive(q) = Cardinality(Active(q))
  BY DEF CountActive, Active
<1> DEFINE Been == \A i \in DOMAIN Redirectors : i < at => Cardinality(Active(Redirectors[i])) = SizeOf[s]
<1>9. Judged(s) => Been /\ (by # None => Cardinality(Active(r)) + by = SizeOf[s])
  <2>1. CASE alone = s
    BY <1>1, <1>3, <1>4, <1>5, <1>6, <2>1 DEF SizesOK
  <2>2. CASE NotBegun(s)
    <3>1. at = 1 /\ by = None
      BY <1>3, <1>5, <2>2 DEF NotBegun
    <3>2. DOMAIN Redirectors \subseteq Nat \ {0}
      BY WorkAssumption
    <3>3. \A i \in DOMAIN Redirectors : ~(i < at)
      BY <3>1, <3>2
    <3> QED BY <3>1, <3>3
  <2> QED BY <2>1, <2>2 DEF Judged
<1>10. SUFFICES /\ WorkersOK'
                /\ setAt' \in [Setter -> Nat \ {0}] /\ setBy' \in [Setter -> Int \cup {None}]
                /\ Judged(s) =>
                     /\ \A i \in DOMAIN Redirectors :
                           i < setAt'[s] => Cardinality(Active(Redirectors[i])') = SizeOf[s]
                     /\ setAt'[s] \in DOMAIN Redirectors /\ setBy'[s] # None =>
                           \E q : q = Redirectors[setAt'[s]]
                                  /\ Cardinality(Active(q)') + setBy'[s] = SizeOf[s]
  <2>1. \A t \in Setter : alone' = t => t = s /\ Judged(s)
    BY <1>1, AloneBefore
  <2> QED BY <1>10, <1>14, <2>1 DEF PoolInv, SizesOK
<1>11. CASE Count(s)
  <2>1. by = None /\ setAt' = setAt /\ UNCHANGED <<pool, stop, home, pc>>
    BY <1>5, <1>11 DEF Count, threadVars
  <2>2. WorkersOK' /\ \A q : Active(q)' = Active(q)
    BY <1>1, <2>1, PlacesKeep DEF WorkersOK
  <2>3. PICK n : n = SizeOf[s] - Cardinality(Active(r))
    OBVIOUS
  <2>4. n \in Int /\ Cardinality(Active(r)) + n = SizeOf[s]
    BY <1>2, <1>7, <2>3
  <2>5. setBy' = [setBy EXCEPT ![s] = n]
    BY <1>3, <1>4, <1>8, <1>11, <2>3 DEF Count
  <2>6. setBy' \in [Setter -> Int \cup {None}] /\ setBy'[s] = n
    BY <1>1, <2>4, <2>5
  <2> QED BY <1>1, <1>3, <1>4, <1>9, <2>1, <2>2, <2>4, <2>6
<1>12. CASE Adjusted(s)
  <2>1. by = 0 /\ setAt' = [setAt EXCEPT ![s] = @ + 1] /\ setBy' = [setBy EXCEPT ![s] = None]
        /\ UNCHANGED <<pool, stop, home, pc>>
    BY <1>5, <1>12 DEF Adjusted, threadVars
  <2>2. WorkersOK' /\ \A q : Active(q)' = Active(q)
    BY <1>1, <2>1, PlacesKeep DEF WorkersOK
  <2>3. setAt'[s] = at + 1 /\ setBy'[s] = None /\ at \in Nat \ {0}
        /\ setAt' \in [Setter -> Nat \ {0}] /\ setBy' \in [Setter -> Int \cup {None}]
    BY <1>1, <1>3, <2>1
  <2>4. DOMAIN Redirectors \subseteq Int
    BY WorkAssumption
  <2>5. \A i \in DOMAIN Redirectors : i < at + 1 => i < at \/ i = at
    BY <2>3, <2>4
  <2>6. ASSUME Judged(s), NEW i \in DOMAIN Redirectors, i < at + 1
        PROVE  Cardinality(Active(Redirectors[i])) = SizeOf[s]
    <3>1. Been /\ Cardinality(Active(r)) + 0 = SizeOf[s]
      BY <1>1, <1>9, <2>1, <2>6
    <3>2. Cardinality(Active(r)) = SizeOf[s]
      BY <1>7, <3>1
    <3> QED BY <1>4, <2>5, <2>6, <3>1, <3>2
  <2> QED BY <2>2, <2>3, <2>6
<1>13. CASE Adjust(s)
  <2>1. by \in Int /\ by # 0 /\ by # None /\ setAt' = setAt
    BY <1>1, <1>5, <1>13 DEF Adjust
  <2>2. ASSUME Judged(s), NEW i \in DOMAIN Redirectors, i < at
        PROVE  Redirectors[i] # r /\ Cardinality(Active(Redirectors[i])) = SizeOf[s]
    <3>1. Cardinality(Active(Redirectors[i])) = SizeOf[s] /\ Cardinality(Active(r)) + by = SizeOf[s]
      BY <1>9, <2>1, <2>2
    <3>2. SizeOf[s] + by # SizeOf[s]
      BY <1>2, <2>1
    <3> QED BY <3>1, <3>2
  <2>3. CASE by > 0
    <3>1. Incr(r) /\ setBy' = [setBy EXCEPT ![s] = @ - 1]
      BY <1>3, <1>4, <1>5, <1>13, <2>1, <2>3 DEF Adjust
    <3>2. WorkersOK' /\ \E v : /\ v \notin Active(r) /\ Active(r)' = Active(r) \cup {v}
                               /\ \A q : q # r => Active(q)' = Active(q)
      BY <1>1, <3>1, IncrAdds
    <3>3. Cardinality(Active(r)') = Cardinality(Active(r)) + 1
      BY <1>7, <3>2, FS_AddElement
    <3>4. setBy'[s] = by - 1 /\ setBy' \in [Setter -> Int \cup {None}]
      BY <1>1, <1>5, <2>1, <3>1
    <3>5. Judged(s) => Cardinality(Active(r)') + setBy'[s] = SizeOf[s]
      BY <1>2, <1>7, <1>9, <2>1, <3>3, <3>4
    <3>6. ASSUME Judged(s), NEW i \in DOMAIN Redirectors, i < at
          PROVE  Cardinality(Active(Redirectors[i])') = SizeOf[s]
      BY <2>2, <3>2, <3>6
    <3> QED BY <1>1, <1>3, <1>4, <2>1, <3>2, <3>4, <3>5, <3>6
  <2>4. CASE by < 0
    <3>1. Decr(r) /\ setBy' = [setBy EXCEPT ![s] = @ + 1]
      BY <1>3, <1>4, <1>5, <1>13, <2>1, <2>4 DEF Adjust
    <3>2. setBy'[s] = by + 1 /\ setBy' \in [Setter -> Int \cup {None}]
      BY <1>1, <1>5, <2>1, <3>1
    <3>3. CASE Active(r) # {}
      <4>1. WorkersOK' /\ \E v : /\ v \in Active(r) /\ Active(r)' = Active(r) \ {v}
                                 /\ \A q : q # r => Active(q)' = Active(q)
        BY <1>1, <3>1, <3>3, DecrTakes
      <4>2. Cardinality(Active(r)') = Cardinality(Active(r)) - 1
        BY <1>7, <4>1, FS_RemoveElement
      <4>3. Judged(s) => Cardinality(Active(r)') + setBy'[s] = SizeOf[s]
        BY <1>2, <1>7, <1>9, <2>1, <3>2, <4>2
      <4>4. ASSUME Judged(s), NEW i \in DOMAIN Redirectors, i < at
            PROVE  Cardinality(Active(Redirectors[i])') = SizeOf[s]
        BY <2>2, <4>1, <4>4
      <4> QED BY <1>1, <1>3, <1>4, <2>1, <3>2, <4>1, <4>3, <4>4
    <3>4. CASE Active(r) = {}
      <4>1. ~Judged(s)
        <5>1. Cardinality(Active(r)) = 0
          BY <3>4, FS_EmptySet
        <5> QED BY <1>2, <1>9, <2>1, <2>4, <5>1
      <4>2. WorkersOK'
        BY <1>1, <3>1, DecrKeeps
      <4> QED BY <1>1, <2>1, <3>2, <4>1, <4>2
    <3> QED BY <3>3, <3>4
  <2> QED BY <2>1, <2>3, <2>4
<1> QED BY <1>11, <1>12, <1>13 DEF SetterStep

\* It holds at first.
LEMMA PoolInit ==
  ASSUME Init
  PROVE  PoolInv
<1>1. PICK n : n = StartSize * Len(Redirectors)
  OBVIOUS
<1>2. n \in Nat /\ n <= NWorkers /\ NWorkers \in Nat /\ DOMAIN Redirectors \subseteq Nat \ {0}
  BY <1>1, WorkAssumption
<1>3. pool = [i \in 1 .. n |-> i]
  BY <1>1 DEF Init
<1>4. pool \in Seq(Worker)
  BY <1>2, <1>3 DEF Worker
<1>5. WorkersOK
  <2>1. pc = [w \in Worker |-> IF w \in InPool THEN "test" ELSE "none"]
        /\ stop = [w \in Worker |-> FALSE] /\ DOMAIN home = Worker
    BY DEF Init
  <2> QED BY <1>4, <2>1 DEF WorkersOK
<1>6. SizesOK
  <2>1. setAt = [s \in Setter |-> 1] /\ setBy = [s \in Setter |-> None] /\ alone = None
    BY DEF Init
  <2>2. None \notin Setter
    BY WorkAssumption
  <2> QED BY <2>1, <2>2 DEF SizesOK
<1> QED BY <1>5, <1>6 DEF PoolInv

\* "[set_size n] sets the worker pool size to [n]": a set_size that no other ran
\* with leaves each redirector with as many active workers as asked, whatever
\* the workers did in the meantime, and even if earlier ones, which may have run
\* together, left some that are still being stopped.  No redirector has to be
\* listed only once.
THEOREM PoolIsSized == Spec => []PoolSized
<1>1. Init => PoolInv
  BY PoolInit
<1>2. PoolInv /\ [Next]_vars => PoolInv'
  <2> SUFFICES ASSUME PoolInv, [Next]_vars PROVE PoolInv'
    OBVIOUS
  <2>1. WorkersOK /\ SizesOK
    BY DEF PoolInv
  <2>2. CASE UNCHANGED <<pool, stop, home, setAt, setBy, alone, pc>>
    <3>1. WorkersOK' /\ \A r : Active(r)' = Active(r)
      BY <2>1, <2>2, PlacesKeep DEF WorkersOK
    <3> QED BY <2>1, <2>2, <3>1, SizesKeep DEF PoolInv
  <2>3. ASSUME NEW x \in Work, Submit(x) PROVE PoolInv'
    BY <2>2, <2>3 DEF Submit, poolVars, threadVars
  <2>4. ASSUME NEW w \in Worker, WorkerStep(w) PROVE PoolInv'
    BY <2>1, <2>4, WorkersStep, SizesKeep DEF PoolInv
  <2>5. ASSUME NEW w \in Worker, NEW x \in Work, Expire(w, x) PROVE PoolInv'
    BY <2>2, <2>5 DEF Expire, poolVars
  <2>6. ASSUME NEW s \in Setter, SetterStep(s) PROVE PoolInv'
    BY <2>6, SetterSizes
  <2>7. CASE UNCHANGED vars
    BY <2>2, <2>7 DEF vars, poolVars, threadVars
  <2> QED BY <2>3, <2>4, <2>5, <2>6, <2>7 DEF Next
<1>3. PoolInv => PoolSized
  <2> SUFFICES ASSUME PoolInv, alone # None, Returned(alone), NEW r \in Redirector
               PROVE  CountActive(r) = SizeOf[alone]
    BY DEF PoolSized
  <2>1. PICK i \in DOMAIN Redirectors : Redirectors[i] = r
    BY DEF Redirector
  <2>2. alone \in Setter /\ \A j \in DOMAIN Redirectors :
           j < setAt[alone] => Cardinality(Active(Redirectors[j])) = SizeOf[alone]
    BY DEF PoolInv, SizesOK
  <2>3. i < setAt[alone]
    <3>1. PICK n \in Nat : DOMAIN Redirectors = 1 .. n
      BY WorkAssumption
    <3>2. setAt[alone] \in Nat \ {0}
      BY <2>2 DEF PoolInv, SizesOK
    <3> QED BY <3>1, <3>2 DEF Returned
  <2> QED BY <2>1, <2>2, <2>3 DEF CountActive, Active
<1> QED BY <1>1, <1>2, <1>3, PTL DEF Spec
=============================================================================
