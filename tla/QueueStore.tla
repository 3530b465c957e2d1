------------------------------ MODULE QueueStore ------------------------------
(***************************************************************************)
(* What the message switch promises its clients, before any of its         *)
(* machinery: a store of named mailboxes whose operations take effect one  *)
(* at a time.  A message enters a mailbox under an identifier above every  *)
(* other there, stays as it is, and leaves only when it is acknowledged or *)
(* its mailbox is removed; an identifier is never given out twice in the   *)
(* life of a mailbox, even if its message never arrives.                   *)
(***************************************************************************)
EXTENDS Integers

CONSTANTS Name, Entry

VARIABLES box,     \* mailbox name -> identifier -> entry
          next     \* mailbox name -> the next identifier

Init == /\ box = [n \in {} |-> {}]
        /\ next = [n \in {} |-> 0]

With(f, k, v) == [x \in DOMAIN f \cup {k} |-> IF x = k THEN v ELSE f[x]]

Without(f, S) == [x \in DOMAIN f \ S |-> f[x]]

Create(n) ==
    /\ n \notin DOMAIN box
    /\ box' = With(box, n, [i \in {} |-> {}])
    /\ next' = With(next, n, 0)

Remove(S) ==
    /\ box' = Without(box, S)
    /\ next' = Without(next, S)

Allocate(n) ==
    /\ n \in DOMAIN box
    /\ next' = [next EXCEPT ![n] = @ + 1]
    /\ UNCHANGED box

\* The message of an identifier allocated before.
Deliver(n, id, e) ==
    /\ n \in DOMAIN box
    /\ id < next[n] /\ \A i \in DOMAIN box[n] : i < id
    /\ box' = [box EXCEPT ![n] = With(@, id, e)]
    /\ UNCHANGED next

\* Both at once.
Post(n, e) ==
    /\ n \in DOMAIN box
    /\ box' = [box EXCEPT ![n] = With(@, next[n], e)]
    /\ next' = [next EXCEPT ![n] = @ + 1]

Acknowledge(n, id) ==
    /\ n \in DOMAIN box /\ id \in DOMAIN box[n]
    /\ box' = [box EXCEPT ![n] = Without(@, {id})]
    /\ UNCHANGED next

Next ==
    \/ \E n \in Name : Create(n) \/ Allocate(n)
    \/ \E S \in SUBSET Name : Remove(S)
    \/ \E n \in DOMAIN box, e \in Entry :
          Post(n, e) \/ \E id \in 0 .. next[n] : Deliver(n, id, e)
    \/ \E n \in DOMAIN box : \E id \in DOMAIN box[n] : Acknowledge(n, id)

Spec == Init /\ [][Next]_<<box, next>>
=============================================================================
