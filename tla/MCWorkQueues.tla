------------------------------ MODULE MCWorkQueues ------------------------------
(***************************************************************************)
(* Instances of WorkQueues for TLC: operations on two VMs, events that ask *)
(* for their states to be checked, an operation that splits into atoms,    *)
(* and changes of the pool's size.                                         *)
(***************************************************************************)
EXTENDS WorkQueues

CONSTANTS default, parallel, nested, receive, check, s1, s2

\* Items 1 to 4 are on VM 1, two of them the same check; 5 and 6 are on VM 2.
SerialTags   == <<1, 1, 1, 1, 2, 2>>
SerialHome   == [x \in Work |-> default]
SerialCheck  == <<None, check, check, None, None, None>>
DefaultOnly  == <<default>>

\* An operation with an atom, which sends the operations of another VM to its
\* own queue while it lasts.
AtomTags     == <<1, 2>>
AtomHome     == <<default, parallel>>
AtomAtoms    == <<<<2>>, <<>>>>
AtomAlias    == <<3, None>>
Levels       == <<default, parallel>>

NoAtoms      == [x \in Work |-> <<>>]
NoAlias      == [x \in Work |-> None]
NoCheck      == [x \in Work |-> None]

OneSetter    == [s \in Setter |-> 1]
DownAndUp    == [s \in Setter |-> IF s = s1 THEN 1 ELSE 2]
=============================================================================
