---------------------------- MODULE KeyValueFile ----------------------------
(***************************************************************************)
(* KeyValueConfig of extauth-hook-AD.py: how the hook edits the lines of   *)
(* /etc/nsswitch.conf and /etc/ssh/sshd_config.  A line is blank, a        *)
(* comment, a pair of a key and a value, or raw: what the separator does   *)
(* not split in two.                                                       *)
(***************************************************************************)
EXTENDS Sequences, Integers

Line == [kind : {"pair", "comment", "blank", "raw"}, key : STRING, value : STRING]
PairLine(key, value) == [kind |-> "pair", key |-> key, value |-> value]
OtherLine(kind) == [kind |-> kind, key |-> "", value |-> ""]

(* _load_values: the entries of the OrderedDict, in order; a line that is  *)
(* not a pair, or repeats a key, is stored under a key of its own.         *)
IsEntry(lines, i, key) ==
    /\ lines[i].kind = "pair" /\ lines[i].key = key
    /\ \A j \in 1..(i - 1) : lines[j].kind = "pair" => lines[j].key # key
HasEntry(lines, key) == \E i \in DOMAIN lines : IsEntry(lines, i, key)

UpdateAll(lines, key, value) ==    \* mutant: a repeated key is taken for the same entry
    LET others == SelectSeq(lines, LAMBDA l : l.kind # "pair" \/ l.key # key)
    IN  Append(others, PairLine(key, value))
(* _update_key_value and _apply_to_cache: the entry keeps its place, or a  *)
(* new one goes to the end; the others are written back as they were.      *)
Update(lines, key, value) ==
    IF HasEntry(lines, key)
    THEN [i \in DOMAIN lines |-> IF IsEntry(lines, i, key) THEN PairLine(key, value) ELSE lines[i]]
    ELSE Append(lines, PairLine(key, value))

(* What the file's users take for the key's value: the first of its lines. *)
Effective(lines, key) ==
    IF HasEntry(lines, key)
    THEN lines[CHOOSE i \in DOMAIN lines : IsEntry(lines, i, key)].value
    ELSE "none"

(* The lines other than the keys' own entries, each at its place. *)
Others(lines, keys) ==
    [i \in {j \in DOMAIN lines : \A k \in keys : ~IsEntry(lines, j, k)} |-> lines[i]]
=============================================================================
