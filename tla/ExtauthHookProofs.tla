-------------------------- MODULE ExtauthHookProofs --------------------------
(***************************************************************************)
(* What the Active Directory hook keeps: the lines of the files that are   *)
(* not its own (OtherLinesKept), lists that are the pool administrators of *)
(* the database (ListsExact), and files that agree with the host's type    *)
(* (FilesAgree).                                                           *)
(***************************************************************************)
EXTENDS ExtauthHook, NaturalsInduction, WellFoundedInduction, TLAPS

(***************************************************************************)
(* The lines of a file.                                                    *)
(***************************************************************************)

\* Induction over a set of numbers.
LEMMA Induction ==
  ASSUME NEW S, 0 \in S, \A i \in Nat : i \in S => i + 1 \in S
  PROVE  \A i \in Nat : i \in S
<1> DEFINE T == Nat \ S
<1> SUFFICES ASSUME T # {} PROVE FALSE
  OBVIOUS
<1>1. PICK x \in T : \A y \in T : ~(<<y, x>> \in OpToRel(<, Nat))
  BY NatLessThanWellFounded, WFMin
<1>2. x \in Nat /\ x \notin S /\ \A y \in Nat \ S : ~(y < x)
  BY <1>1 DEF OpToRel
<1>3. x # 0
  BY <1>2
<1>4. x - 1 \in Nat /\ x - 1 < x /\ (x - 1) + 1 = x
  BY <1>2, <1>3
<1>5. x - 1 \in S
  BY <1>2, <1>4
<1> QED BY <1>2, <1>4, <1>5

\* A line with any of the values, those the hook writes among them.
Values == STRING \cup {"winbind", "sss", "yes", "no"}
FileLine == [kind : {"pair", "comment", "blank", "raw"}, key : STRING, value : Values]

\* An entry is the first line of its key: a key has at most one, whose value
\* is the one in force.
LEMMA EffectiveIs ==
  ASSUME NEW lines \in Seq(FileLine), NEW k, NEW i \in DOMAIN lines, IsEntry(lines, i, k)
  PROVE  /\ HasEntry(lines, k)
         /\ Effective(lines, k) = lines[i].value
<1>1. \A j \in DOMAIN lines : IsEntry(lines, j, k) => j = i
  BY DEF IsEntry
<1>2. (CHOOSE j \in DOMAIN lines : IsEntry(lines, j, k)) = i
  BY <1>1
<1> QED BY <1>2 DEF HasEntry, Effective

\* A key without an entry has no line at all.
LEMMA NoPair ==
  ASSUME NEW lines \in Seq(FileLine), NEW k, ~HasEntry(lines, k)
  PROVE  \A i \in DOMAIN lines : ~(lines[i].kind = "pair" /\ lines[i].key = k)
<1> DEFINE P(n) == \A i \in DOMAIN lines : i <= n => ~(lines[i].kind = "pair" /\ lines[i].key = k)
           S == {n \in Nat : P(n)}
<1>1. 0 \in S
  OBVIOUS
<1>2. ASSUME NEW n \in Nat, n \in S PROVE n + 1 \in S
  <2>1. ASSUME n + 1 \in DOMAIN lines, lines[n + 1].kind = "pair", lines[n + 1].key = k PROVE FALSE
    <3>1. \A j \in 1 .. ((n + 1) - 1) : j \in DOMAIN lines /\ j <= n
      BY <2>1
    <3>2. IsEntry(lines, n + 1, k)
      BY <1>2, <2>1, <3>1 DEF IsEntry
    <3> QED BY <2>1, <3>2 DEF HasEntry
  <2>2. \A i \in DOMAIN lines : i <= n + 1 => i <= n \/ i = n + 1
    OBVIOUS
  <2> QED BY <1>2, <2>1, <2>2
<1> HIDE DEF S
<1>3. \A n \in Nat : n \in S
  BY <1>1, <1>2, Induction
<1>4. \A i \in DOMAIN lines : i \in Nat
  OBVIOUS
<1> QED BY <1>3, <1>4 DEF S

\* What an update of a key's entry does: the lines keep their places, their
\* kinds and their keys.
LEMMA UpdateInPlace ==
  ASSUME NEW lines \in Seq(FileLine), NEW k \in STRING, NEW v \in Values, HasEntry(lines, k)
  PROVE  LET new == Update(lines, k, v) IN
         /\ new \in Seq(FileLine) /\ DOMAIN new = DOMAIN lines
         /\ \A i \in DOMAIN lines : IsEntry(lines, i, k) => new[i] = PairLine(k, v)
         /\ \A i \in DOMAIN lines : ~IsEntry(lines, i, k) => new[i] = lines[i]
         /\ \A i \in DOMAIN lines, k2 \in STRING : IsEntry(new, i, k2) <=> IsEntry(lines, i, k2)
<1> DEFINE new == Update(lines, k, v)
<1>1. new = [i \in DOMAIN lines |-> IF IsEntry(lines, i, k) THEN PairLine(k, v) ELSE lines[i]]
  BY DEF Update
<1>2. PairLine(k, v) \in FileLine /\ PairLine(k, v).kind = "pair" /\ PairLine(k, v).key = k
  BY DEF PairLine, FileLine, Values
<1>3. \A i \in DOMAIN lines : lines[i] \in FileLine
  OBVIOUS
<1>4. DOMAIN lines = 1 .. Len(lines) /\ Len(lines) \in Nat
  OBVIOUS
<1>5. \A i \in DOMAIN lines : new[i] = IF IsEntry(lines, i, k) THEN PairLine(k, v) ELSE lines[i]
  BY <1>1
<1>6. DOMAIN new = DOMAIN lines
  BY <1>1
<1>7. \A i \in 1 .. Len(lines) : (IF IsEntry(lines, i, k) THEN PairLine(k, v) ELSE lines[i]) \in FileLine
  BY <1>2, <1>3, <1>4
<1>8. new \in Seq(FileLine)
  <2> DEFINE e(i) == IF IsEntry(lines, i, k) THEN PairLine(k, v) ELSE lines[i]
  <2>1. new = [i \in 1 .. Len(lines) |-> e(i)] /\ \A i \in 1 .. Len(lines) : e(i) \in FileLine
    BY <1>1, <1>4, <1>7
  <2> HIDE DEF new, e
  <2> QED BY <1>4, <2>1
<1> HIDE DEF new
<1>9. \A i \in DOMAIN lines : new[i].kind = lines[i].kind /\ (lines[i].kind = "pair" => new[i].key = lines[i].key)
  BY <1>2, <1>5 DEF IsEntry
<1>10. \A i \in DOMAIN lines, k2 \in STRING : IsEntry(new, i, k2) <=> IsEntry(lines, i, k2)
  <2> SUFFICES ASSUME NEW i \in DOMAIN lines, NEW k2 \in STRING
               PROVE  IsEntry(new, i, k2) <=> IsEntry(lines, i, k2)
    OBVIOUS
  <2>1. \A j \in 1 .. (i - 1) : j \in DOMAIN lines
    BY <1>4
  <2> QED BY <1>9, <2>1 DEF IsEntry
<1> QED BY <1>5, <1>6, <1>8, <1>10 DEF new

\* A key without an entry gets one at the end.
LEMMA UpdateAtEnd ==
  ASSUME NEW lines \in Seq(FileLine), NEW k \in STRING, NEW v \in Values, ~HasEntry(lines, k)
  PROVE  LET new == Update(lines, k, v)
             n == Len(lines) + 1
         IN
         /\ new \in Seq(FileLine) /\ DOMAIN new = DOMAIN lines \cup {n} /\ n \notin DOMAIN lines
         /\ new[n] = PairLine(k, v)
         /\ \A i \in DOMAIN lines : new[i] = lines[i]
         /\ \A i \in DOMAIN lines, k2 \in STRING : IsEntry(new, i, k2) <=> IsEntry(lines, i, k2)
         /\ \A k2 \in STRING : IsEntry(new, n, k2) <=> k2 = k
<1> DEFINE new == Update(lines, k, v)
           n == Len(lines) + 1
<1>1. new = Append(lines, PairLine(k, v))
  BY DEF Update
<1>2. PairLine(k, v) \in FileLine /\ PairLine(k, v).kind = "pair" /\ PairLine(k, v).key = k
  BY DEF PairLine, FileLine, Values
<1>3. DOMAIN lines = 1 .. Len(lines) /\ Len(lines) \in Nat
  OBVIOUS
<1>4. new \in Seq(FileLine) /\ Len(new) = n /\ new[n] = PairLine(k, v) /\ \A i \in DOMAIN lines : new[i] = lines[i]
  <2> DEFINE p == PairLine(k, v)
  <2>1. p \in FileLine
    BY <1>2
  <2>2. new = Append(lines, p)
    BY <1>1
  <2> HIDE DEF new, p
  <2>3. new \in Seq(FileLine) /\ Len(new) = n /\ new[n] = p /\ \A i \in DOMAIN lines : new[i] = lines[i]
    BY <2>1, <2>2
  <2> QED BY <2>3 DEF p
<1>5. DOMAIN new = DOMAIN lines \cup {n} /\ n \notin DOMAIN lines
  <2>1. DOMAIN new = 1 .. n
    BY <1>4
  <2> QED BY <1>3, <2>1
<1> HIDE DEF new
<1>6. \A i \in DOMAIN lines, k2 \in STRING : IsEntry(new, i, k2) <=> IsEntry(lines, i, k2)
  <2> SUFFICES ASSUME NEW i \in DOMAIN lines, NEW k2 \in STRING
               PROVE  IsEntry(new, i, k2) <=> IsEntry(lines, i, k2)
    OBVIOUS
  <2>1. \A j \in 1 .. (i - 1) : j \in DOMAIN lines
    BY <1>3
  <2> QED BY <1>4, <2>1 DEF IsEntry
<1>7. \A k2 \in STRING : IsEntry(new, n, k2) <=> k2 = k
  <2>1. \A j \in 1 .. (n - 1) : new[j] = lines[j] /\ j \in DOMAIN lines
    BY <1>3, <1>4
  <2>2. \A j \in 1 .. (n - 1) : ~(new[j].kind = "pair" /\ new[j].key = k)
    BY <2>1, NoPair
  <2> QED BY <1>2, <1>4, <2>2 DEF IsEntry
<1> QED BY <1>4, <1>5, <1>6, <1>7 DEF new

\* The value of the key is the one given,
LEMMA UpdateEffective ==
  ASSUME NEW lines \in Seq(FileLine), NEW k \in STRING, NEW v \in Values
  PROVE  Update(lines, k, v) \in Seq(FileLine) /\ Effective(Update(lines, k, v), k) = v
<1> DEFINE new == Update(lines, k, v)
           n == Len(lines) + 1
<1>0. PairLine(k, v).value = v
  BY DEF PairLine
<1>1. CASE HasEntry(lines, k)
  <2>1. /\ new \in Seq(FileLine) /\ DOMAIN new = DOMAIN lines
        /\ \A i \in DOMAIN lines : IsEntry(lines, i, k) => new[i] = PairLine(k, v)
        /\ \A i \in DOMAIN lines : ~IsEntry(lines, i, k) => new[i] = lines[i]
        /\ \A i \in DOMAIN lines, k2 \in STRING : IsEntry(new, i, k2) <=> IsEntry(lines, i, k2)
    BY <1>1, UpdateInPlace
  <2> HIDE DEF new
  <2>2. PICK i \in DOMAIN lines : IsEntry(lines, i, k)
    BY <1>1 DEF HasEntry
  <2>3. Effective(new, k) = v
    BY <1>0, <2>1, <2>2, EffectiveIs
  <2> QED BY <2>1, <2>3 DEF new
<1>2. CASE ~HasEntry(lines, k)
  <2>1. /\ new \in Seq(FileLine) /\ DOMAIN new = DOMAIN lines \cup {n} /\ n \notin DOMAIN lines
        /\ new[n] = PairLine(k, v)
        /\ \A i \in DOMAIN lines : new[i] = lines[i]
        /\ \A i \in DOMAIN lines, k2 \in STRING : IsEntry(new, i, k2) <=> IsEntry(lines, i, k2)
        /\ \A k2 \in STRING : IsEntry(new, n, k2) <=> k2 = k
    BY <1>2, UpdateAtEnd
  <2> HIDE DEF new, n
  <2>3. Effective(new, k) = v
    BY <1>0, <2>1, EffectiveIs
  <2> QED BY <2>1, <2>3 DEF new
<1> QED BY <1>1, <1>2

\* and those of the other keys stay.
LEMMA UpdateOtherKey ==
  ASSUME NEW lines \in Seq(FileLine), NEW k \in STRING, NEW v \in Values, NEW other \in STRING \ {k}
  PROVE  Effective(Update(lines, k, v), other) = Effective(lines, other)
<1> DEFINE new == Update(lines, k, v)
           n == Len(lines) + 1
<1>1. /\ new \in Seq(FileLine)
      /\ \A i \in DOMAIN lines : IsEntry(lines, i, other) =>
            i \in DOMAIN new /\ IsEntry(new, i, other) /\ new[i] = lines[i]
      /\ HasEntry(new, other) => HasEntry(lines, other)
  <2>1. CASE HasEntry(lines, k)
    <3>1. /\ new \in Seq(FileLine) /\ DOMAIN new = DOMAIN lines
          /\ \A i \in DOMAIN lines : IsEntry(lines, i, k) => new[i] = PairLine(k, v)
          /\ \A i \in DOMAIN lines : ~IsEntry(lines, i, k) => new[i] = lines[i]
          /\ \A i \in DOMAIN lines, k2 \in STRING : IsEntry(new, i, k2) <=> IsEntry(lines, i, k2)
      BY <2>1, UpdateInPlace
    <3> HIDE DEF new
    <3>2. \A i \in DOMAIN lines : IsEntry(lines, i, other) => ~IsEntry(lines, i, k)
      BY DEF IsEntry
    <3> QED BY <3>1, <3>2 DEF HasEntry
  <2>2. CASE ~HasEntry(lines, k)
    <3>1. /\ new \in Seq(FileLine) /\ DOMAIN new = DOMAIN lines \cup {n} /\ n \notin DOMAIN lines
          /\ new[n] = PairLine(k, v)
          /\ \A i \in DOMAIN lines : new[i] = lines[i]
          /\ \A i \in DOMAIN lines, k2 \in STRING : IsEntry(new, i, k2) <=> IsEntry(lines, i, k2)
          /\ \A k2 \in STRING : IsEntry(new, n, k2) <=> k2 = k
      BY <2>2, UpdateAtEnd
    <3> HIDE DEF new, n
    <3> QED BY <3>1 DEF HasEntry
  <2> QED BY <2>1, <2>2
<1> HIDE DEF new
<1>2. CASE HasEntry(lines, other)
  <2>1. PICK i \in DOMAIN lines : IsEntry(lines, i, other)
    BY <1>2 DEF HasEntry
  <2>2. Effective(lines, other) = lines[i].value
    BY <2>1, EffectiveIs
  <2>3. Effective(new, other) = new[i].value
    BY <1>1, <2>1, EffectiveIs
  <2> QED BY <1>1, <2>1, <2>2, <2>3 DEF new
<1>3. CASE ~HasEntry(lines, other)
  BY <1>1, <1>3 DEF Effective, new
<1> QED BY <1>2, <1>3

\* The lines that are not the keys' stay, each at its place.
LEMMA UpdateOthers ==
  ASSUME NEW lines \in Seq(FileLine), NEW keys \in SUBSET STRING, NEW k \in keys, NEW v \in Values
  PROVE  Others(Update(lines, k, v), keys) = Others(lines, keys)
<1> DEFINE new == Update(lines, k, v)
           n == Len(lines) + 1
           Own(l, i) == \E k2 \in keys : IsEntry(l, i, k2)
<1>0. k \in STRING
  OBVIOUS
<1>1. /\ {i \in DOMAIN new : \A k2 \in keys : ~IsEntry(new, i, k2)}
           = {i \in DOMAIN lines : \A k2 \in keys : ~IsEntry(lines, i, k2)}
      /\ \A i \in {i \in DOMAIN lines : \A k2 \in keys : ~IsEntry(lines, i, k2)} : new[i] = lines[i]
  <2>1. CASE HasEntry(lines, k)
    <3>1. /\ DOMAIN new = DOMAIN lines
          /\ \A i \in DOMAIN lines : ~IsEntry(lines, i, k) => new[i] = lines[i]
          /\ \A i \in DOMAIN lines, k2 \in STRING : IsEntry(new, i, k2) <=> IsEntry(lines, i, k2)
      BY <1>0, <2>1, UpdateInPlace
    <3> HIDE DEF new
    <3> QED BY <3>1
  <2>2. CASE ~HasEntry(lines, k)
    <3>1. /\ new \in Seq(FileLine) /\ DOMAIN new = DOMAIN lines \cup {n} /\ n \notin DOMAIN lines
          /\ new[n] = PairLine(k, v)
          /\ \A i \in DOMAIN lines : new[i] = lines[i]
          /\ \A i \in DOMAIN lines, k2 \in STRING : IsEntry(new, i, k2) <=> IsEntry(lines, i, k2)
          /\ \A k2 \in STRING : IsEntry(new, n, k2) <=> k2 = k
      BY <1>0, <2>2, UpdateAtEnd
    <3> HIDE DEF new, n
    <3> QED BY <1>0, <3>1
  <2> QED BY <2>1, <2>2
<1> HIDE DEF new
<1> QED BY <1>1 DEF Others, new

\* The files an UpdateKeys goes through, each an update of the one before.
Edits(f, lines, keys, value, n) ==
    [i \in 0 .. n |-> IF i = 0 THEN lines ELSE Update(f[i - 1], keys[i], value)]

\* There are such,
LEMMA EditsExist ==
  ASSUME NEW lines, NEW keys, NEW value
  PROVE  \A n \in Nat : \E f : f = Edits(f, lines, keys, value, n)
<1> DEFINE S == {n \in Nat : \E f : f = Edits(f, lines, keys, value, n)}
<1>1. 0 \in S
  <2> DEFINE f == [i \in 0 .. 0 |-> lines]
  <2>1. f = Edits(f, lines, keys, value, 0)
    BY DEF Edits
  <2> QED BY <2>1
<1>2. ASSUME NEW n \in Nat, n \in S PROVE n + 1 \in S
  <2>1. PICK f : f = Edits(f, lines, keys, value, n)
    BY <1>2
  <2> DEFINE g == [i \in 0 .. n + 1 |-> IF i = n + 1 THEN Update(f[n], keys[n + 1], value) ELSE f[i]]
  <2>2. \A i \in 0 .. n : g[i] = f[i]
    OBVIOUS
  <2>3. \A i \in 0 .. n : f[i] = IF i = 0 THEN lines ELSE Update(f[i - 1], keys[i], value)
    BY <2>1 DEF Edits
  <2>4. \A i \in 0 .. n + 1 : g[i] = IF i = 0 THEN lines ELSE Update(g[i - 1], keys[i], value)
    <3> SUFFICES ASSUME NEW i \in 0 .. n + 1
                 PROVE  g[i] = IF i = 0 THEN lines ELSE Update(g[i - 1], keys[i], value)
      OBVIOUS
    <3>1. CASE i = n + 1
      <4>1. g[i] = Update(f[n], keys[n + 1], value)
        BY <3>1
      <4>2. g[i - 1] = f[n] /\ i # 0
        BY <2>2, <3>1
      <4> HIDE DEF g
      <4> QED BY <3>1, <4>1, <4>2
    <3>2. CASE i # n + 1
      <4>1. i \in 0 .. n /\ (i # 0 => i - 1 \in 0 .. n)
        BY <3>2
      <4> HIDE DEF g
      <4> QED BY <2>2, <2>3, <4>1
    <3> QED BY <3>1, <3>2
  <2>5. g = [i \in 0 .. n + 1 |-> g[i]]
    OBVIOUS
  <2>6. g = Edits(g, lines, keys, value, n + 1)
    <3> HIDE DEF g
    <3> QED BY <2>4, <2>5 DEF Edits
  <2> HIDE DEF g
  <2> QED BY <2>6
<1> HIDE DEF S
<1>3. \A n \in Nat : n \in S
  BY <1>1, <1>2, Induction
<1> QED BY <1>3 DEF S

\* and after i of them the file has lines only, the first i keys have the
\* value, and the lines that are not the keys' are as they were:
Edited(file, i, lines, keys, value, own) ==
    /\ file \in Seq(FileLine)
    /\ \A j \in 1 .. i : Effective(file, keys[j]) = value
    /\ Others(file, own) = Others(lines, own)

\* an update of the next key keeps that,
LEMMA EditKeeps ==
  ASSUME NEW lines, NEW keys, NEW value \in Values, NEW own \in SUBSET STRING,
         NEW i \in Nat, NEW k \in own, NEW file
  PROVE  (/\ k = keys[i + 1] /\ \A j \in 1 .. i : keys[j] \in STRING
          /\ Edited(file, i, lines, keys, value, own))
         => Edited(Update(file, k, value), i + 1, lines, keys, value, own)
<1>0. SUFFICES ASSUME k = keys[i + 1], \A j \in 1 .. i : keys[j] \in STRING,
                      Edited(file, i, lines, keys, value, own)
               PROVE  Edited(Update(file, k, value), i + 1, lines, keys, value, own)
  OBVIOUS
<1>1. file \in Seq(FileLine) /\ k \in STRING
  BY <1>0 DEF Edited
<1>2. \A j \in 1 .. i : Effective(file, keys[j]) = value
  BY <1>0 DEF Edited
<1>3. Others(file, own) = Others(lines, own)
  BY <1>0 DEF Edited
<1> DEFINE new == Update(file, k, value)
<1>4. new \in Seq(FileLine) /\ Effective(new, k) = value
  BY <1>1, UpdateEffective
<1>5. Others(new, own) = Others(lines, own)
  BY <1>1, <1>3, UpdateOthers
<1>6. \A other \in STRING \ {k} : Effective(new, other) = Effective(file, other)
  BY <1>1, UpdateOtherKey
<1> HIDE DEF new
<1>7. ASSUME NEW j \in 1 .. i + 1 PROVE Effective(new, keys[j]) = value
  <2>1. CASE keys[j] = k
    BY <1>4, <2>1
  <2>2. CASE keys[j] # k
    <3>1. j \in 1 .. i /\ keys[j] \in STRING \ {k}
      BY <1>0, <2>2
    <3> QED BY <1>2, <1>6, <3>1
  <2> QED BY <2>1, <2>2
<1> QED BY <1>4, <1>5, <1>7 DEF Edited, new

\* and so it holds of the last.
LEMMA EditsKeep ==
  ASSUME NEW lines, NEW keys, NEW value, NEW own, NEW n \in Nat,
         NEW f, f = Edits(f, lines, keys, value, n),
         Edited(lines, 0, lines, keys, value, own),
         \A i, file : i \in Nat /\ i < n /\ Edited(file, i, lines, keys, value, own)
             => Edited(Update(file, keys[i + 1], value), i + 1, lines, keys, value, own)
  PROVE  Edited(f[n], n, lines, keys, value, own)
<1>1. f[0] = lines
  BY DEF Edits
<1>2. ASSUME NEW i \in Nat, i < n PROVE f[i + 1] = Update(f[i], keys[i + 1], value)
  <2>1. i + 1 \in 0 .. n /\ i + 1 # 0 /\ (i + 1) - 1 = i
    BY <1>2
  <2> QED BY <2>1 DEF Edits
<1> DEFINE S == {i \in Nat : i <= n => Edited(f[i], i, lines, keys, value, own)}
<1>3. 0 \in S
  BY <1>1
<1>4. ASSUME NEW i \in Nat, i \in S PROVE i + 1 \in S
  <2>1. ASSUME i + 1 <= n PROVE Edited(f[i + 1], i + 1, lines, keys, value, own)
    <3>1. i < n /\ Edited(f[i], i, lines, keys, value, own)
      BY <1>4, <2>1
    <3> QED BY <1>2, <3>1
  <2> QED BY <2>1
<1> HIDE DEF S
<1>5. \A i \in Nat : i \in S
  BY <1>3, <1>4, Induction
<1> QED BY <1>5 DEF S

Own(keys) == {keys[i] : i \in DOMAIN keys}

\* The hook's edit of a file: it stays a file of lines, the keys get the
\* value, and the lines that are not the keys' stay.
LEMMA UpdateKeysIs ==
  ASSUME NEW lines \in Seq(FileLine), NEW keys \in Seq(STRING), NEW value \in Values
  PROVE  /\ UpdateKeys(lines, keys, value) \in Seq(FileLine)
         /\ \A i \in DOMAIN keys : Effective(UpdateKeys(lines, keys, value), keys[i]) = value
         /\ Others(UpdateKeys(lines, keys, value), Own(keys)) = Others(lines, Own(keys))
<1> DEFINE own == Own(keys)
           n == Len(keys)
           f == CHOOSE f : f = Edits(f, lines, keys, value, n)
<1>1. own \in SUBSET STRING /\ n \in Nat /\ DOMAIN keys = 1 .. n /\ \A i \in 1 .. n : keys[i] \in own
  BY DEF Own
<1>2. f = Edits(f, lines, keys, value, n)
  BY <1>1, EditsExist
<1>3. UpdateKeys(lines, keys, value) = f[n]
  BY DEF UpdateKeys, Edits
<1> HIDE DEF f, n, own
<1>4. Edited(lines, 0, lines, keys, value, own)
  BY DEF Edited
<1>5. ASSUME NEW i \in Nat, NEW file, i < n, Edited(file, i, lines, keys, value, own)
      PROVE  Edited(Update(file, keys[i + 1], value), i + 1, lines, keys, value, own)
  <2>1. i + 1 \in 1 .. n /\ \A j \in 1 .. i : j \in 1 .. n
    BY <1>1, <1>5
  <2> QED BY <1>1, <1>5, <2>1, EditKeeps
<1>6. Edited(f[n], n, lines, keys, value, own)
  BY <1>1, <1>2, <1>4, <1>5, EditsKeep
<1> QED BY <1>1, <1>3, <1>6 DEF Edited, own

(***************************************************************************)
(* The lines of the two files that are not the hook's stay.                *)
(***************************************************************************)

FilesOfLines == nss \in Seq(FileLine) /\ sshd \in Seq(FileLine)

LinesKept ==
    /\ FilesOfLines
    /\ Others(nss, Own(NssKeys)) = Others(NssFile, Own(NssKeys))
    /\ Others(sshd, Own(SshdKeys)) = Others(SshdFile, Own(SshdKeys))

\* What a step does to the two files.
FilesEdited ==
    /\ nss' = nss \/ \E v \in Values : nss' = UpdateKeys(nss, NssKeys, v)
    /\ sshd' = sshd \/ \E v \in Values : sshd' = UpdateKeys(sshd, SshdKeys, v)

LEMMA StepEditsFiles == [Next]_vars => FilesEdited
<1> SUFFICES ASSUME [Next]_vars PROVE FilesEdited
  OBVIOUS
<1>1. CASE ApplyNss
  <2>1. (IF run.enabled THEN "winbind" ELSE "sss") \in Values
    BY DEF Values
  <2>2. nss' = UpdateKeys(nss, NssKeys, IF run.enabled THEN "winbind" ELSE "sss") /\ sshd' = sshd
    BY <1>1 DEF ApplyNss
  <2> QED BY <2>1, <2>2 DEF FilesEdited
<1>2. CASE ApplySshd
  <2>1. (IF run.enabled THEN "yes" ELSE "no") \in Values
    BY DEF Values
  <2>2. sshd' = UpdateKeys(sshd, SshdKeys, IF run.enabled THEN "yes" ELSE "no") /\ nss' = nss
    BY <1>2 DEF ApplySshd
  <2> QED BY <2>1, <2>2 DEF FilesEdited
<1>3. CASE ~ApplyNss /\ ~ApplySshd
  <2>1. nss' = nss /\ sshd' = sshd
    <3>1. CASE RunStep
      BY <1>3, <3>1 DEF RunStep, ApplyStaticPam, RemoveList, GetAll, InstallList, GetRecord, files
    <3>2. CASE CallAtInit \/ DisableEnds \/ Start
      BY <3>2 DEF CallAtInit, DisableEnds, Start, files
    <3>3. CASE \E e \in Events : ManagerEnds(e) \/ CallInPool(e)
      BY <3>3 DEF ManagerEnds, CallInPool, files
    <3>4. CASE \E c \in Callers : GetEventParams(c) \/ CanExecute(c) \/ CallPlugin(c)
      BY <3>4 DEF GetEventParams, CanExecute, CallPlugin, files
    <3>5. CASE \E s \in Subjects, e \in Events : ChangeSubject(s, e)
      BY <3>5 DEF ChangeSubject, files
    <3>6. CASE Enable \/ Disable \/ Crash
      BY <3>6 DEF Enable, Disable, Crash, files
    <3>7. CASE UNCHANGED vars
      BY <3>7 DEF vars, files
    <3> QED BY <3>1, <3>2, <3>3, <3>4, <3>5, <3>6, <3>7 DEF Next, Proceed
  <2> QED BY <2>1 DEF FilesEdited
<1> QED BY <1>1, <1>2, <1>3

LEMMA LinesKeptInductive ==
  /\ Init => LinesKept
  /\ LinesKept /\ [Next]_vars => LinesKept'
<1>0. /\ NssFile \in Seq(FileLine) /\ SshdFile \in Seq(FileLine)
      /\ NssKeys \in Seq(STRING) /\ SshdKeys \in Seq(STRING)
      /\ "winbind" \in Values /\ "yes" \in Values
  <2>1. Line \subseteq FileLine
    BY DEF Line, FileLine, Values
  <2>2. NssFile \in Seq(Line) /\ SshdFile \in Seq(Line)
    BY HookAssumption DEF HookAssumption
  <2>3. NssFile \in Seq(FileLine) /\ SshdFile \in Seq(FileLine)
    BY <2>1, <2>2
  <2> QED BY <2>3, HookAssumption DEF HookAssumption, Values
<1>1. ASSUME Init PROVE LinesKept
  <2>1. CASE nss = NssFile /\ sshd = SshdFile
    BY <1>0, <2>1 DEF LinesKept, FilesOfLines
  <2>2. CASE nss = UpdateKeys(NssFile, NssKeys, "winbind") /\ sshd = UpdateKeys(SshdFile, SshdKeys, "yes")
    <3>1. UpdateKeys(NssFile, NssKeys, "winbind") \in Seq(FileLine)
          /\ Others(UpdateKeys(NssFile, NssKeys, "winbind"), Own(NssKeys)) = Others(NssFile, Own(NssKeys))
      BY <1>0, UpdateKeysIs
    <3>2. UpdateKeys(SshdFile, SshdKeys, "yes") \in Seq(FileLine)
          /\ Others(UpdateKeys(SshdFile, SshdKeys, "yes"), Own(SshdKeys)) = Others(SshdFile, Own(SshdKeys))
      BY <1>0, UpdateKeysIs
    <3> QED BY <2>2, <3>1, <3>2 DEF LinesKept, FilesOfLines
  <2> QED BY <1>1, <2>1, <2>2 DEF Init
<1>2. ASSUME LinesKept, [Next]_vars PROVE LinesKept'
  <2>1. ASSUME NEW v \in Values
        PROVE  /\ UpdateKeys(nss, NssKeys, v) \in Seq(FileLine)
               /\ Others(UpdateKeys(nss, NssKeys, v), Own(NssKeys)) = Others(nss, Own(NssKeys))
               /\ UpdateKeys(sshd, SshdKeys, v) \in Seq(FileLine)
               /\ Others(UpdateKeys(sshd, SshdKeys, v), Own(SshdKeys)) = Others(sshd, Own(SshdKeys))
    <3>1. nss \in Seq(FileLine) /\ sshd \in Seq(FileLine)
      BY <1>2 DEF LinesKept, FilesOfLines
    <3> QED BY <1>0, <3>1, UpdateKeysIs
  <2> QED BY <1>2, <2>1, StepEditsFiles DEF FilesEdited, LinesKept, FilesOfLines
<1> QED BY <1>1, <1>2

\* The lines of nsswitch.conf and sshd_config that are not the hook's are
\* those of before it ever ran, for all files and keys.
THEOREM OtherLinesStay == Spec => []OtherLinesKept
<1>1. LinesKept => OtherLinesKept
  BY DEF LinesKept, OtherLinesKept, Own
<1> QED BY <1>1, LinesKeptInductive, PTL DEF Spec

(***************************************************************************)
(* Who is where: the host's lock, its holder, and the run.                 *)
(***************************************************************************)

InCall == {"params", "test", "host", "run"}

StepsOf(c) ==
    IF c = "init" THEN {"off", "check"} \cup InCall
    ELSE IF c = "switch" THEN {"off", "enable", "disable", "cleared"}
    ELSE {"off", "pool", "loop"} \cup InCall

Args == {"", "AD"}

Steps == {"off", "check", "enable", "disable", "cleared", "pool", "loop"} \cup InCall

RunSteps == {"nss", "sshd", "users", "usersRead", "groups", "groupsRead", "pam"}

Runs == [by : Callers, all : BOOLEAN, enabled : BOOLEAN, step : RunSteps,
         todo : SUBSET Subjects, lines : SUBSET Subjects]

Types ==
    /\ up \in BOOLEAN /\ authType \in Args
    /\ subjects \in [Subjects -> {None, "plain", "admin"}]
    /\ caller \in [Callers -> [step : Steps, arg : Args, again : BOOLEAN]]
    /\ \A c \in Callers : caller[c].step \in StepsOf(c)
    /\ hostLock \in Callers \cup {None}
    /\ run = NoRun \/ run \in Runs
    /\ lists \in [{"users", "groups"} -> (SUBSET Subjects) \cup {NoFile}]
    /\ ok \in [all : BOOLEAN, lists : BOOLEAN]

\* The host's lock is held by the caller of the run, or by a disable that has
\* not cleared the type yet.
Holder(c) ==
    IF c = "switch"
    THEN /\ authType = "AD"
         /\ \/ caller[c].step = "cleared" /\ run = NoRun
            \/ /\ run # NoRun /\ run.by = c /\ run.all
               /\ caller[c].step = (IF run.enabled THEN "enable" ELSE "disable")
    ELSE /\ caller[c].step = "run"
         /\ run # NoRun /\ run.by = c /\ run.enabled /\ run.all = (c = "init")

Control ==
    /\ hostLock = None => run = NoRun
    /\ hostLock # None => Holder(hostLock)
    /\ \A c \in Callers :
        /\ caller[c].step \in {"run", "enable", "disable", "cleared"} => hostLock = c
        /\ caller[c].again => c \in Events /\ caller[c].step # "off"
    /\ ~up => /\ hostLock = None /\ caller["init"].step = "off"
              /\ \A c \in Callers : caller[c].step # "host"
    /\ run # NoRun =>
        /\ run.step \in {"usersRead", "groupsRead"} => run.enabled
        /\ run.step \in {"nss", "sshd", "pam"} => run.all

(***************************************************************************)
(* The lists.                                                              *)
(***************************************************************************)

\* Will this caller have the lists refreshed, on a host that has AD on?
Due(c) ==
    \/ caller[c].again
    \/ caller[c].step \in {"pool", "check", "params"}
    \/ caller[c].step \in {"test", "host"} /\ caller[c].arg = "AD"

Owed == \E c \in Callers : Due(c)

Exact(list) == lists[list] = Admins(list)

\* The lines a run has collected so far are right for the subjects it has
\* looked at, and those it has not are all still there.
ReadSoFar(list) ==
    /\ \A s \in Subjects \ run.todo : s \in run.lines <=> s \in Admins(list)
    /\ \A s \in run.todo : subjects[s] # None /\ s \notin run.lines

\* What the run that holds the lock has done for the lists.
ListedByRun ==
    /\ run.step = "usersRead" => ReadSoFar("users")
    /\ run.step = "groups" => Exact("users")
    /\ run.step = "groupsRead" => Exact("users") /\ ReadSoFar("groups")
    /\ run.step = "pam" => Exact("users") /\ Exact("groups")

Listed ==
    (authType = "AD" /\ up /\ ~Owed) =>
        /\ run # NoRun /\ run.enabled => ListedByRun
        /\ hostLock = None /\ ok.lists => Exact("users") /\ Exact("groups")

(***************************************************************************)
(* The files.                                                              *)
(***************************************************************************)

NssOn == \A i \in DOMAIN NssKeys : Effective(nss, NssKeys[i]) = "winbind"
NssOff == \A i \in DOMAIN NssKeys : Effective(nss, NssKeys[i]) # "winbind"
SshdOn == \A i \in DOMAIN SshdKeys : Effective(sshd, SshdKeys[i]) = "yes"
SshdOff == \A i \in DOMAIN SshdKeys : Effective(sshd, SshdKeys[i]) # "yes"

AllOn == NssOn /\ SshdOn /\ pam = "ad" /\ lists["users"] # NoFile /\ lists["groups"] # NoFile
AllOff == NssOff /\ SshdOff /\ pam = "local"

\* What a full run has done so far.
DoneByRun ==
    /\ run.step # "nss" => IF run.enabled THEN NssOn ELSE NssOff
    /\ run.step \notin {"nss", "sshd"} => IF run.enabled THEN SshdOn ELSE SshdOff
    /\ run.enabled =>
        /\ run.step \in {"groups", "groupsRead", "pam"} => lists["users"] # NoFile
        /\ run.step = "pam" => lists["groups"] # NoFile

\* AD is not switched while the hook of the start is under way.
StartApart ==
    /\ caller["init"].step # "off" => caller["switch"].step = "off"
    /\ caller["init"].step \in InCall => authType = "AD"
    /\ caller["init"].step \in {"test", "host"} => caller["init"].arg = "AD"

Filed ==
    /\ StartApart
    /\ authType = "" /\ ok.all => AllOff
    /\ (authType = "AD" /\ up /\ caller["init"].step = "off" /\ caller["switch"].step = "off" /\ ok.all)
        => AllOn
    /\ caller["switch"].step = "cleared" => ok.all /\ AllOff
    /\ run # NoRun /\ run.all => DoneByRun

(***************************************************************************)
(* Types and control are kept.                                             *)
(***************************************************************************)

\* Only the caller c moves, to a given place.
Moves(c, step, arg, again) ==
    /\ DOMAIN caller' = Callers
    /\ caller' = [d \in Callers |-> caller'[d]]
    /\ caller'[c] = [step |-> step, arg |-> arg, again |-> again]
    /\ \A d \in Callers \ {c} : caller'[d] = caller[d]

Typed == caller \in [Callers -> [step : Steps, arg : Args, again : BOOLEAN]]

LEMMA MovesTo ==
  ASSUME NEW c, NEW step, NEW arg, NEW again, Moves(c, step, arg, again)
  PROVE  /\ caller'[c].step = step /\ caller'[c].arg = arg /\ caller'[c].again = again
         /\ \A d \in Callers : d # c => caller'[d] = caller[d]
BY DEF Moves

LEMMA GotoMoves ==
  ASSUME Typed, NEW c \in Callers, NEW step, Goto(c, step)
  PROVE  Moves(c, step, caller[c].arg, caller[c].again)
<1>1. caller[c] = [step |-> caller[c].step, arg |-> caller[c].arg, again |-> caller[c].again]
  BY DEF Typed
<1> QED BY <1>1 DEF Typed, Goto, Moves

LEMMA BackMoves ==
  ASSUME Typed, NEW c \in Callers, Back(c)
  PROVE  Moves(c, IF c \in Events THEN "loop" ELSE "off", "", caller[c].again)
<1>1. caller[c] = [step |-> caller[c].step, arg |-> caller[c].arg, again |-> caller[c].again]
  BY DEF Typed
<1> QED BY <1>1 DEF Typed, Back, Moves

\* Such a move leaves all callers where they may be.
LEMMA MovesTyped ==
  ASSUME Types, NEW c \in Callers, NEW step \in Steps, NEW arg \in Args, NEW again \in BOOLEAN,
         step \in StepsOf(c), Moves(c, step, arg, again)
  PROVE  /\ Typed'
         /\ \A d \in Callers : caller'[d].step \in StepsOf(d)
<1> DEFINE R == [step : Steps, arg : Args, again : BOOLEAN]
<1>1. \A d \in Callers : caller'[d] \in R /\ caller'[d].step \in StepsOf(d)
  <2> SUFFICES ASSUME NEW d \in Callers PROVE caller'[d] \in R /\ caller'[d].step \in StepsOf(d)
    OBVIOUS
  <2>1. CASE d = c
    <3>1. caller'[d] = [step |-> step, arg |-> arg, again |-> again]
      BY <2>1 DEF Moves
    <3>2. caller'[d].step = step
      BY <3>1
    <3>4. step \in StepsOf(d)
      BY <2>1
    <3>3. [step |-> step, arg |-> arg, again |-> again] \in R
      OBVIOUS
    <3> QED BY <3>1, <3>2, <3>3, <3>4
  <2>2. CASE d # c
    BY <2>2 DEF Moves, Types
  <2> QED BY <2>1, <2>2
<1>2. caller' \in [Callers -> R]
  BY <1>1 DEF Moves
<1> QED BY <1>1, <1>2 DEF Typed

LEMMA TypesTyped == Types => Typed
BY DEF Types, Typed

LEMMA RunTyped == ASSUME Types, run.step # "none" PROVE run \in Runs /\ run # NoRun
BY DEF Types, NoRun

\* How a run ends for its caller.
LEMMA RunEndsMoves ==
  ASSUME Types, run \in Runs, NEW success \in BOOLEAN, RunEnds(success)
  PROVE  \E c \in Callers, step \in {"loop", "off", "cleared"}, arg \in Args :
            /\ c = run.by /\ step \in StepsOf(c) /\ (c \in Events => step = "loop")
            /\ Moves(c, step, arg, caller[c].again)
            /\ step = "cleared" <=> c = "switch" /\ ~run.enabled /\ success
            /\ hostLock' = (IF step = "cleared" THEN hostLock ELSE None)
            /\ authType' = (IF c = "switch" /\ run.enabled /\ ~success THEN "" ELSE authType)
            /\ run' = NoRun
            /\ ok' = [all |-> IF run.all THEN success ELSE ok.all, lists |-> success]
<1>0. Typed /\ run.by \in Callers /\ "switch" \in Callers /\ run.enabled \in BOOLEAN /\ "" \in Args
  BY DEF Types, Typed, Runs, Callers, Args
<1>1. CASE run.by = "switch" /\ (run.enabled \/ ~success)
  <2>1. Goto("switch", "off") /\ hostLock' = None
        /\ authType' = IF run.enabled /\ ~success THEN "" ELSE authType
    BY <1>1 DEF RunEnds
  <2>2. Moves("switch", "off", caller["switch"].arg, caller["switch"].again)
    BY <1>0, <2>1, GotoMoves
  <2>3. caller["switch"].arg \in Args /\ "off" \in StepsOf("switch")
    BY <1>0 DEF Typed, StepsOf
  <2> QED BY <1>0, <1>1, <2>1, <2>2, <2>3 DEF RunEnds, Events
<1>2. CASE run.by = "switch" /\ ~run.enabled /\ success
  <2>1. Goto("switch", "cleared") /\ hostLock' = hostLock /\ authType' = authType
    BY <1>2 DEF RunEnds
  <2>2. Moves("switch", "cleared", caller["switch"].arg, caller["switch"].again)
    BY <1>0, <2>1, GotoMoves
  <2>3. caller["switch"].arg \in Args /\ "cleared" \in StepsOf("switch")
    BY <1>0 DEF Typed, StepsOf
  <2> QED BY <1>0, <1>2, <2>1, <2>2, <2>3 DEF RunEnds, Events
<1>3. CASE run.by # "switch"
  <2>1. Back(run.by) /\ hostLock' = None /\ authType' = authType
    BY <1>3 DEF RunEnds
  <2>2. Moves(run.by, IF run.by \in Events THEN "loop" ELSE "off", "", caller[run.by].again)
    BY <1>0, <2>1, BackMoves
  <2>3. (IF run.by \in Events THEN "loop" ELSE "off") \in StepsOf(run.by)
        /\ (IF run.by \in Events THEN "loop" ELSE "off") \in {"loop", "off"}
    BY <1>0, <1>3 DEF StepsOf, Callers, Events
  <2> QED BY <1>0, <1>3, <2>1, <2>2, <2>3 DEF RunEnds
<1> QED BY <1>0, <1>1, <1>2, <1>3

LEMMA RunEndsTyped ==
  ASSUME Types, run \in Runs, NEW success \in BOOLEAN, RunEnds(success)
  PROVE  /\ Typed' /\ \A d \in Callers : caller'[d].step \in StepsOf(d)
         /\ hostLock' \in Callers \cup {None} /\ authType' \in Args /\ run' = NoRun
         /\ ok' \in [all : BOOLEAN, lists : BOOLEAN]
<1>1. PICK c \in Callers, step \in {"loop", "off", "cleared"}, arg \in Args :
            /\ c = run.by /\ step \in StepsOf(c) /\ (c \in Events => step = "loop")
            /\ Moves(c, step, arg, caller[c].again)
            /\ step = "cleared" <=> c = "switch" /\ ~run.enabled /\ success
            /\ hostLock' = (IF step = "cleared" THEN hostLock ELSE None)
            /\ authType' = (IF c = "switch" /\ run.enabled /\ ~success THEN "" ELSE authType)
            /\ run' = NoRun
            /\ ok' = [all |-> IF run.all THEN success ELSE ok.all, lists |-> success]
  BY RunEndsMoves
<1>2. caller[c].again \in BOOLEAN /\ step \in Steps
  BY DEF Types, Steps
<1>3. Typed' /\ \A d \in Callers : caller'[d].step \in StepsOf(d)
  BY <1>1, <1>2, MovesTyped
<1>4. hostLock' \in Callers \cup {None} /\ authType' \in Args
  BY <1>1 DEF Types, Args
<1>5. ok' \in [all : BOOLEAN, lists : BOOLEAN]
  <2>1. run.all \in BOOLEAN /\ ok.all \in BOOLEAN
    BY DEF Types, Runs
  <2> QED BY <1>1, <2>1
<1> QED BY <1>1, <1>3, <1>4, <1>5

LEMMA StepTyped ==
  ASSUME Types, run \in Runs, NEW step \in RunSteps, Step(step)
  PROVE  /\ Typed' /\ \A d \in Callers : caller'[d].step \in StepsOf(d)
         /\ hostLock' \in Callers \cup {None} /\ authType' \in Args
         /\ run' \in Runs
         /\ ok' \in [all : BOOLEAN, lists : BOOLEAN]
<1>1. run' \in Runs
  BY DEF Step, Runs
<1> QED BY <1>1 DEF Step, Types, Typed, locks

LEMMA AfterTyped ==
  ASSUME Types, run \in Runs, NEW list \in {"users", "groups"}, After(list)
  PROVE  /\ Typed' /\ \A d \in Callers : caller'[d].step \in StepsOf(d)
         /\ hostLock' \in Callers \cup {None} /\ authType' \in Args
         /\ run' = NoRun \/ run' \in Runs
         /\ ok' \in [all : BOOLEAN, lists : BOOLEAN]
<1>0. {"groups", "pam"} \subseteq RunSteps /\ TRUE \in BOOLEAN
  BY DEF RunSteps
<1>1. CASE Step("groups") \/ Step("pam")
  BY <1>0, <1>1, StepTyped
<1>2. CASE RunEnds(TRUE)
  BY <1>0, <1>2, RunEndsTyped
<1> QED BY <1>1, <1>2 DEF After

LEMMA RunStepTyped == Types /\ RunStep => Types'
<1> SUFFICES ASSUME Types, RunStep PROVE Types'
  OBVIOUS
<1> DEFINE T == /\ Typed' /\ \A d \in Callers : caller'[d].step \in StepsOf(d)
                /\ hostLock' \in Callers \cup {None} /\ authType' \in Args
                /\ run' = NoRun \/ run' \in Runs
                /\ ok' \in [all : BOOLEAN, lists : BOOLEAN]
<1>0. {"users", "usersRead", "sshd", "groupsRead"} \subseteq RunSteps /\ FALSE \in BOOLEAN /\ TRUE \in BOOLEAN
      /\ "none" \notin RunSteps
  BY DEF RunSteps
<1>1. CASE ApplyNss
  <2>1. run \in Runs
    BY <1>1, RunTyped DEF ApplyNss
  <2>2. T
    BY <1>0, <1>1, <2>1, StepTyped DEF ApplyNss
  <2> HIDE DEF T
  <2>3. UNCHANGED <<up, subjects, lists>>
    BY <1>1 DEF ApplyNss
  <2> QED BY <2>2, <2>3 DEF T, Types, Typed
<1>2. CASE ApplySshd
  <2>1. run \in Runs
    BY <1>2, RunTyped DEF ApplySshd
  <2>2. T
    BY <1>0, <1>2, <2>1, StepTyped, RunEndsTyped DEF ApplySshd
  <2> HIDE DEF T
  <2>3. UNCHANGED <<up, subjects, lists>>
    BY <1>2 DEF ApplySshd
  <2> QED BY <2>2, <2>3 DEF T, Types, Typed
<1>3. CASE ApplyStaticPam
  <2>1. run \in Runs
    BY <1>3, RunTyped DEF ApplyStaticPam
  <2>2. T
    BY <1>0, <1>3, <2>1, RunEndsTyped DEF ApplyStaticPam
  <2> HIDE DEF T
  <2>3. UNCHANGED <<up, subjects, lists>>
    BY <1>3 DEF ApplyStaticPam
  <2> QED BY <2>2, <2>3 DEF T, Types, Typed
<1>4. ASSUME NEW list \in {"users", "groups"}, RemoveList(list) PROVE Types'
  <2>1. run \in Runs
    BY <1>4, RunTyped DEF RemoveList
  <2>2. T
    BY <1>4, <2>1, AfterTyped DEF RemoveList
  <2> HIDE DEF T
  <2>3. UNCHANGED <<up, subjects>> /\ lists' = [lists EXCEPT ![list] = NoFile]
    BY <1>4 DEF RemoveList
  <2>4. lists' \in [{"users", "groups"} -> (SUBSET Subjects) \cup {NoFile}]
    BY <2>3 DEF Types
  <2> QED BY <2>2, <2>3, <2>4 DEF T, Types, Typed
<1>5. ASSUME NEW list \in {"users", "groups"}, InstallList(list) PROVE Types'
  <2>1. run \in Runs
    BY <1>5, RunTyped DEF InstallList, Reading
  <2>2. T
    BY <1>5, <2>1, AfterTyped DEF InstallList
  <2> HIDE DEF T
  <2>3. UNCHANGED <<up, subjects>> /\ lists' = [lists EXCEPT ![list] = run.lines]
    BY <1>5 DEF InstallList
  <2>4. lists' \in [{"users", "groups"} -> (SUBSET Subjects) \cup {NoFile}]
    BY <2>1, <2>3 DEF Types, Runs
  <2> QED BY <2>2, <2>3, <2>4 DEF T, Types, Typed
<1>6. ASSUME NEW list \in {"users", "groups"}, GetAll(list) PROVE Types'
  <2>1. run \in Runs
    BY <1>6, RunTyped DEF GetAll
  <2>2. run' \in Runs
    BY <1>0, <1>6, <2>1 DEF GetAll, Runs
  <2>3. UNCHANGED <<up, authType, subjects, caller, hostLock, lists, ok>>
    BY <1>6 DEF GetAll, locks, files
  <2> QED BY <2>2, <2>3 DEF Types
<1>7. ASSUME NEW list \in {"users", "groups"}, NEW s \in Subjects, GetRecord(list, s) PROVE Types'
  <2>1. run \in Runs
    BY <1>7, RunTyped DEF GetRecord, Reading
  <2>2. run' \in Runs
    <3>1. CASE run' = [run EXCEPT !.todo = {}]
      BY <2>1, <3>1 DEF Runs
    <3>2. CASE run' = [run EXCEPT !.todo = @ \ {s},
                               !.lines = IF subjects[s] = "admin" /\ Responsible(list, s)
                                         THEN @ \cup {s} ELSE @]
      BY <2>1, <3>2 DEF Runs
    <3> QED BY <1>7, <3>1, <3>2 DEF GetRecord
  <2>3. UNCHANGED <<up, authType, subjects, caller, hostLock, lists, ok>>
    BY <1>7 DEF GetRecord, locks, files
  <2> QED BY <2>2, <2>3 DEF Types
<1> QED BY <1>1, <1>2, <1>3, <1>4, <1>5, <1>6, <1>7 DEF RunStep

(***************************************************************************)
(* What the steps outside the hook do to its callers.                      *)
(***************************************************************************)

Ended(c) == IF c \in Events THEN "loop" ELSE "off"

\* A caller moves, and what the hook works on stays.
Turn(c, step, arg, again) ==
    /\ Moves(c, step, arg, again)
    /\ UNCHANGED <<up, authType, subjects, hostLock, run, nss, sshd, pam, lists, ok>>
    /\ \/ /\ caller[c].step = "loop" /\ c \in Events
          /\ step = (IF caller[c].again THEN "pool" ELSE "off") /\ ~again
       \/ /\ again = caller[c].again
          /\ \/ /\ caller[c].step = "pool" /\ c \in Events
                /\ step = (IF authType = "AD" THEN "params" ELSE "loop")
             \/ /\ caller[c].step = "check" /\ c = "init"
                /\ step = (IF authType = "AD" THEN "params" ELSE "off")
             \/ caller[c].step = "params" /\ step = "test" /\ arg = authType
             \/ /\ caller[c].step = "test" /\ step = "host" /\ arg = caller[c].arg
                /\ up /\ (authType = "AD" \/ c = "init")
             \/ /\ caller[c].step = "test" /\ step = Ended(c)
                /\ ~up \/ (authType = "" /\ c # "init")
             \/ /\ caller[c].step = "host" /\ step = Ended(c) /\ caller[c].arg # "AD"

\* A call gets the host's lock, and the hook runs.
Begins(c) ==
    /\ caller[c].step = "host" /\ c # "switch" /\ hostLock = None /\ caller[c].arg = "AD"
    /\ hostLock' = c /\ NewRun(c, c = "init", TRUE)
    /\ Moves(c, "run", caller[c].arg, caller[c].again)
    /\ UNCHANGED <<up, authType, subjects, nss, sshd, pam, lists, ok>>

AnyTurn ==
    \E c \in Callers, step \in Steps, arg \in Args, again \in BOOLEAN :
        step \in StepsOf(c) /\ Turn(c, step, arg, again)

LEMMA AuthTypes == ASSUME authType \in Args PROVE (authType # "") <=> (authType = "AD")
BY DEF Args

LEMMA TurnManager ==
  ASSUME Types, NEW e \in Events, ManagerEnds(e) \/ CallInPool(e)
  PROVE  AnyTurn
<1>0. /\ e \in Callers /\ Typed /\ authType \in Args /\ "" \in Args /\ caller[e].arg \in Args
      /\ caller[e].again \in BOOLEAN /\ FALSE \in BOOLEAN
      /\ e # "init" /\ e # "switch"
  BY DEF Types, Typed, Callers, Args, Events
<1>00. {"pool", "off", "params", "loop"} \subseteq Steps /\ {"pool", "off", "params", "loop"} \subseteq StepsOf(e)
  BY <1>0 DEF Steps, StepsOf, InCall
<1>1. CASE ManagerEnds(e)
  <2>1. caller' = [caller EXCEPT ![e] = IF caller[e].again THEN [Off EXCEPT !.step = "pool"] ELSE Off]
    BY <1>1 DEF ManagerEnds
  <2>2. (IF caller[e].again THEN [Off EXCEPT !.step = "pool"] ELSE Off)
        = [step |-> IF caller[e].again THEN "pool" ELSE "off", arg |-> "", again |-> FALSE]
    BY DEF Off
  <2>3. Moves(e, IF caller[e].again THEN "pool" ELSE "off", "", FALSE)
    BY <1>0, <2>1, <2>2 DEF Moves, Typed
  <2>4. Turn(e, IF caller[e].again THEN "pool" ELSE "off", "", FALSE)
    BY <1>0, <1>1, <2>3 DEF ManagerEnds, Turn, locks, files
  <2> QED BY <1>0, <1>00, <2>4 DEF AnyTurn
<1>2. CASE CallInPool(e)
  <2>1. CASE authType = "AD"
    <3>1. Moves(e, "params", caller[e].arg, caller[e].again)
      BY <1>0, <1>2, <2>1, AuthTypes, GotoMoves DEF CallInPool
    <3>2. Turn(e, "params", caller[e].arg, caller[e].again)
      BY <1>0, <1>2, <2>1, <3>1 DEF CallInPool, Turn, files
    <3> QED BY <1>0, <1>00, <3>2 DEF AnyTurn
  <2>2. CASE authType # "AD"
    <3>1. Moves(e, "loop", caller[e].arg, caller[e].again)
      BY <1>0, <1>2, <2>2, AuthTypes, GotoMoves DEF CallInPool
    <3>2. Turn(e, "loop", caller[e].arg, caller[e].again)
      BY <1>0, <1>2, <2>2, <3>1 DEF CallInPool, Turn, files
    <3> QED BY <1>0, <1>00, <3>2 DEF AnyTurn
  <2> QED BY <2>1, <2>2
<1> QED BY <1>1, <1>2

LEMMA TurnInit == Types /\ CallAtInit => AnyTurn
<1> SUFFICES ASSUME Types, CallAtInit PROVE AnyTurn
  OBVIOUS
<1>0. /\ "init" \in Callers /\ Typed /\ authType \in Args /\ caller["init"].arg \in Args
      /\ caller["init"].again \in BOOLEAN
  BY DEF Types, Typed, Callers, Args
<1>00. {"off", "params"} \subseteq Steps /\ {"off", "params"} \subseteq StepsOf("init")
  BY DEF Steps, StepsOf, InCall
<1>1. CASE authType = "AD"
  <2>1. Moves("init", "params", caller["init"].arg, caller["init"].again)
    BY <1>0, <1>1, AuthTypes, GotoMoves DEF CallAtInit
  <2>2. Turn("init", "params", caller["init"].arg, caller["init"].again)
    BY <1>0, <1>1, <2>1 DEF CallAtInit, Turn, files, locks
  <2> QED BY <1>0, <1>00, <2>2 DEF AnyTurn
<1>2. CASE authType # "AD"
  <2>1. Moves("init", "off", caller["init"].arg, caller["init"].again)
    BY <1>0, <1>2, AuthTypes, GotoMoves DEF CallAtInit
  <2>2. Turn("init", "off", caller["init"].arg, caller["init"].again)
    BY <1>0, <1>2, <2>1 DEF CallAtInit, Turn, files, locks
  <2> QED BY <1>0, <1>00, <2>2 DEF AnyTurn
<1> QED BY <1>1, <1>2

LEMMA TurnCall ==
  ASSUME Types, NEW c \in Callers, GetEventParams(c) \/ CanExecute(c) \/ CallPlugin(c)
  PROVE  AnyTurn \/ Begins(c)
<1>0. /\ Typed /\ authType \in Args /\ "" \in Args /\ caller[c].arg \in Args
      /\ caller[c].again \in BOOLEAN /\ caller[c].step \in StepsOf(c)
  BY DEF Types, Typed, Args
<1>1. caller[c].step \in InCall
  BY DEF GetEventParams, CanExecute, CallPlugin, InCall
<1>2. c # "switch"
  BY <1>0, <1>1 DEF StepsOf, InCall
<1>3. InCall \subseteq Steps /\ InCall \subseteq StepsOf(c) /\ Ended(c) \in Steps /\ Ended(c) \in StepsOf(c)
  BY <1>2 DEF Steps, StepsOf, InCall, Ended, Events, Callers
<1>4. CASE GetEventParams(c)
  <2>1. caller' = [caller EXCEPT ![c].step = "test", ![c].arg = authType] /\ caller[c].step = "params"
        /\ UNCHANGED <<up, authType, subjects, locks, run, files, ok, bounds>>
    BY <1>4 DEF GetEventParams
  <2>2. caller[c] = [step |-> caller[c].step, arg |-> caller[c].arg, again |-> caller[c].again]
    BY <1>0 DEF Typed
  <2>3. Moves(c, "test", authType, caller[c].again)
    BY <1>0, <2>1, <2>2 DEF Moves, Typed
  <2>4. Turn(c, "test", authType, caller[c].again)
    BY <2>1, <2>3 DEF Turn, files, locks
  <2> QED BY <1>0, <1>3, <2>4 DEF AnyTurn, InCall
<1>5. CASE CanExecute(c)
  <2>1. CASE (authType # "" \/ c = "init") /\ up
    <3>1. Moves(c, "host", caller[c].arg, caller[c].again)
      BY <1>0, <1>5, <2>1, GotoMoves DEF CanExecute
    <3>2. Turn(c, "host", caller[c].arg, caller[c].again)
      BY <1>0, <1>5, <2>1, <3>1, AuthTypes DEF CanExecute, Turn, files
    <3> QED BY <1>0, <1>3, <3>2 DEF AnyTurn, InCall
  <2>2. CASE ~((authType # "" \/ c = "init") /\ up)
    <3>1. Moves(c, Ended(c), "", caller[c].again)
      BY <1>0, <1>5, <2>2, BackMoves DEF CanExecute, Ended
    <3>2. Turn(c, Ended(c), "", caller[c].again)
      BY <1>0, <1>5, <2>2, <3>1, AuthTypes DEF CanExecute, Turn, files
    <3> QED BY <1>0, <1>3, <3>2 DEF AnyTurn
  <2> QED BY <2>1, <2>2
<1>6. CASE CallPlugin(c)
  <2>1. CASE caller[c].arg = "AD"
    <3>1. Moves(c, "run", caller[c].arg, caller[c].again)
      BY <1>0, <1>6, <2>1, GotoMoves DEF CallPlugin
    <3>2. Begins(c)
      BY <1>0, <1>6, <2>1, <3>1 DEF CallPlugin, Begins, files
    <3> QED BY <3>2
  <2>2. CASE caller[c].arg # "AD"
    <3>1. Moves(c, Ended(c), "", caller[c].again)
      BY <1>0, <1>6, <2>2, BackMoves DEF CallPlugin, Ended
    <3>2. Turn(c, Ended(c), "", caller[c].again)
      BY <1>0, <1>6, <2>2, <3>1, AuthTypes DEF CallPlugin, Turn, files
    <3> QED BY <1>0, <1>3, <3>2 DEF AnyTurn
  <2> QED BY <2>1, <2>2
<1> QED BY <1>4, <1>5, <1>6

\* A subject changes, and the event's thread has to go round (again).
Changes(s, e) ==
    /\ \E step \in Steps, again \in BOOLEAN :
        /\ Moves(e, step, caller[e].arg, again)
        /\ IF caller[e].step = "off" THEN step = "pool" /\ again = caller[e].again
           ELSE step = caller[e].step /\ again
    /\ UNCHANGED <<up, authType, hostLock, run, nss, sshd, pam, lists, ok>>
    /\ subjects' \in [Subjects -> {None, "plain", "admin"}]

LEMMA ChangeIs ==
  ASSUME Types, NEW s \in Subjects, NEW e \in Events, ChangeSubject(s, e)
  PROVE  Changes(s, e)
<1>0. e \in Callers /\ Typed /\ caller[e].step \in Steps /\ caller[e].again \in BOOLEAN /\ "pool" \in Steps
      /\ TRUE \in BOOLEAN
  BY DEF Types, Typed, Callers, Steps
<1>1. UNCHANGED <<up, authType, hostLock, run, nss, sshd, pam, lists, ok>>
  BY DEF ChangeSubject, locks, files
<1>2. subjects' \in [Subjects -> {None, "plain", "admin"}]
  <2>1. subjects \in [Subjects -> {None, "plain", "admin"}]
    BY DEF Types
  <2>2. \E r \in {None, "plain", "admin"} : subjects' = [subjects EXCEPT ![s] = r]
    <3>1. CASE e = "add"
      BY <3>1 DEF ChangeSubject
    <3>2. CASE e # "add"
      BY <3>2 DEF ChangeSubject
    <3> QED BY <3>1, <3>2
  <2> QED BY <2>1, <2>2
<1>3. CASE caller[e].step = "off"
  <2>1. Goto(e, "pool")
    BY <1>3 DEF ChangeSubject, Again
  <2>2. Moves(e, "pool", caller[e].arg, caller[e].again)
    BY <1>0, <2>1, GotoMoves
  <2> QED BY <1>0, <1>1, <1>2, <1>3, <2>2 DEF Changes
<1>4. CASE caller[e].step # "off"
  <2>1. caller' = [caller EXCEPT ![e].again = TRUE]
    BY <1>4 DEF ChangeSubject, Again
  <2>2. caller[e] = [step |-> caller[e].step, arg |-> caller[e].arg, again |-> caller[e].again]
    BY <1>0 DEF Typed
  <2>3. Moves(e, caller[e].step, caller[e].arg, TRUE)
    BY <1>0, <2>1, <2>2 DEF Moves, Typed
  <2> QED BY <1>0, <1>1, <1>2, <1>4, <2>3 DEF Changes
<1> QED BY <1>3, <1>4

\* AD is enabled or disabled: the hook is run with the host's lock.
Switches(enabled) ==
    /\ up /\ hostLock = None /\ caller["switch"].step = "off"
    /\ SwitchAnyTime \/ caller["init"].step = "off"
    /\ authType = (IF enabled THEN "" ELSE "AD") /\ authType' = "AD"
    /\ hostLock' = "switch" /\ NewRun("switch", TRUE, enabled)
    /\ Moves("switch", IF enabled THEN "enable" ELSE "disable", caller["switch"].arg, caller["switch"].again)
    /\ UNCHANGED <<up, subjects, nss, sshd, pam, lists, ok>>

LEMMA SwitchIs == Types /\ (Enable \/ Disable) => \E enabled \in BOOLEAN : Switches(enabled)
<1> SUFFICES ASSUME Types, Enable \/ Disable PROVE \E enabled \in BOOLEAN : Switches(enabled)
  OBVIOUS
<1>0. Typed /\ "switch" \in Callers /\ TRUE \in BOOLEAN /\ FALSE \in BOOLEAN
  BY DEF Types, Typed, Callers
<1>1. CASE Enable
  <2>1. Moves("switch", "enable", caller["switch"].arg, caller["switch"].again)
    BY <1>0, <1>1, GotoMoves DEF Enable
  <2>2. Switches(TRUE)
    BY <1>1, <2>1 DEF Enable, Switches, files
  <2> QED BY <1>0, <2>2
<1>2. CASE Disable
  <2>1. Moves("switch", "disable", caller["switch"].arg, caller["switch"].again)
    BY <1>0, <1>2, GotoMoves DEF Disable
  <2>2. Switches(FALSE)
    BY <1>2, <2>1 DEF Disable, Switches, files
  <2> QED BY <1>0, <2>2
<1> QED BY <1>1, <1>2

\* After a disable the type is cleared; the host starts; the host crashes.
Clears ==
    /\ caller["switch"].step = "cleared" /\ authType' = "" /\ hostLock' = None
    /\ Moves("switch", "off", caller["switch"].arg, caller["switch"].again)
    /\ UNCHANGED <<up, subjects, run, nss, sshd, pam, lists, ok>>

Starts ==
    /\ ~up /\ up'
    /\ Moves("init", "check", caller["init"].arg, caller["init"].again)
    /\ UNCHANGED <<authType, subjects, hostLock, run, nss, sshd, pam, lists, ok>>

Crashes ==
    /\ ~up' /\ run' = NoRun /\ hostLock' = None
    /\ DOMAIN caller' = Callers /\ caller' = [d \in Callers |-> caller'[d]]
    /\ caller'["init"] = Off /\ caller'["switch"] = Off
    /\ \A e \in Events :
        IF caller[e].step \in {"host", "run"}
        THEN caller'[e] = [step |-> "loop", arg |-> "", again |-> caller[e].again]
        ELSE caller'[e] = caller[e]
    /\ UNCHANGED <<authType, subjects, nss, sshd, pam, lists, ok>>

LEMMA OthersAre == Types => (DisableEnds => Clears) /\ (Start => Starts /\ up' = TRUE) /\ (Crash => Crashes /\ up' = FALSE)
<1> SUFFICES ASSUME Types
             PROVE  (DisableEnds => Clears) /\ (Start => Starts /\ up' = TRUE) /\ (Crash => Crashes /\ up' = FALSE)
  OBVIOUS
<1>0. Typed /\ "switch" \in Callers /\ "init" \in Callers
  BY DEF Types, Typed, Callers
<1>1. ASSUME DisableEnds PROVE Clears
  <2>1. Moves("switch", "off", caller["switch"].arg, caller["switch"].again)
    BY <1>0, <1>1, GotoMoves DEF DisableEnds
  <2> QED BY <1>1, <2>1 DEF DisableEnds, Clears, files
<1>2. ASSUME Start PROVE Starts /\ up' = TRUE
  <2>1. Moves("init", "check", caller["init"].arg, caller["init"].again)
    BY <1>0, <1>2, GotoMoves DEF Start
  <2> QED BY <1>2, <2>1 DEF Start, Starts, files, locks
<1>3. ASSUME Crash PROVE Crashes /\ up' = FALSE
  <2>1. caller' = [c \in Callers |->
           IF c \in {"init", "switch"} THEN Off
           ELSE IF caller[c].step \in {"host", "run"}
                THEN [caller[c] EXCEPT !.step = "loop", !.arg = ""] ELSE caller[c]]
    BY <1>3 DEF Crash
  <2>2. \A e \in Events : e \in Callers /\ e \notin {"init", "switch"}
           /\ caller[e] = [step |-> caller[e].step, arg |-> caller[e].arg, again |-> caller[e].again]
    BY <1>0 DEF Events, Callers, Typed
  <2>3. \A e \in Events :
            IF caller[e].step \in {"host", "run"}
            THEN caller'[e] = [step |-> "loop", arg |-> "", again |-> caller[e].again]
            ELSE caller'[e] = caller[e]
    <3> SUFFICES ASSUME NEW e \in Events
                 PROVE  IF caller[e].step \in {"host", "run"}
                        THEN caller'[e] = [step |-> "loop", arg |-> "", again |-> caller[e].again]
                        ELSE caller'[e] = caller[e]
      OBVIOUS
    <3>1. caller'[e] = IF caller[e].step \in {"host", "run"}
                       THEN [caller[e] EXCEPT !.step = "loop", !.arg = ""] ELSE caller[e]
      BY <2>1, <2>2
    <3>2. CASE caller[e].step \in {"host", "run"}
      <4>1. caller[e] = [step |-> caller[e].step, arg |-> caller[e].arg, again |-> caller[e].again]
        BY <2>2
      <4> QED BY <3>1, <3>2, <4>1
    <3> QED BY <3>1, <3>2
  <2>4. /\ DOMAIN caller' = Callers /\ caller' = [d \in Callers |-> caller'[d]]
        /\ caller'["init"] = Off /\ caller'["switch"] = Off
    BY <1>0, <2>1
  <2> QED BY <1>3, <2>3, <2>4 DEF Crash, Crashes, files
<1> QED BY <1>1, <1>2, <1>3

\* Every step is a step of the run or one of these.
Outside ==
    \/ AnyTurn \/ \E c \in Callers : Begins(c)
    \/ \E s \in Subjects, e \in Events : Changes(s, e)
    \/ \E enabled \in BOOLEAN : Switches(enabled)
    \/ Clears \/ Starts \/ Crashes

LEMMA StepIs == Types /\ [Next]_vars => RunStep \/ (Outside /\ up' \in BOOLEAN) \/ UNCHANGED vars
<1> SUFFICES ASSUME Types, Next PROVE RunStep \/ (Outside /\ up' \in BOOLEAN)
  OBVIOUS
<1>0. up \in BOOLEAN
  BY DEF Types
<1>1. CASE CallAtInit
  <2>1. AnyTurn
    BY <1>1, TurnInit
  <2> QED BY <1>0, <1>1, <2>1 DEF Outside, CallAtInit
<1>2. CASE DisableEnds \/ Start \/ Crash
  BY <1>0, <1>2, OthersAre DEF Outside, DisableEnds
<1>3. ASSUME NEW e \in Events, ManagerEnds(e) \/ CallInPool(e) PROVE Outside /\ up' \in BOOLEAN
  <2>1. AnyTurn
    BY <1>3, TurnManager
  <2> QED BY <1>0, <1>3, <2>1 DEF Outside, ManagerEnds, CallInPool
<1>4. ASSUME NEW c \in Callers, GetEventParams(c) \/ CanExecute(c) \/ CallPlugin(c)
      PROVE  Outside /\ up' \in BOOLEAN
  <2>1. AnyTurn \/ Begins(c)
    BY <1>4, TurnCall
  <2> QED BY <1>0, <1>4, <2>1 DEF Outside, GetEventParams, CanExecute, CallPlugin
<1>5. ASSUME NEW s \in Subjects, NEW e \in Events, ChangeSubject(s, e) PROVE Outside /\ up' \in BOOLEAN
  <2>1. Changes(s, e)
    BY <1>5, ChangeIs
  <2> QED BY <1>0, <1>5, <2>1 DEF Outside, ChangeSubject
<1>6. CASE Enable \/ Disable
  <2>1. \E enabled \in BOOLEAN : Switches(enabled)
    BY <1>6, SwitchIs
  <2> QED BY <1>0, <1>6, <2>1 DEF Outside, Enable, Disable
<1> QED BY <1>1, <1>2, <1>3, <1>4, <1>5, <1>6 DEF Next, Proceed

LEMMA NewRunTyped ==
  ASSUME NEW c \in Callers, NEW all \in BOOLEAN, NEW enabled \in BOOLEAN, NewRun(c, all, enabled)
  PROVE  /\ run' \in Runs /\ run'.by = c /\ run'.all = all /\ run'.enabled = enabled
         /\ run'.step = (IF all THEN "nss" ELSE "users")
BY DEF NewRun, Runs, RunSteps

LEMMA OutsideTyped == Types /\ Outside /\ up' \in BOOLEAN => Types'
<1> SUFFICES ASSUME Types, Outside, up' \in BOOLEAN PROVE Types'
  OBVIOUS
<1> DEFINE T == Typed' /\ \A d \in Callers : caller'[d].step \in StepsOf(d)
<1>0. \A c \in Callers : caller[c].arg \in Args /\ caller[c].again \in BOOLEAN /\ caller[c].step \in StepsOf(c)
  BY DEF Types
<1>00. /\ "AD" \in Args /\ "" \in Args /\ "switch" \in Callers /\ "init" \in Callers
       /\ {"run", "enable", "disable", "off", "check", "pool"} \subseteq Steps
       /\ TRUE \in BOOLEAN /\ Events \subseteq Callers
       /\ \A e \in Events : e # "init" /\ e # "switch"
       /\ Callers = Events \cup {"init", "switch"}
  BY DEF Args, Callers, Steps, InCall, Events
<1>1. CASE AnyTurn
  <2>1. PICK c \in Callers, step \in Steps, arg \in Args, again \in BOOLEAN :
            step \in StepsOf(c) /\ Turn(c, step, arg, again)
    BY <1>1 DEF AnyTurn
  <2>2. T
    BY <2>1, MovesTyped DEF Turn
  <2> QED BY <2>1, <2>2 DEF Turn, Types, Typed
<1>2. ASSUME NEW c \in Callers, Begins(c) PROVE Types'
  <2>1. "run" \in StepsOf(c)
    BY <1>0, <1>2 DEF Begins, StepsOf, InCall
  <2>4. "run" \in Steps /\ caller[c].arg \in Args /\ caller[c].again \in BOOLEAN
    BY <1>0, <1>00
  <2>5. Moves(c, "run", caller[c].arg, caller[c].again)
    BY <1>2 DEF Begins
  <2>2. T
    BY <2>1, <2>4, <2>5, MovesTyped
  <2>3. run' \in Runs
    <3>1. (c = "init") \in BOOLEAN
      OBVIOUS
    <3> QED BY <1>00, <1>2, <3>1, NewRunTyped DEF Begins
  <2> QED BY <1>2, <2>2, <2>3 DEF Begins, Types, Typed
<1>3. ASSUME NEW e \in Events, NEW s \in Subjects, Changes(s, e) PROVE Types'
  <2>1. PICK step \in Steps, again \in BOOLEAN :
        /\ Moves(e, step, caller[e].arg, again)
        /\ IF caller[e].step = "off" THEN step = "pool" /\ again = caller[e].again
           ELSE step = caller[e].step /\ again
    BY <1>3 DEF Changes
  <2>2. step \in StepsOf(e)
    BY <1>0, <1>00, <2>1 DEF StepsOf
  <2>4. e \in Callers /\ caller[e].arg \in Args /\ Moves(e, step, caller[e].arg, again)
    BY <1>0, <1>00, <2>1
  <2>3. T
    BY <2>2, <2>4, MovesTyped
  <2> QED BY <1>3, <2>3 DEF Changes, Types, Typed
<1>4. ASSUME NEW enabled \in BOOLEAN, Switches(enabled) PROVE Types'
  <2>1. (IF enabled THEN "enable" ELSE "disable") \in StepsOf("switch")
        /\ (IF enabled THEN "enable" ELSE "disable") \in Steps
    BY <1>00 DEF StepsOf
  <2>4. "switch" \in Callers /\ caller["switch"].arg \in Args /\ caller["switch"].again \in BOOLEAN
    BY <1>0, <1>00
  <2>5. Moves("switch", IF enabled THEN "enable" ELSE "disable", caller["switch"].arg, caller["switch"].again)
    BY <1>4 DEF Switches
  <2>2. T
    BY <2>1, <2>4, <2>5, MovesTyped
  <2>3. run' \in Runs
    BY <1>00, <1>4, NewRunTyped DEF Switches
  <2> QED BY <1>00, <1>4, <2>2, <2>3 DEF Switches, Types, Typed
<1>5. CASE Clears
  <2>1. "off" \in StepsOf("switch")
    BY DEF StepsOf
  <2>4. "switch" \in Callers /\ caller["switch"].arg \in Args /\ caller["switch"].again \in BOOLEAN
        /\ "off" \in Steps
    BY <1>0, <1>00
  <2>5. Moves("switch", "off", caller["switch"].arg, caller["switch"].again)
    BY <1>5 DEF Clears
  <2>2. T
    BY <2>1, <2>4, <2>5, MovesTyped
  <2> QED BY <1>00, <1>5, <2>2 DEF Clears, Types, Typed
<1>6. CASE Starts
  <2>1. "check" \in StepsOf("init")
    BY DEF StepsOf
  <2>4. "init" \in Callers /\ caller["init"].arg \in Args /\ caller["init"].again \in BOOLEAN
        /\ "check" \in Steps
    BY <1>0, <1>00
  <2>5. Moves("init", "check", caller["init"].arg, caller["init"].again)
    BY <1>6 DEF Starts
  <2>2. T
    BY <2>1, <2>4, <2>5, MovesTyped
  <2> QED BY <1>6, <2>2 DEF Starts, Types, Typed
<1>7. CASE Crashes
  <2> DEFINE R == [step : Steps, arg : Args, again : BOOLEAN]
  <2>1. \A d \in Callers : caller'[d] \in R /\ caller'[d].step \in StepsOf(d)
    <3>1. Off \in R /\ Off.step = "off" /\ "off" \in StepsOf("init") /\ "off" \in StepsOf("switch")
      BY DEF Off, Steps, Args, StepsOf
    <3>2. ASSUME NEW e \in Events PROVE caller'[e] \in R /\ caller'[e].step \in StepsOf(e)
      <4>1. "loop" \in StepsOf(e) /\ "loop" \in Steps
        BY <1>00 DEF StepsOf, Steps
      <4>2. CASE caller[e].step \in {"host", "run"}
        <5>1. caller'[e] = [step |-> "loop", arg |-> "", again |-> caller[e].again]
          BY <1>7, <4>2 DEF Crashes
        <5>2. caller[e].again \in BOOLEAN /\ "" \in Args
          BY <1>0, <1>00
        <5>5. PICK place \in Args, flag \in BOOLEAN :
                 caller'[e] = [step |-> "loop", arg |-> place, again |-> flag]
          BY <5>1, <5>2
        <5>3. caller'[e] \in R
          BY <4>1, <5>5
        <5>4. caller'[e].step = "loop"
          BY <5>5
        <5> QED BY <4>1, <5>3, <5>4
      <4>3. CASE caller[e].step \notin {"host", "run"}
        BY <1>00, <1>7, <4>3 DEF Crashes, Types
      <4> QED BY <4>2, <4>3
    <3>3. caller'["init"] = Off /\ caller'["switch"] = Off
      BY <1>7 DEF Crashes
    <3> SUFFICES ASSUME NEW d \in Callers PROVE caller'[d] \in R /\ caller'[d].step \in StepsOf(d)
      OBVIOUS
    <3>4. d \in Events \/ d = "init" \/ d = "switch"
      BY <1>00
    <3>5. CASE d = "init"
      BY <3>1, <3>3, <3>5
    <3>6. CASE d = "switch"
      BY <3>1, <3>3, <3>6
    <3> QED BY <3>2, <3>4, <3>5, <3>6
  <2>2. T
    BY <1>7, <2>1 DEF Crashes, Typed
  <2> QED BY <1>7, <2>2 DEF Crashes, Types, Typed
<1> QED BY <1>1, <1>2, <1>3, <1>4, <1>5, <1>6, <1>7 DEF Outside

LEMMA TypesInit == Init => Types
<1> SUFFICES ASSUME Init PROVE Types
  OBVIOUS
<1>1. up \in BOOLEAN /\ authType \in Args /\ subjects \in [Subjects -> {None, "plain", "admin"}]
  <2>1. CASE subjects = [s \in Subjects |-> None]
    BY <2>1 DEF Init, Args
  <2>2. CASE subjects = [s \in Subjects |-> "admin"]
    BY <2>2 DEF Init, Args
  <2> QED BY <2>1, <2>2 DEF Init
<1>2. caller \in [Callers -> [step : Steps, arg : Args, again : BOOLEAN]]
      /\ \A c \in Callers : caller[c].step \in StepsOf(c)
  <2>1. Off \in [step : Steps, arg : Args, again : BOOLEAN] /\ Off.step = "off"
    BY DEF Off, Steps, Args
  <2>2. \A c \in Callers : "off" \in StepsOf(c)
    BY DEF StepsOf
  <2>3. caller = [c \in Callers |-> Off]
    BY DEF Init
  <2> QED BY <2>1, <2>2, <2>3
<1>3. lists \in [{"users", "groups"} -> (SUBSET Subjects) \cup {NoFile}]
  <2>1. Admins("users") \in SUBSET Subjects /\ Admins("groups") \in SUBSET Subjects
    BY DEF Admins
  <2>2. CASE lists = [users |-> NoFile, groups |-> NoFile]
    BY <2>2
  <2>3. CASE lists = [users |-> Admins("users"), groups |-> Admins("groups")]
    BY <2>1, <2>3
  <2> QED BY <2>2, <2>3 DEF Init
<1>4. hostLock \in Callers \cup {None} /\ run = NoRun /\ ok \in [all : BOOLEAN, lists : BOOLEAN]
  BY DEF Init
<1> QED BY <1>1, <1>2, <1>3, <1>4 DEF Types

LEMMA TypesInductive ==
  /\ Init => Types
  /\ Types /\ [Next]_vars => Types'
<1>1. ASSUME Types, UNCHANGED vars PROVE Types'
  BY <1>1 DEF Types, vars, locks, files
<1> QED BY <1>1, TypesInit, StepIs, RunStepTyped, OutsideTyped

\* A step of the run goes on, or ends it.
Continues ==
    /\ UNCHANGED <<up, authType, subjects, caller, hostLock, ok>>
    /\ run' \in Runs /\ run'.by = run.by /\ run'.all = run.all /\ run'.enabled = run.enabled
    /\ run'.step \in {"usersRead", "groupsRead"} => run.enabled
    /\ run'.step \in {"nss", "sshd", "pam"} => run.all

LEMMA StepContinues ==
  ASSUME run \in Runs, NEW step \in RunSteps, Step(step), UNCHANGED <<up, subjects>>,
         step \in {"usersRead", "groupsRead"} => run.enabled,
         step \in {"nss", "sshd", "pam"} => run.all
  PROVE  Continues /\ run'.step = step
<1>1. run' = [run EXCEPT !.step = step] /\ UNCHANGED <<authType, caller, locks, ok>>
  BY DEF Step
<1>2. run' \in Runs /\ run'.by = run.by /\ run'.all = run.all /\ run'.enabled = run.enabled /\ run'.step = step
  BY <1>1 DEF Runs
<1> QED BY <1>1, <1>2 DEF Continues, locks

LEMMA RunStepIs ==
  ASSUME Types, Control, RunStep
  PROVE  /\ run \in Runs /\ run # NoRun /\ UNCHANGED <<up, subjects>>
         /\ Continues \/ \E success \in BOOLEAN : RunEnds(success)
<1>0. TRUE \in BOOLEAN /\ FALSE \in BOOLEAN /\ {"users", "usersRead", "sshd", "groups", "groupsRead", "pam"} \subseteq RunSteps
      /\ "none" \notin RunSteps
  BY DEF RunSteps
<1>1. CASE ApplyNss
  <2>1. run \in Runs /\ run # NoRun /\ run.all
    BY <1>1, RunTyped DEF ApplyNss, Control
  <2>2. Continues
    BY <1>0, <1>1, <2>1, StepContinues DEF ApplyNss
  <2> QED BY <1>1, <2>1, <2>2 DEF ApplyNss
<1>2. CASE ApplySshd
  <2>1. run \in Runs /\ run # NoRun
    BY <1>2, RunTyped DEF ApplySshd
  <2>2. Continues \/ RunEnds(FALSE)
    BY <1>0, <1>2, <2>1, StepContinues DEF ApplySshd
  <2> QED BY <1>0, <1>2, <2>1, <2>2 DEF ApplySshd
<1>3. CASE ApplyStaticPam
  <2>1. run \in Runs /\ run # NoRun
    BY <1>3, RunTyped DEF ApplyStaticPam
  <2> QED BY <1>0, <1>3, <2>1 DEF ApplyStaticPam
<1>4. ASSUME run \in Runs, UNCHANGED <<up, subjects>>, NEW list \in {"users", "groups"}, After(list)
      PROVE  Continues \/ \E success \in BOOLEAN : RunEnds(success)
  <2>1. CASE Step("groups")
    BY <1>0, <1>4, <2>1, StepContinues
  <2>2. CASE run.all /\ Step("pam")
    BY <1>0, <1>4, <2>2, StepContinues
  <2>3. CASE RunEnds(TRUE)
    BY <1>0, <2>3
  <2> QED BY <1>4, <2>1, <2>2, <2>3 DEF After
<1>5. ASSUME NEW list \in {"users", "groups"}, RemoveList(list)
      PROVE  /\ run \in Runs /\ run # NoRun /\ UNCHANGED <<up, subjects>>
             /\ Continues \/ \E success \in BOOLEAN : RunEnds(success)
  <2>1. run \in Runs /\ run # NoRun
    BY <1>5, RunTyped DEF RemoveList
  <2> QED BY <1>4, <1>5, <2>1 DEF RemoveList
<1>6. ASSUME NEW list \in {"users", "groups"}, InstallList(list)
      PROVE  /\ run \in Runs /\ run # NoRun /\ UNCHANGED <<up, subjects>>
             /\ Continues \/ \E success \in BOOLEAN : RunEnds(success)
  <2>1. run \in Runs /\ run # NoRun
    BY <1>6, RunTyped DEF InstallList, Reading
  <2> QED BY <1>4, <1>6, <2>1 DEF InstallList
<1>7. ASSUME NEW list \in {"users", "groups"}, GetAll(list)
      PROVE  run \in Runs /\ run # NoRun /\ UNCHANGED <<up, subjects>> /\ Continues
  <2>1. run \in Runs /\ run # NoRun
    BY <1>7, RunTyped DEF GetAll
  <2>2. /\ run' \in Runs /\ run'.by = run.by /\ run'.all = run.all /\ run'.enabled = run.enabled
        /\ run'.step \in {"usersRead", "groupsRead"}
    BY <1>0, <1>7, <2>1 DEF GetAll, Runs
  <2> QED BY <1>7, <2>1, <2>2 DEF GetAll, Continues, locks
<1>8. ASSUME NEW list \in {"users", "groups"}, NEW s \in Subjects, GetRecord(list, s)
      PROVE  run \in Runs /\ run # NoRun /\ UNCHANGED <<up, subjects>> /\ Continues
  <2>1. run \in Runs /\ run # NoRun
    BY <1>8, RunTyped DEF GetRecord, Reading
  <2>2. /\ run' \in Runs /\ run'.by = run.by /\ run'.all = run.all /\ run'.enabled = run.enabled
        /\ run'.step = run.step
    <3>1. CASE run' = [run EXCEPT !.todo = {}]
      BY <2>1, <3>1 DEF Runs
    <3>2. CASE run' = [run EXCEPT !.todo = @ \ {s},
                               !.lines = IF subjects[s] = "admin" /\ Responsible(list, s)
                                         THEN @ \cup {s} ELSE @]
      BY <2>1, <3>2 DEF Runs
    <3> QED BY <1>8, <3>1, <3>2 DEF GetRecord
  <2> QED BY <1>8, <2>1, <2>2 DEF GetRecord, Continues, locks, Control
<1> QED BY <1>1, <1>2, <1>3, <1>5, <1>6, <1>7, <1>8 DEF RunStep

\* The holder of the lock during a run is its caller.
LEMMA RunBy == Types /\ Control /\ run # NoRun => hostLock = run.by /\ hostLock # None /\ up
<1> SUFFICES ASSUME Types, Control, run # NoRun PROVE hostLock = run.by /\ hostLock # None /\ up
  OBVIOUS
<1>1. hostLock # None /\ Holder(hostLock)
  BY DEF Control
<1>2. hostLock = run.by
  BY <1>1 DEF Holder
<1>3. up
  BY <1>1 DEF Control, Types
<1> QED BY <1>1, <1>2, <1>3

LEMMA ControlRunStep == Types /\ Control /\ RunStep => Control'
<1> SUFFICES ASSUME Types, Control, RunStep PROVE Control'
  OBVIOUS
<1>0. /\ run \in Runs /\ run # NoRun /\ UNCHANGED <<up, subjects>>
      /\ Continues \/ \E success \in BOOLEAN : RunEnds(success)
  BY RunStepIs
<1>1. hostLock = run.by /\ hostLock # None /\ up /\ Holder(hostLock) /\ run.by \in Callers
  BY <1>0, RunBy DEF Control, Runs
<1>2. CASE Continues
  <2>1. run' # NoRun
    BY <1>2 DEF Continues, Runs, NoRun, RunSteps
  <2>2. Holder(hostLock)'
    BY <1>0, <1>1, <1>2, <2>1 DEF Holder, Continues
  <2>3. \A c \in Callers :
        /\ caller'[c].step \in {"run", "enable", "disable", "cleared"} => hostLock' = c
        /\ caller'[c].again => c \in Events /\ caller'[c].step # "off"
    BY <1>2 DEF Continues, Control
  <2>4. hostLock' # None /\ up'
    BY <1>0, <1>1, <1>2 DEF Continues
  <2>5. /\ run'.step \in {"usersRead", "groupsRead"} => run'.enabled
        /\ run'.step \in {"nss", "sshd", "pam"} => run'.all
    BY <1>2 DEF Continues
  <2> QED BY <2>2, <2>3, <2>4, <2>5 DEF Control
<1>3. ASSUME NEW success \in BOOLEAN, RunEnds(success) PROVE Control'
  <2>1. PICK c \in Callers, step \in {"loop", "off", "cleared"}, arg \in Args :
            /\ c = run.by /\ step \in StepsOf(c) /\ (c \in Events => step = "loop")
            /\ Moves(c, step, arg, caller[c].again)
            /\ step = "cleared" <=> c = "switch" /\ ~run.enabled /\ success
            /\ hostLock' = (IF step = "cleared" THEN hostLock ELSE None)
            /\ authType' = (IF c = "switch" /\ run.enabled /\ ~success THEN "" ELSE authType)
            /\ run' = NoRun
            /\ ok' = [all |-> IF run.all THEN success ELSE ok.all, lists |-> success]
    BY <1>0, <1>3, RunEndsMoves
  <2>2. caller'[c].step = step /\ caller'[c].again = caller[c].again
        /\ \A d \in Callers : d # c => caller'[d] = caller[d]
    BY <2>1, MovesTo
  <2>3. hostLock' # None => Holder(hostLock)'
    <3> SUFFICES ASSUME hostLock' # None PROVE Holder(hostLock)'
      OBVIOUS
    <3>1. step = "cleared" /\ hostLock' = c /\ c = "switch"
      BY <1>1, <2>1
    <3>2. authType' = "AD"
      BY <1>1, <2>1, <3>1 DEF Holder
    <3> QED BY <2>1, <2>2, <3>1, <3>2 DEF Holder
  <2>4. \A d \in Callers : caller'[d].step \in {"run", "enable", "disable", "cleared"} => hostLock' = d
    <3> SUFFICES ASSUME NEW d \in Callers, caller'[d].step \in {"run", "enable", "disable", "cleared"}
                 PROVE  hostLock' = d
      OBVIOUS
    <3>1. d = c
      <4>1. ASSUME d # c PROVE FALSE
        <5>1. caller[d].step \in {"run", "enable", "disable", "cleared"}
          BY <2>2, <4>1
        <5> QED BY <1>1, <2>1, <4>1, <5>1 DEF Control
      <4> QED BY <4>1
    <3>2. step = "cleared"
      BY <2>1, <2>2, <3>1
    <3> QED BY <1>1, <2>1, <3>1, <3>2
  <2>5. \A d \in Callers : caller'[d].again => d \in Events /\ caller'[d].step # "off"
    <3> SUFFICES ASSUME NEW d \in Callers, caller'[d].again PROVE d \in Events /\ caller'[d].step # "off"
      OBVIOUS
    <3>1. CASE d = c
      <4>1. c \in Events
        BY <2>2, <3>1 DEF Control
      <4>2. step # "off"
        BY <2>1, <4>1
      <4> QED BY <2>2, <3>1, <4>1, <4>2
    <3>2. CASE d # c
      BY <2>2, <3>2 DEF Control
    <3> QED BY <3>1, <3>2
  <2>6. up'
    BY <1>0, <1>1
  <2> QED BY <2>1, <2>3, <2>4, <2>5, <2>6 DEF Control
<1> QED BY <1>0, <1>2, <1>3

LEMMA ControlInit == Init => Control
<1> SUFFICES ASSUME Init PROVE Control
  OBVIOUS
<1>1. \A c \in Callers : caller[c].step = "off" /\ caller[c].again = FALSE
  BY DEF Init, Off
<1> QED BY <1>1 DEF Init, Control, NoRun

LEMMA ControlTurn ==
  ASSUME Types, Control, NEW c \in Callers, NEW step, NEW arg, NEW again, Turn(c, step, arg, again)
  PROVE  Control'
<1>0. /\ caller'[c].step = step /\ caller'[c].arg = arg /\ caller'[c].again = again
      /\ \A d \in Callers : d # c => caller'[d] = caller[d]
  BY MovesTo DEF Turn
<1>1. UNCHANGED <<up, authType, hostLock, run>>
  BY DEF Turn
<1>2. caller[c].step \in {"loop", "pool", "check", "params", "test", "host"}
      /\ step \in {"pool", "off", "params", "loop", "test", "host"}
  BY DEF Turn, Ended
<1>3. hostLock # c
  <2>1. ASSUME hostLock = c PROVE FALSE
    <3>1. Holder(c)
      BY <2>1 DEF Control, Callers, Events, None
    <3>2. caller[c].step \in {"run", "enable", "disable", "cleared"}
      BY <3>1 DEF Holder
    <3> QED BY <1>2, <3>2
  <2> QED BY <2>1
<1>4. hostLock' # None => Holder(hostLock)'
  <2> SUFFICES ASSUME hostLock # None PROVE Holder(hostLock)'
    BY <1>1
  <2>1. hostLock \in Callers /\ Holder(hostLock)
    BY DEF Types, Control
  <2>2. caller'[hostLock] = caller[hostLock]
    BY <1>0, <1>3, <2>1
  <2> QED BY <1>1, <2>1, <2>2 DEF Holder
<1>5. \A d \in Callers : caller'[d].step \in {"run", "enable", "disable", "cleared"} => hostLock' = d
  BY <1>0, <1>1, <1>2 DEF Control
<1>6. \A d \in Callers : caller'[d].again => d \in Events /\ caller'[d].step # "off"
  <2>1. ASSUME again PROVE c \in Events /\ step # "off"
    <3>1. again = caller[c].again
      BY <2>1 DEF Turn
    <3>2. c \in Events
      BY <2>1, <3>1 DEF Control
    <3> QED BY <2>1, <3>2 DEF Turn, Ended, Events
  <2> QED BY <1>0, <2>1 DEF Control
<1>7. ~up' => /\ hostLock' = None /\ caller'["init"].step = "off"
              /\ \A d \in Callers : caller'[d].step # "host"
  <2> SUFFICES ASSUME ~up PROVE /\ hostLock' = None /\ caller'["init"].step = "off"
              /\ \A d \in Callers : caller'[d].step # "host"
    BY <1>1
  <2>1. hostLock = None /\ caller["init"].step = "off" /\ \A d \in Callers : caller[d].step # "host"
    BY DEF Control
  <2>2. c # "init" /\ step # "host" /\ "init" \in Callers
    BY <1>2, <2>1 DEF Turn, Callers, Ended
  <2> QED BY <1>0, <1>1, <2>1, <2>2
<1>8. run' # NoRun =>
        /\ run'.step \in {"usersRead", "groupsRead"} => run'.enabled
        /\ run'.step \in {"nss", "sshd", "pam"} => run'.all
  BY <1>1 DEF Control
<1>9. hostLock' = None => run' = NoRun
  BY <1>1 DEF Control
<1> QED BY <1>4, <1>5, <1>6, <1>7, <1>8, <1>9 DEF Control

\* A caller takes the free lock for a run.
LEMMA ControlTakes ==
  ASSUME Types, Control, NEW c \in Callers, NEW step, NEW all \in BOOLEAN, NEW enabled \in BOOLEAN,
         hostLock = None, up, up' = up, hostLock' = c, NewRun(c, all, enabled),
         Moves(c, step, caller[c].arg, caller[c].again),
         caller[c].step = "off" => c \notin Events,
         step # "off",
         IF c = "switch" THEN authType' = "AD" /\ all /\ step = (IF enabled THEN "enable" ELSE "disable")
         ELSE step = "run" /\ enabled /\ all = (c = "init")
  PROVE  Control'
<1>0. /\ caller'[c].step = step /\ caller'[c].again = caller[c].again
      /\ \A d \in Callers : d # c => caller'[d] = caller[d]
  BY MovesTo
<1>1. /\ run' \in Runs /\ run'.by = c /\ run'.all = all /\ run'.enabled = enabled
      /\ run'.step = (IF all THEN "nss" ELSE "users") /\ run' # NoRun
  <2>1. /\ run' \in Runs /\ run'.by = c /\ run'.all = all /\ run'.enabled = enabled
        /\ run'.step = (IF all THEN "nss" ELSE "users")
    BY NewRunTyped
  <2>2. run'.step # "none"
    BY <2>1
  <2> QED BY <2>1, <2>2 DEF NoRun
<1>2. Holder(hostLock)' /\ hostLock' # None
  BY <1>0, <1>1 DEF Holder, Callers, Events, None
<1>3. \A d \in Callers : caller'[d].step \in {"run", "enable", "disable", "cleared"} => hostLock' = d
  BY <1>0 DEF Control, Callers, Events, None
<1>4. \A d \in Callers : caller'[d].again => d \in Events /\ caller'[d].step # "off"
  BY <1>0 DEF Control
<1>5. /\ run'.step \in {"usersRead", "groupsRead"} => run'.enabled
      /\ run'.step \in {"nss", "sshd", "pam"} => run'.all
  BY <1>1
<1> QED BY <1>2, <1>3, <1>4, <1>5 DEF Control

LEMMA ControlOutside == Types /\ Control /\ Outside => Control'
<1> SUFFICES ASSUME Types, Control, Outside PROVE Control'
  OBVIOUS
<1>0. /\ "switch" \in Callers /\ "init" \in Callers /\ Callers = Events \cup {"init", "switch"}
      /\ \A e \in Events : e # "init" /\ e # "switch"
      /\ None \notin Callers
  BY DEF Callers, Events, None
<1>1. CASE AnyTurn
  BY <1>1, ControlTurn DEF AnyTurn
<1>2. ASSUME NEW c \in Callers, Begins(c) PROVE Control'
  <2>1. up
    BY <1>2 DEF Begins, Control
  <2>2. (c = "init") \in BOOLEAN /\ TRUE \in BOOLEAN
    OBVIOUS
  <2>3. /\ hostLock = None /\ up' = up /\ hostLock' = c /\ NewRun(c, c = "init", TRUE)
        /\ Moves(c, "run", caller[c].arg, caller[c].again)
        /\ caller[c].step # "off" /\ c # "switch"
    BY <1>2 DEF Begins
  <2> QED BY <2>1, <2>2, <2>3, ControlTakes
<1>3. ASSUME NEW s \in Subjects, NEW e \in Events, Changes(s, e) PROVE Control'
  <2>1. PICK step \in Steps, again \in BOOLEAN :
        /\ Moves(e, step, caller[e].arg, again)
        /\ IF caller[e].step = "off" THEN step = "pool" /\ again = caller[e].again
           ELSE step = caller[e].step /\ again
    BY <1>3 DEF Changes
  <2>2. /\ caller'[e].step = step /\ caller'[e].again = again
        /\ \A d \in Callers : d # e => caller'[d] = caller[d]
    BY <2>1, MovesTo
  <2>3. e \in Callers /\ e # "init" /\ e # "switch"
    BY <1>0
  <2>4. step # "off" /\ (step = caller[e].step \/ step = "pool")
    BY <2>1
  <2>5. UNCHANGED <<up, authType, hostLock, run>>
    BY <1>3 DEF Changes
  <2>6. hostLock' # None => Holder(hostLock)'
    <3> SUFFICES ASSUME hostLock # None PROVE Holder(hostLock)'
      BY <2>5
    <3>1. hostLock \in Callers /\ Holder(hostLock)
      BY DEF Types, Control
    <3>2. caller'[hostLock].step = caller[hostLock].step
      <4>1. CASE hostLock = e
        <5>1. caller[e].step = "run"
          BY <2>3, <3>1, <4>1 DEF Holder
        <5> QED BY <2>1, <2>2, <4>1, <5>1
      <4>2. CASE hostLock # e
        BY <2>2, <3>1, <4>2
      <4> QED BY <4>1, <4>2
    <3> QED BY <2>5, <3>1, <3>2 DEF Holder
  <2>7. \A d \in Callers : caller'[d].step \in {"run", "enable", "disable", "cleared"} => hostLock' = d
    BY <2>2, <2>4, <2>5 DEF Control
  <2>8. \A d \in Callers : caller'[d].again => d \in Events /\ caller'[d].step # "off"
    BY <2>2, <2>3, <2>4 DEF Control
  <2>9. ~up' => /\ hostLock' = None /\ caller'["init"].step = "off"
                /\ \A d \in Callers : caller'[d].step # "host"
    BY <1>0, <2>2, <2>3, <2>4, <2>5 DEF Control
  <2>10. (hostLock' = None => run' = NoRun) /\ (run' # NoRun =>
            /\ run'.step \in {"usersRead", "groupsRead"} => run'.enabled
            /\ run'.step \in {"nss", "sshd", "pam"} => run'.all)
    BY <2>5 DEF Control
  <2> QED BY <2>6, <2>7, <2>8, <2>9, <2>10 DEF Control
<1>4. ASSUME NEW enabled \in BOOLEAN, Switches(enabled) PROVE Control'
  <2> DEFINE step == IF enabled THEN "enable" ELSE "disable"
  <2>1. /\ hostLock = None /\ up /\ up' = up /\ hostLock' = "switch" /\ NewRun("switch", TRUE, enabled)
        /\ Moves("switch", step, caller["switch"].arg, caller["switch"].again)
        /\ authType' = "AD" /\ TRUE \in BOOLEAN /\ step # "off" /\ "switch" \notin Events
    BY <1>0, <1>4 DEF Switches
  <2> QED BY <1>0, <2>1, ControlTakes
<1>5. CASE Clears
  <2>1. /\ caller'["switch"].step = "off" /\ caller'["switch"].again = caller["switch"].again
        /\ \A d \in Callers : d # "switch" => caller'[d] = caller[d]
    <3>1. Moves("switch", "off", caller["switch"].arg, caller["switch"].again)
      BY <1>5 DEF Clears
    <3> QED BY <3>1, MovesTo
  <2>2. /\ hostLock = "switch" /\ caller["switch"].step = "cleared" /\ UNCHANGED <<up, run>> /\ hostLock' = None
    BY <1>0, <1>5 DEF Clears, Control
  <2>3. run = NoRun /\ up /\ run' = NoRun
    BY <1>0, <2>2 DEF Control, Holder
  <2>4. \A d \in Callers : caller'[d].step \notin {"run", "enable", "disable", "cleared"}
    BY <1>0, <2>1, <2>2 DEF Control
  <2>5. \A d \in Callers : caller'[d].again => d \in Events /\ caller'[d].step # "off"
    BY <1>0, <2>1 DEF Control
  <2> QED BY <2>2, <2>3, <2>4, <2>5 DEF Control
<1>6. CASE Starts
  <2>1. /\ caller'["init"].step = "check" /\ caller'["init"].again = caller["init"].again
        /\ \A d \in Callers : d # "init" => caller'[d] = caller[d]
    BY <1>6, MovesTo DEF Starts
  <2>2. ~up /\ up' /\ UNCHANGED <<hostLock, run>>
    BY <1>6 DEF Starts
  <2>3. hostLock = None /\ run = NoRun
    BY <2>2 DEF Control
  <2>4. \A d \in Callers : caller'[d].step \notin {"run", "enable", "disable", "cleared"}
    BY <1>0, <2>1, <2>3 DEF Control
  <2>5. \A d \in Callers : caller'[d].again => d \in Events /\ caller'[d].step # "off"
    BY <1>0, <2>1 DEF Control
  <2> QED BY <2>2, <2>3, <2>4, <2>5 DEF Control
<1>7. CASE Crashes
  <2>1. hostLock' = None /\ run' = NoRun
    BY <1>7 DEF Crashes
  <2>2. Off.step = "off" /\ Off.again = FALSE
    BY DEF Off
  <2>3. \A e \in Events : /\ caller'[e].again = caller[e].again
                          /\ caller'[e].step \notin {"host", "run"}
                          /\ caller'[e].step = "loop" \/ caller'[e].step = caller[e].step
    <3> SUFFICES ASSUME NEW e \in Events
                 PROVE  /\ caller'[e].again = caller[e].again
                        /\ caller'[e].step \notin {"host", "run"}
                        /\ caller'[e].step = "loop" \/ caller'[e].step = caller[e].step
      OBVIOUS
    <3>1. CASE caller[e].step \in {"host", "run"}
      <4>1. PICK flag : flag = caller[e].again
        OBVIOUS
      <4>2. PICK place : place = ""
        OBVIOUS
      <4>3. caller'[e] = [step |-> "loop", arg |-> place, again |-> flag]
        BY <1>7, <3>1, <4>1, <4>2 DEF Crashes
      <4>4. caller'[e].step = "loop" /\ caller'[e].again = flag
        BY <4>3
      <4> QED BY <4>1, <4>4
    <3>2. CASE caller[e].step \notin {"host", "run"}
      BY <1>7, <3>2 DEF Crashes
    <3> QED BY <3>1, <3>2
  <2>4. \A e \in Events : caller[e].step \notin {"enable", "disable", "cleared"}
    BY <1>0 DEF Types, StepsOf, InCall
  <2>5. caller'["init"] = Off /\ caller'["switch"] = Off
    BY <1>7 DEF Crashes
  <2>6. \A d \in Callers : /\ caller'[d].step \notin {"run", "enable", "disable", "cleared", "host"}
                           /\ caller'[d].again => d \in Events /\ caller'[d].step # "off"
    BY <1>0, <2>2, <2>3, <2>4, <2>5 DEF Control
  <2>7. caller'["init"].step = "off"
    BY <2>2, <2>5
  <2> QED BY <2>1, <2>6, <2>7 DEF Control
<1> QED BY <1>1, <1>2, <1>3, <1>4, <1>5, <1>6, <1>7 DEF Outside

LEMMA ControlInductive == Types /\ Control /\ [Next]_vars => Control'
<1>1. ASSUME Control, UNCHANGED vars PROVE Control'
  BY <1>1 DEF Control, Holder, vars, locks
<1> QED BY <1>1, StepIs, ControlRunStep, ControlOutside

(***************************************************************************)
(* The lists are exact, or a refresh of them is owed.                      *)
(***************************************************************************)

\* A turn of a caller on a host with AD on does not forget what is owed.
LEMMA TurnOwes ==
  ASSUME NEW c \in Callers, NEW step, NEW arg, NEW again, Turn(c, step, arg, again),
         authType = "AD", up, Owed
  PROVE  Owed'
<1>0. /\ caller'[c].step = step /\ caller'[c].arg = arg /\ caller'[c].again = again
      /\ \A d \in Callers : d # c => caller'[d] = caller[d]
  BY MovesTo DEF Turn
<1>1. PICK d \in Callers : Due(d)
  BY DEF Owed
<1>2. CASE d # c
  BY <1>0, <1>1, <1>2 DEF Due, Owed
<1>3. CASE d = c
  <2>1. CASE caller[c].step = "loop"
    <3>1. caller[c].again
      BY <1>1, <1>3, <2>1 DEF Due
    <3>2. step = "pool"
      BY <2>1, <3>1 DEF Turn
    <3> QED BY <1>0, <3>2 DEF Due, Owed
  <2>2. CASE caller[c].step # "loop"
    <3>1. again = caller[c].again
      BY <2>2 DEF Turn
    <3>2. CASE caller[c].again
      BY <1>0, <3>1, <3>2 DEF Due, Owed
    <3>3. CASE caller[c].step \in {"pool", "check", "params"}
      <4>1. step = "params" \/ (step = "test" /\ arg = "AD")
        BY <3>3 DEF Turn
      <4> QED BY <1>0, <4>1 DEF Due, Owed
    <3>4. CASE caller[c].step \in {"test", "host"} /\ caller[c].arg = "AD"
      <4>1. step = "host" /\ arg = "AD"
        BY <3>4 DEF Turn
      <4> QED BY <1>0, <4>1 DEF Due, Owed
    <3> QED BY <1>1, <1>3, <3>2, <3>3, <3>4 DEF Due
  <2> QED BY <2>1, <2>2
<1> QED BY <1>2, <1>3

\* Nor does the end of a run.
LEMMA EndOwes ==
  ASSUME Types, Control, run \in Runs, run # NoRun, NEW success \in BOOLEAN, RunEnds(success)
  PROVE  Owed => Owed'
<1>1. PICK c \in Callers, step \in {"loop", "off", "cleared"}, arg \in Args :
            /\ c = run.by /\ Moves(c, step, arg, caller[c].again)
  BY RunEndsMoves
<1>2. /\ caller'[c].again = caller[c].again
      /\ \A d \in Callers : d # c => caller'[d] = caller[d]
  BY <1>1, MovesTo
<1>3. hostLock = c /\ Holder(c)
  BY <1>1, RunBy DEF Control
<1>4. caller[c].step \in {"run", "enable", "disable", "cleared"}
  BY <1>3 DEF Holder
<1> SUFFICES ASSUME Owed PROVE Owed'
  OBVIOUS
<1>5. PICK d \in Callers : Due(d)
  BY DEF Owed
<1>6. Due(d)'
  <2>1. CASE d = c
    BY <1>2, <1>4, <1>5, <2>1 DEF Due
  <2>2. CASE d # c
    BY <1>2, <1>5, <2>2 DEF Due
  <2> QED BY <2>1, <2>2
<1> QED BY <1>6 DEF Owed

LEMMA ListedOutside == Types /\ Control /\ Listed /\ Outside => Listed'
<1> SUFFICES ASSUME Types, Control, Listed, Outside PROVE Listed'
  OBVIOUS
<1>0. Events \subseteq Callers /\ None \notin Callers /\ "init" \in Callers /\ "switch" \in Callers
  BY DEF Events, Callers, None
<1>1. CASE AnyTurn
  <2>1. PICK c \in Callers, step \in Steps, arg \in Args, again \in BOOLEAN : Turn(c, step, arg, again)
    BY <1>1 DEF AnyTurn
  <2>2. UNCHANGED <<up, authType, subjects, hostLock, run, lists, ok>>
    BY <2>1 DEF Turn
  <2>3. authType = "AD" /\ up /\ Owed => Owed'
    BY <2>1, TurnOwes
  <2> QED BY <2>2, <2>3 DEF Listed, ListedByRun, ReadSoFar, Exact, Admins
<1>2. ASSUME NEW c \in Callers, Begins(c) PROVE Listed'
  <2>1. hostLock' # None
    BY <1>0, <1>2 DEF Begins
  <2>2. run'.step \in {"nss", "users"}
    BY <1>2 DEF Begins, NewRun
  <2> QED BY <2>1, <2>2 DEF Listed, ListedByRun
<1>3. ASSUME NEW e \in Events, NEW s \in Subjects, Changes(s, e) PROVE Listed'
  <2>1. PICK step \in Steps, again \in BOOLEAN :
        /\ Moves(e, step, caller[e].arg, again)
        /\ IF caller[e].step = "off" THEN step = "pool" /\ again = caller[e].again
           ELSE step = caller[e].step /\ again
    BY <1>3 DEF Changes
  <2>2. caller'[e].step = step /\ caller'[e].again = again
    BY <2>1, MovesTo
  <2>3. Owed'
    BY <1>0, <2>1, <2>2 DEF Owed, Due
  <2> QED BY <2>3 DEF Listed
<1>4. ASSUME NEW enabled \in BOOLEAN, Switches(enabled) PROVE Listed'
  <2>1. hostLock' # None
    BY <1>0, <1>4 DEF Switches
  <2>2. run'.step = "nss"
    BY <1>4 DEF Switches, NewRun
  <2> QED BY <2>1, <2>2 DEF Listed, ListedByRun
<1>5. CASE Clears
  BY <1>5 DEF Clears, Listed
<1>6. CASE Starts
  <2>1. caller'["init"].step = "check"
    BY <1>6, MovesTo DEF Starts
  <2>2. Owed'
    BY <1>0, <2>1 DEF Owed, Due
  <2> QED BY <2>2 DEF Listed
<1>7. CASE Crashes
  BY <1>7 DEF Crashes, Listed
<1> QED BY <1>1, <1>2, <1>3, <1>4, <1>5, <1>6, <1>7 DEF Outside

\* A run that goes on.
LEMMA ListedContinues ==
  ASSUME Types, Control, run \in Runs, run # NoRun, Continues,
         (authType = "AD" /\ ~Owed /\ run.enabled) => ListedByRun'
  PROVE  Listed'
<1>1. hostLock' # None /\ Owed' = Owed /\ authType' = authType /\ run'.enabled = run.enabled
  BY RunBy DEF Continues, Owed, Due
<1> QED BY <1>1 DEF Listed

\* A run that ends.
LEMMA ListedEnds ==
  ASSUME Types, Control, run \in Runs, run # NoRun, UNCHANGED up, NEW success \in BOOLEAN, RunEnds(success),
         (authType = "AD" /\ ~Owed /\ run.enabled /\ success) => (Exact("users") /\ Exact("groups"))'
  PROVE  Listed'
<1>1. PICK c \in Callers, step \in {"loop", "off", "cleared"}, arg \in Args :
            /\ c = run.by
            /\ step = "cleared" <=> c = "switch" /\ ~run.enabled /\ success
            /\ hostLock' = (IF step = "cleared" THEN hostLock ELSE None)
            /\ authType' = (IF c = "switch" /\ run.enabled /\ ~success THEN "" ELSE authType)
            /\ run' = NoRun
            /\ ok' = [all |-> IF run.all THEN success ELSE ok.all, lists |-> success]
  BY RunEndsMoves
<1>2. ok'.lists = success
  BY <1>1
<1>3. hostLock = c /\ hostLock # None /\ Holder(c)
  BY <1>1, RunBy DEF Control
<1>4. run.enabled \/ c = "switch"
  BY <1>3 DEF Holder
<1>5. Owed => Owed'
  BY EndOwes
<1>6. authType' = "AD" => authType = "AD"
  BY <1>1
<1>7. ASSUME authType' = "AD", ~Owed', hostLock' = None, ok'.lists
      PROVE  (Exact("users") /\ Exact("groups"))'
  <2>1. success
    BY <1>2, <1>7
  <2>2. run.enabled
    BY <1>1, <1>3, <1>4, <1>7, <2>1
  <2> QED BY <1>5, <1>6, <1>7, <2>1, <2>2
<1> QED BY <1>1, <1>7 DEF Listed

LEMMA StepsContinue ==
  ASSUME Types, Control, run \in Runs, NEW step \in RunSteps, Step(step), UNCHANGED <<up, subjects>>,
         step \in {"sshd", "users", "groups", "pam"}, step \in {"sshd", "pam"} => run.all
  PROVE  Continues /\ run'.step = step
<1>1. step \in {"usersRead", "groupsRead"} => run.enabled
  OBVIOUS
<1>2. step \in {"nss", "sshd", "pam"} => run.all
  OBVIOUS
<1> QED BY <1>1, <1>2, StepContinues

LEMMA ListedRunStep == Types /\ Control /\ Listed /\ RunStep => Listed'
<1> SUFFICES ASSUME Types, Control, Listed, RunStep PROVE Listed'
  OBVIOUS
<1>0. /\ TRUE \in BOOLEAN /\ FALSE \in BOOLEAN
      /\ {"users", "usersRead", "sshd", "groups", "groupsRead", "pam"} \subseteq RunSteps
  BY DEF RunSteps
<1>1. run \in Runs /\ run # NoRun /\ UNCHANGED <<up, subjects>>
  BY RunStepIs
<1>2. authType = "AD" /\ ~Owed /\ run.enabled => ListedByRun
  BY <1>1, RunBy DEF Listed
<1>3. CASE ApplyNss
  <2>1. Continues /\ run'.step = "sshd"
    BY <1>0, <1>1, <1>3, StepsContinue DEF ApplyNss, Control
  <2> QED BY <1>1, <2>1, ListedContinues DEF ListedByRun
<1>4. CASE ApplySshd
  <2>1. CASE Step("users")
    <3>1. Continues /\ run'.step = "users"
      BY <1>0, <1>1, <2>1, StepsContinue
    <3> QED BY <1>1, <3>1, ListedContinues DEF ListedByRun
  <2>2. CASE RunEnds(FALSE)
    BY <1>0, <1>1, <2>2, ListedEnds
  <2> QED BY <1>4, <2>1, <2>2 DEF ApplySshd
<1>5. CASE ApplyStaticPam
  <2>1. RunEnds(TRUE) /\ run.step = "pam" /\ UNCHANGED <<subjects, lists>>
    BY <1>5 DEF ApplyStaticPam
  <2>2. (authType = "AD" /\ ~Owed /\ run.enabled) => (Exact("users") /\ Exact("groups"))'
    BY <1>2, <2>1 DEF ListedByRun, Exact, Admins
  <2> QED BY <1>0, <1>1, <2>1, <2>2, ListedEnds
<1>6. ASSUME NEW list \in {"users", "groups"}, After(list),
             /\ (authType = "AD" /\ ~Owed /\ run.enabled) =>
                  Exact("users")' /\ (list = "groups" => Exact("groups")')
      PROVE  Listed'
  <2>1. CASE list = "users"
    <3>1. Continues /\ run'.step = "groups"
      BY <1>0, <1>1, <1>6, <2>1, StepsContinue DEF After
    <3> QED BY <1>1, <1>6, <3>1, ListedContinues DEF ListedByRun
  <2>2. CASE list = "groups" /\ run.all
    <3>1. Continues /\ run'.step = "pam"
      BY <1>0, <1>1, <1>6, <2>2, StepsContinue DEF After
    <3> QED BY <1>1, <1>6, <2>2, <3>1, ListedContinues DEF ListedByRun
  <2>3. CASE list = "groups" /\ ~run.all
    <3>1. RunEnds(TRUE)
      BY <1>6, <2>3 DEF After
    <3> QED BY <1>0, <1>1, <1>6, <2>3, <3>1, ListedEnds
  <2> QED BY <2>1, <2>2, <2>3
<1>7. ASSUME NEW list \in {"users", "groups"}, RemoveList(list) PROVE Listed'
  <2>1. After(list) /\ ~run.enabled
    BY <1>7 DEF RemoveList
  <2> QED BY <1>6, <2>1
<1>8. ASSUME NEW list \in {"users", "groups"}, InstallList(list) PROVE Listed'
  <2>1. /\ After(list) /\ run.todo = {} /\ lists' = [lists EXCEPT ![list] = run.lines]
        /\ run.step = (IF list = "users" THEN "usersRead" ELSE "groupsRead") /\ subjects' = subjects
    BY <1>8 DEF InstallList, Reading
  <2>2. DOMAIN lists = {"users", "groups"} /\ run.lines \subseteq Subjects
    BY <1>1 DEF Types, Runs
  <2>3. (authType = "AD" /\ ~Owed /\ run.enabled) =>
            Exact("users")' /\ (list = "groups" => Exact("groups")')
    <3> SUFFICES ASSUME authType = "AD", ~Owed, run.enabled
                 PROVE  Exact("users")' /\ (list = "groups" => Exact("groups")')
      OBVIOUS
    <3>1. ReadSoFar(list) /\ (list = "groups" => Exact("users"))
      BY <1>2, <2>1 DEF ListedByRun
    <3>2. run.lines = Admins(list)
      BY <2>1, <2>2, <3>1 DEF ReadSoFar, Admins
    <3>3. Admins("users")' = Admins("users") /\ Admins("groups")' = Admins("groups")
      BY <2>1 DEF Admins
    <3>4. lists'[list] = run.lines /\ \A other \in {"users", "groups"} : other # list => lists'[other] = lists[other]
      BY <2>1, <2>2
    <3>5. CASE list = "users"
      BY <3>2, <3>3, <3>4, <3>5 DEF Exact
    <3>6. CASE list = "groups"
      BY <3>1, <3>2, <3>3, <3>4, <3>6 DEF Exact
    <3> QED BY <3>5, <3>6
  <2> QED BY <1>6, <2>1, <2>3
<1>9. ASSUME NEW list \in {"users", "groups"}, GetAll(list) PROVE Listed'
  <2>1. /\ run.step = list /\ run.enabled
        /\ run' = [run EXCEPT !.step = IF list = "users" THEN "usersRead" ELSE "groupsRead",
                          !.todo = {s \in Subjects : subjects[s] # None}, !.lines = {}]
        /\ UNCHANGED <<up, authType, subjects, caller, hostLock, lists, ok>>
    BY <1>9 DEF GetAll, locks, files
  <2>2. /\ run' \in Runs /\ run'.by = run.by /\ run'.all = run.all /\ run'.enabled = run.enabled
        /\ run'.step = (IF list = "users" THEN "usersRead" ELSE "groupsRead")
        /\ run'.todo = {s \in Subjects : subjects[s] # None} /\ run'.lines = {}
    BY <1>0, <1>1, <2>1 DEF Runs
  <2>3. Continues
    <3>1. run'.step \notin {"nss", "sshd", "pam"}
      BY <2>2
    <3>2. run.enabled /\ UNCHANGED <<up, authType, subjects, caller, hostLock, ok>>
      BY <2>1
    <3>3. run' \in Runs /\ run'.by = run.by /\ run'.all = run.all /\ run'.enabled = run.enabled
      BY <2>2
    <3> QED BY <3>1, <3>2, <3>3 DEF Continues
  <2>4. ReadSoFar(list)'
    BY <2>1, <2>2 DEF ReadSoFar, Admins, None
  <2>5. list = "groups" => (authType = "AD" /\ ~Owed => Exact("users")')
    BY <1>2, <2>1 DEF ListedByRun, Exact, Admins
  <2>6. (authType = "AD" /\ ~Owed /\ run.enabled) => ListedByRun'
    BY <2>2, <2>4, <2>5 DEF ListedByRun
  <2> QED BY <1>1, <2>3, <2>6, ListedContinues
<1>10. ASSUME NEW list \in {"users", "groups"}, NEW s \in Subjects, GetRecord(list, s) PROVE Listed'
  <2>1. /\ run.step = (IF list = "users" THEN "usersRead" ELSE "groupsRead") /\ s \in run.todo
        /\ run' = IF subjects[s] = None THEN [run EXCEPT !.todo = {}]
                  ELSE [run EXCEPT !.todo = @ \ {s},
                               !.lines = IF subjects[s] = "admin" /\ Responsible(list, s)
                                         THEN @ \cup {s} ELSE @]
        /\ UNCHANGED <<up, authType, subjects, caller, hostLock, lists, ok>>
    BY <1>10 DEF GetRecord, Reading, locks, files
  <2>2. /\ run' \in Runs /\ run'.by = run.by /\ run'.all = run.all /\ run'.enabled = run.enabled
        /\ run'.step = run.step
        /\ subjects[s] # None =>
             /\ run'.todo = run.todo \ {s}
             /\ run'.lines = (IF subjects[s] = "admin" /\ Responsible(list, s)
                              THEN run.lines \cup {s} ELSE run.lines)
    <3>1. CASE subjects[s] = None
      BY <1>1, <2>1, <3>1 DEF Runs
    <3>2. CASE subjects[s] # None
      BY <1>1, <2>1, <3>2 DEF Runs
    <3> QED BY <3>1, <3>2
  <2>3. Continues
    BY <1>1, <2>1, <2>2 DEF Continues, Control
  <2>4. ASSUME ReadSoFar(list) PROVE ReadSoFar(list)'
    <3>1. subjects[s] # None /\ s \notin run.lines
      BY <2>1, <2>4 DEF ReadSoFar
    <3>2. s \in Admins(list) <=> subjects[s] = "admin" /\ Responsible(list, s)
      BY DEF Admins
    <3>3. Admins(list)' = Admins(list)
      BY <2>1 DEF Admins
    <3>4. \A t \in Subjects \ run'.todo : t \in run'.lines <=> t \in Admins(list)
      BY <2>2, <2>4, <3>1, <3>2 DEF ReadSoFar
    <3>5. \A t \in run'.todo : subjects[t] # None /\ t \notin run'.lines
      BY <2>2, <2>4, <3>1 DEF ReadSoFar
    <3> QED BY <2>1, <3>3, <3>4, <3>5 DEF ReadSoFar
  <2>5. Exact("users") => Exact("users")'
    BY <2>1 DEF Exact, Admins
  <2>6. (authType = "AD" /\ ~Owed /\ run.enabled) => ListedByRun'
    <3> SUFFICES ASSUME ListedByRun PROVE ListedByRun'
      BY <1>2
    <3>1. CASE list = "users"
      BY <2>1, <2>2, <2>4, <3>1 DEF ListedByRun
    <3>2. CASE list = "groups"
      BY <2>1, <2>2, <2>4, <2>5, <3>2 DEF ListedByRun
    <3> QED BY <3>1, <3>2
  <2> QED BY <1>1, <2>3, <2>6, ListedContinues
<1> QED BY <1>3, <1>4, <1>5, <1>7, <1>8, <1>9, <1>10 DEF RunStep

LEMMA ListedInit == Init => Listed
<1> SUFFICES ASSUME Init PROVE Listed
  OBVIOUS
<1>1. run = NoRun
  BY DEF Init
<1>2. authType = "AD" => Exact("users") /\ Exact("groups")
  <2>1. authType = "AD" => lists = [users |-> Admins("users"), groups |-> Admins("groups")]
    BY DEF Init
  <2> QED BY <2>1 DEF Exact
<1> QED BY <1>1, <1>2 DEF Listed

LEMMA ListedInductive == Types /\ Control /\ Listed /\ [Next]_vars => Listed'
<1>1. ASSUME Listed, UNCHANGED vars PROVE Listed'
  BY <1>1 DEF Listed, ListedByRun, ReadSoFar, Exact, Admins, Owed, Due, vars, locks, files
<1> QED BY <1>1, StepIs, ListedRunStep, ListedOutside

\* When nothing is under way on a host with AD on, the lists are the pool
\* administrators of the database, for all subjects, changes, switches and
\* crashes, and whether or not AD may be switched during the hook of the start.
THEOREM ListsAreExact == Spec => []ListsExact
<1>1. Types /\ Control /\ Listed => ListsExact
  <2> SUFFICES ASSUME Types, Control, Listed, Quiet, authType = "AD", ok.lists
               PROVE  lists = [users |-> Admins("users"), groups |-> Admins("groups")]
    BY DEF ListsExact
  <2>1. up /\ hostLock = None /\ \A c \in Callers : caller[c].step = "off" /\ ~caller[c].again
    BY DEF Quiet, Control
  <2>2. ~Owed
    BY <2>1 DEF Owed, Due
  <2>3. lists["users"] = Admins("users") /\ lists["groups"] = Admins("groups")
    BY <2>1, <2>2 DEF Listed, Exact
  <2>4. lists = [l \in {"users", "groups"} |-> lists[l]]
    BY DEF Types
  <2>5. [users |-> Admins("users"), groups |-> Admins("groups")]
        = [l \in {"users", "groups"} |-> IF l = "users" THEN Admins("users") ELSE Admins("groups")]
    OBVIOUS
  <2> QED BY <2>3, <2>4, <2>5
<1> QED BY <1>1, TypesInductive, ControlInit, ControlInductive, ListedInit, ListedInductive, PTL DEF Spec

(***************************************************************************)
(* The files agree with the host's type, if AD is not switched while the   *)
(* hook of the start is under way.                                         *)
(***************************************************************************)

LEMMA NssEdited ==
  ASSUME FilesOfLines, NEW v \in Values, nss' = UpdateKeys(nss, NssKeys, v)
  PROVE  (v = "winbind" => NssOn') /\ (v # "winbind" => NssOff')
<1>1. nss \in Seq(FileLine) /\ NssKeys \in Seq(STRING)
  BY HookAssumption DEF FilesOfLines, HookAssumption
<1>2. \A i \in DOMAIN NssKeys : Effective(UpdateKeys(nss, NssKeys, v), NssKeys[i]) = v
  BY <1>1, UpdateKeysIs
<1>3. \A i \in DOMAIN NssKeys : Effective(nss', NssKeys[i]) = v
  BY <1>2
<1> QED BY <1>3 DEF NssOn, NssOff

LEMMA SshdEdited ==
  ASSUME FilesOfLines, NEW v \in Values, sshd' = UpdateKeys(sshd, SshdKeys, v)
  PROVE  (v = "yes" => SshdOn') /\ (v # "yes" => SshdOff')
<1>1. sshd \in Seq(FileLine) /\ SshdKeys \in Seq(STRING)
  BY HookAssumption DEF FilesOfLines, HookAssumption
<1>2. \A i \in DOMAIN SshdKeys : Effective(UpdateKeys(sshd, SshdKeys, v), SshdKeys[i]) = v
  BY <1>1, UpdateKeysIs
<1>3. \A i \in DOMAIN SshdKeys : Effective(sshd', SshdKeys[i]) = v
  BY <1>2
<1> QED BY <1>3 DEF SshdOn, SshdOff

\* A step that leaves the files leaves what they say.
LEMMA FilesStay ==
  /\ nss' = nss => NssOn' = NssOn /\ NssOff' = NssOff
  /\ sshd' = sshd => SshdOn' = SshdOn /\ SshdOff' = SshdOff
  /\ UNCHANGED <<nss, sshd, pam>> => AllOff' = AllOff
  /\ UNCHANGED <<nss, sshd, pam, lists>> => AllOn' = AllOn
BY DEF NssOn, NssOff, SshdOn, SshdOff, AllOn, AllOff

LEMMA FiledInit == Init => Filed
<1> SUFFICES ASSUME Init PROVE Filed
  OBVIOUS
<1>0. /\ NssFile \in Seq(FileLine) /\ SshdFile \in Seq(FileLine)
      /\ NssKeys \in Seq(STRING) /\ SshdKeys \in Seq(STRING)
      /\ "winbind" \in Values /\ "yes" \in Values
  <2>1. Line \subseteq FileLine
    BY DEF Line, FileLine, Values
  <2>2. NssFile \in Seq(Line) /\ SshdFile \in Seq(Line)
    BY HookAssumption DEF HookAssumption
  <2>3. NssFile \in Seq(FileLine) /\ SshdFile \in Seq(FileLine)
    BY <2>1, <2>2
  <2> QED BY <2>3, HookAssumption DEF HookAssumption, Values
<1>1. caller["init"].step = "off" /\ caller["switch"].step = "off" /\ run = NoRun
  BY DEF Init, Off, Callers
<1>2. CASE authType = ""
  <2>1. nss = NssFile /\ sshd = SshdFile /\ pam = "local"
    BY <1>2 DEF Init
  <2>2. AllOff
    BY <2>1, HookAssumption DEF AllOff, NssOff, SshdOff, HookAssumption
  <2> QED BY <1>1, <1>2, <2>2 DEF Filed, StartApart, InCall
<1>3. CASE authType = "AD"
  <2>1. /\ nss = UpdateKeys(NssFile, NssKeys, "winbind")
        /\ sshd = UpdateKeys(SshdFile, SshdKeys, "yes") /\ pam = "ad"
        /\ lists = [users |-> Admins("users"), groups |-> Admins("groups")]
    BY <1>3 DEF Init
  <2>2. \A i \in DOMAIN NssKeys : Effective(UpdateKeys(NssFile, NssKeys, "winbind"), NssKeys[i]) = "winbind"
    BY <1>0, UpdateKeysIs
  <2>3. \A i \in DOMAIN SshdKeys : Effective(UpdateKeys(SshdFile, SshdKeys, "yes"), SshdKeys[i]) = "yes"
    BY <1>0, UpdateKeysIs
  <2>4. lists["users"] # NoFile /\ lists["groups"] # NoFile
    <3>1. "no file" \notin Admins("users") /\ "no file" \notin Admins("groups")
      BY HookAssumption DEF Admins, HookAssumption
    <3> QED BY <2>1, <3>1 DEF NoFile
  <2>5. AllOn
    BY <2>1, <2>2, <2>3, <2>4 DEF AllOn, NssOn, SshdOn
  <2> QED BY <1>1, <1>3, <2>5 DEF Filed, StartApart, InCall
<1> QED BY <1>2, <1>3 DEF Init

LEMMA FiledOutside ==
  ASSUME ~SwitchAnyTime PROVE Types /\ Control /\ Filed /\ Outside => Filed'
<1> SUFFICES ASSUME Types, Control, Filed, Outside PROVE Filed'
  OBVIOUS
<1>0. /\ "init" \in Callers /\ "switch" \in Callers /\ None \notin Callers
      /\ \A e \in Events : e # "init" /\ e # "switch"
  BY DEF Events, Callers, None
<1>1. /\ StartApart
      /\ authType = "" /\ ok.all => AllOff
      /\ (authType = "AD" /\ up /\ caller["init"].step = "off" /\ caller["switch"].step = "off" /\ ok.all)
            => AllOn
      /\ caller["switch"].step = "cleared" => ok.all /\ AllOff
      /\ run # NoRun /\ run.all => DoneByRun
  BY DEF Filed
<1>2. CASE AnyTurn
  <2>1. PICK c \in Callers, step \in Steps, arg \in Args, again \in BOOLEAN : Turn(c, step, arg, again)
    BY <1>2 DEF AnyTurn
  <2>2. UNCHANGED <<up, authType, run, nss, sshd, pam, lists, ok>>
    BY <2>1 DEF Turn
  <2>3. /\ caller'[c].step = step /\ caller'[c].arg = arg
        /\ \A d \in Callers : d # c => caller'[d] = caller[d]
    BY <2>1, MovesTo DEF Turn
  <2>4. c # "switch"
    <3>1. caller["switch"].step \in {"off", "enable", "disable", "cleared"}
      BY <1>0 DEF Types, StepsOf
    <3>2. caller[c].step \in {"loop", "pool", "check", "params", "test", "host"}
      BY <2>1 DEF Turn
    <3> QED BY <3>1, <3>2
  <2>5. AllOn' = AllOn /\ AllOff' = AllOff /\ (run # NoRun => DoneByRun' = DoneByRun)
    BY <2>2, FilesStay DEF DoneByRun
  <2>6. caller'["switch"] = caller["switch"]
    BY <1>0, <2>3, <2>4
  <2>7. CASE c # "init"
    <3>1. caller'["init"] = caller["init"]
      BY <1>0, <2>3, <2>7
    <3> QED BY <1>1, <2>2, <2>5, <2>6, <3>1 DEF Filed, StartApart
  <2>8. CASE c = "init"
    <3>1. CASE caller[c].step = "check"
      <4>1. (authType = "AD" /\ step = "params") \/ (authType = "" /\ step = "off")
        BY <2>1, <3>1 DEF Turn, Types, Args
      <4>2. StartApart'
        BY <1>1, <2>2, <2>3, <2>6, <2>8, <3>1, <4>1 DEF StartApart, InCall
      <4> QED BY <1>1, <2>2, <2>3, <2>5, <2>6, <2>8, <4>1, <4>2 DEF Filed
    <3>2. CASE caller[c].step \in {"params", "test", "host"}
      <4>1. authType = "AD" /\ caller["switch"].step = "off"
            /\ (caller[c].step \in {"test", "host"} => caller[c].arg = "AD")
        BY <1>1, <2>8, <3>2 DEF StartApart, InCall
      <4>2. up
        BY <2>8, <3>2 DEF Control, Types
      <4>3. step \in {"test", "host"} /\ arg = "AD"
        BY <2>1, <2>8, <3>2, <4>1, <4>2 DEF Turn
      <4>4. StartApart'
        BY <2>2, <2>3, <2>6, <2>8, <4>1, <4>3 DEF StartApart
      <4> QED BY <1>1, <2>2, <2>3, <2>5, <2>6, <2>8, <4>3, <4>4 DEF Filed
    <3> QED BY <2>1, <2>8, <3>1, <3>2 DEF Turn, Events
  <2> QED BY <2>7, <2>8
<1>3. ASSUME NEW c \in Callers, Begins(c) PROVE Filed'
  <2>1. /\ UNCHANGED <<up, authType, nss, sshd, pam, lists, ok>> /\ c # "switch" /\ caller[c].step = "host"
        /\ run'.step = (IF c = "init" THEN "nss" ELSE "users") /\ run'.all = (c = "init")
    BY <1>3 DEF Begins, NewRun
  <2>2. caller'[c].step = "run" /\ \A d \in Callers : d # c => caller'[d] = caller[d]
    BY <1>3, MovesTo DEF Begins
  <2>3. AllOn' = AllOn /\ AllOff' = AllOff
    BY <2>1, FilesStay
  <2>4. caller'["switch"] = caller["switch"]
    BY <1>0, <2>1, <2>2
  <2>5. run'.all => DoneByRun'
    BY <2>1 DEF DoneByRun
  <2>6. CASE c = "init"
    <3>1. authType = "AD" /\ caller["switch"].step = "off"
      BY <1>1, <2>1, <2>6 DEF StartApart, InCall
    <3>2. StartApart'
      BY <2>1, <2>2, <2>4, <2>6, <3>1 DEF StartApart
    <3> QED BY <1>1, <2>1, <2>2, <2>3, <2>4, <2>5, <2>6, <3>2 DEF Filed
  <2>7. CASE c # "init"
    <3>1. caller'["init"] = caller["init"]
      BY <1>0, <2>2, <2>7
    <3> QED BY <1>1, <2>1, <2>3, <2>4, <2>5, <3>1 DEF Filed, StartApart
  <2> QED BY <2>6, <2>7
<1>4. ASSUME NEW e \in Events, NEW s \in Subjects, Changes(s, e) PROVE Filed'
  <2>1. UNCHANGED <<up, authType, run, nss, sshd, pam, lists, ok>>
    BY <1>4 DEF Changes
  <2>2. \A d \in Callers : d # e => caller'[d] = caller[d]
    BY <1>4 DEF Changes, Moves
  <2>3. caller'["init"] = caller["init"] /\ caller'["switch"] = caller["switch"]
    BY <1>0, <2>2
  <2>4. AllOn' = AllOn /\ AllOff' = AllOff /\ (run # NoRun => DoneByRun' = DoneByRun)
    BY <2>1, FilesStay DEF DoneByRun
  <2> QED BY <1>1, <2>1, <2>3, <2>4 DEF Filed, StartApart
<1>5. ASSUME NEW enabled \in BOOLEAN, Switches(enabled) PROVE Filed'
  <2>1. caller["init"].step = "off" /\ authType' = "AD" /\ run'.step = "nss"
    BY <1>5 DEF Switches, NewRun
  <2>2. /\ caller'["switch"].step = (IF enabled THEN "enable" ELSE "disable")
        /\ caller'["init"] = caller["init"]
    <3>1. Moves("switch", IF enabled THEN "enable" ELSE "disable", caller["switch"].arg, caller["switch"].again)
      BY <1>5 DEF Switches
    <3> QED BY <1>0, <3>1, MovesTo
  <2>3. DoneByRun' /\ StartApart'
    BY <2>1, <2>2 DEF DoneByRun, StartApart, InCall
  <2> QED BY <2>1, <2>2, <2>3 DEF Filed
<1>6. CASE Clears
  <2>1. caller["switch"].step = "cleared" /\ authType' = "" /\ UNCHANGED <<run, nss, sshd, pam, lists, ok>>
    BY <1>6 DEF Clears
  <2>2. caller'["switch"].step = "off" /\ caller'["init"] = caller["init"]
    <3>1. Moves("switch", "off", caller["switch"].arg, caller["switch"].again)
      BY <1>6 DEF Clears
    <3> QED BY <1>0, <3>1, MovesTo
  <2>3. caller["init"].step = "off" /\ AllOff
    BY <1>1, <2>1 DEF StartApart
  <2>4. AllOff' /\ run' = NoRun
    <3>1. AllOff'
      BY <2>1, <2>3, FilesStay
    <3>2. hostLock = "switch" /\ Holder("switch")
      BY <1>0, <2>1 DEF Control
    <3>3. run = NoRun
      BY <2>1, <3>2 DEF Holder
    <3> QED BY <2>1, <3>1, <3>3
  <2>5. StartApart'
    BY <2>2, <2>3 DEF StartApart, InCall
  <2> QED BY <1>1, <2>1, <2>2, <2>3, <2>4, <2>5 DEF Filed
<1>7. CASE Starts
  <2>1. ~up /\ UNCHANGED <<authType, run, nss, sshd, pam, lists, ok>>
    BY <1>7 DEF Starts
  <2>2. caller'["init"].step = "check" /\ caller'["switch"] = caller["switch"]
    BY <1>0, <1>7, MovesTo DEF Starts
  <2>3. hostLock = None /\ caller["switch"].step \in {"off", "enable", "disable", "cleared"}
    BY <1>0, <2>1 DEF Control, Types, StepsOf
  <2>4. caller["switch"].step = "off"
    BY <1>0, <2>3 DEF Control
  <2>5. AllOff' = AllOff /\ (run # NoRun => DoneByRun' = DoneByRun)
    BY <2>1, FilesStay DEF DoneByRun
  <2>6. StartApart'
    BY <2>2, <2>4 DEF StartApart, InCall
  <2> QED BY <1>1, <2>1, <2>2, <2>4, <2>5, <2>6 DEF Filed
<1>8. CASE Crashes
  <2>1. /\ ~up' /\ run' = NoRun /\ UNCHANGED <<authType, nss, sshd, pam, lists, ok>>
        /\ caller'["init"] = Off /\ caller'["switch"] = Off
    BY <1>8 DEF Crashes
  <2>2. Off.step = "off"
    BY DEF Off
  <2>3. AllOff' = AllOff
    BY <2>1, FilesStay
  <2>4. StartApart'
    BY <2>1, <2>2 DEF StartApart, InCall
  <2> QED BY <1>1, <2>1, <2>2, <2>3, <2>4 DEF Filed
<1> QED BY <1>2, <1>3, <1>4, <1>5, <1>6, <1>7, <1>8 DEF Outside

\* Who runs the hook: a full run is for a host that has AD on.
LEMMA WhoRuns ==
  ASSUME Types, Control, StartApart, run \in Runs, run # NoRun
  PROVE  /\ run.all \in BOOLEAN /\ run.enabled \in BOOLEAN
         /\ caller["switch"].step # "cleared"
         /\ run.all => authType = "AD" /\ run.by \in {"init", "switch"}
         /\ run.by = "init" => run.enabled /\ caller["init"].step = "run" /\ run.all
         /\ run.by = "switch" => caller["switch"].step \in {"enable", "disable"} /\ run.all
         /\ ~run.all => run.by \in Events /\ run.enabled
<1>1. hostLock = run.by /\ Holder(run.by) /\ run.by \in Callers
  BY RunBy DEF Control, Runs
<1>2. run.all \in BOOLEAN /\ run.enabled \in BOOLEAN
  BY DEF Runs
<1>3. Callers = Events \cup {"init", "switch"} /\ "switch" \in Callers
  BY DEF Callers
<1>4. CASE run.by = "switch"
  <2>1. /\ authType = "AD" /\ run.all
        /\ caller["switch"].step = (IF run.enabled THEN "enable" ELSE "disable")
    BY <1>1, <1>4 DEF Holder
  <2> QED BY <1>2, <1>4, <2>1
<1>5. CASE run.by # "switch"
  <2>1. caller[run.by].step = "run" /\ run.enabled /\ run.all = (run.by = "init")
    BY <1>1, <1>5 DEF Holder
  <2>2. caller["switch"].step # "cleared"
    BY <1>1, <1>3, <1>5 DEF Control
  <2>3. run.by = "init" => authType = "AD"
    BY <2>1 DEF StartApart, InCall
  <2> QED BY <1>1, <1>2, <1>3, <1>5, <2>1, <2>2, <2>3
<1> QED BY <1>4, <1>5

\* A run that goes on: a full one keeps its account, and one of the lists
\* only leaves the files as they are.
LEMMA FiledContinues ==
  ASSUME Types, Control, Filed, run \in Runs, run # NoRun, Continues,
         run.all => DoneByRun',
         ~run.all => /\ UNCHANGED <<nss, sshd, pam>>
                     /\ lists["users"] # NoFile => lists'["users"] # NoFile
                     /\ lists["groups"] # NoFile => lists'["groups"] # NoFile
  PROVE  Filed'
<1>1. /\ StartApart
      /\ authType = "" /\ ok.all => AllOff
      /\ (authType = "AD" /\ up /\ caller["init"].step = "off" /\ caller["switch"].step = "off" /\ ok.all)
            => AllOn
  BY DEF Filed
<1>2. /\ run.all \in BOOLEAN
      /\ caller["switch"].step # "cleared"
      /\ run.all => authType = "AD" /\ run.by \in {"init", "switch"}
      /\ run.by = "init" => caller["init"].step = "run"
      /\ run.by = "switch" => caller["switch"].step \in {"enable", "disable"}
  BY <1>1, WhoRuns
<1>3. UNCHANGED <<up, authType, caller, ok>> /\ run'.all = run.all
  BY DEF Continues
<1>4. StartApart'
  BY <1>1, <1>3 DEF StartApart
<1>5. CASE run.all
  BY <1>2, <1>3, <1>4, <1>5 DEF Filed
<1>6. CASE ~run.all
  <2>1. AllOff => AllOff'
    BY <1>6, FilesStay
  <2>2. AllOn => AllOn'
    BY <1>6, FilesStay DEF AllOn
  <2> QED BY <1>1, <1>2, <1>3, <1>4, <1>6, <2>1, <2>2 DEF Filed
<1> QED BY <1>2, <1>5, <1>6

\* A run that ends: a full one that succeeds has made the files AD's, or
\* taken AD out of them.
LEMMA FiledEnds ==
  ASSUME Types, Control, Filed, run \in Runs, run # NoRun, UNCHANGED up,
         NEW success \in BOOLEAN, RunEnds(success),
         run.all /\ success => IF run.enabled THEN AllOn' ELSE AllOff',
         ~run.all => /\ success
                     /\ UNCHANGED <<nss, sshd, pam>>
                     /\ lists["users"] # NoFile => lists'["users"] # NoFile
                     /\ lists["groups"] # NoFile => lists'["groups"] # NoFile
  PROVE  Filed'
<1>0. "init" \in Callers /\ "switch" \in Callers /\ \A e \in Events : e # "init" /\ e # "switch"
  BY DEF Callers, Events
<1>1. /\ StartApart
      /\ authType = "" /\ ok.all => AllOff
      /\ (authType = "AD" /\ up /\ caller["init"].step = "off" /\ caller["switch"].step = "off" /\ ok.all)
            => AllOn
  BY DEF Filed
<1>2. /\ run.all \in BOOLEAN /\ run.enabled \in BOOLEAN
      /\ caller["switch"].step # "cleared"
      /\ run.all => authType = "AD" /\ run.by \in {"init", "switch"}
      /\ run.by = "init" => run.enabled /\ caller["init"].step = "run" /\ run.all
      /\ run.by = "switch" => caller["switch"].step \in {"enable", "disable"} /\ run.all
      /\ ~run.all => run.by \in Events /\ run.enabled
  BY <1>1, WhoRuns
<1>3. PICK c \in Callers, step \in {"loop", "off", "cleared"}, arg \in Args :
            /\ c = run.by /\ step \in StepsOf(c) /\ (c \in Events => step = "loop")
            /\ Moves(c, step, arg, caller[c].again)
            /\ step = "cleared" <=> c = "switch" /\ ~run.enabled /\ success
            /\ hostLock' = (IF step = "cleared" THEN hostLock ELSE None)
            /\ authType' = (IF c = "switch" /\ run.enabled /\ ~success THEN "" ELSE authType)
            /\ run' = NoRun
            /\ ok' = [all |-> IF run.all THEN success ELSE ok.all, lists |-> success]
  BY RunEndsMoves
<1>4. caller'[c].step = step /\ \A d \in Callers : d # c => caller'[d] = caller[d]
  BY <1>3, MovesTo
<1>5. ok'.all = IF run.all THEN success ELSE ok.all
  BY <1>3
<1>6. CASE c = "init"
  <2>1. /\ caller'["init"].step = "off" /\ caller'["switch"] = caller["switch"] /\ authType' = authType
        /\ caller["switch"].step = "off" /\ authType = "AD"
    BY <1>0, <1>1, <1>2, <1>3, <1>4, <1>6 DEF StepsOf, InCall, StartApart
  <2>2. StartApart'
    BY <2>1 DEF StartApart, InCall
  <2>3. ok'.all => AllOn'
    BY <1>2, <1>3, <1>5, <1>6
  <2> QED BY <1>3, <2>1, <2>2, <2>3 DEF Filed
<1>7. CASE c = "switch"
  <2>1. /\ caller'["init"] = caller["init"] /\ caller["init"].step = "off"
        /\ caller'["switch"].step = step /\ authType = "AD" /\ run.all
    BY <1>0, <1>1, <1>2, <1>3, <1>4, <1>7 DEF StartApart
  <2>2. StartApart'
    BY <2>1 DEF StartApart, InCall
  <2>3. ok'.all = success
    BY <1>5, <2>1
  <2>4. step = "cleared" => ok'.all /\ AllOff'
    BY <1>2, <1>3, <2>1, <2>3
  <2>5. authType' = "" /\ ok'.all => AllOff'
    BY <1>3, <2>1, <2>3
  <2>6. step = "off" /\ ok'.all => AllOn'
    <3>1. step = "off" /\ success => run.enabled
      BY <1>2, <1>3, <1>7
    <3> QED BY <2>1, <2>3, <3>1
  <2> QED BY <1>3, <2>1, <2>2, <2>4, <2>5, <2>6 DEF Filed
<1>8. CASE c \in Events
  <2>1. ~run.all /\ authType' = authType /\ caller'["init"] = caller["init"] /\ caller'["switch"] = caller["switch"]
    BY <1>0, <1>2, <1>3, <1>4, <1>8
  <2>2. StartApart'
    BY <1>1, <2>1 DEF StartApart
  <2>3. (AllOff => AllOff') /\ (AllOn => AllOn') /\ ok'.all = ok.all
    BY <1>5, <2>1, FilesStay DEF AllOn
  <2> QED BY <1>1, <1>2, <1>3, <2>1, <2>2, <2>3 DEF Filed
<1> QED BY <1>6, <1>7, <1>8 DEF Callers

LEMMA FiledRunStep == Types /\ Control /\ FilesOfLines /\ Filed /\ RunStep => Filed'
<1> SUFFICES ASSUME Types, Control, FilesOfLines, Filed, RunStep PROVE Filed'
  OBVIOUS
<1>0. /\ TRUE \in BOOLEAN /\ FALSE \in BOOLEAN
      /\ {"users", "usersRead", "sshd", "groups", "groupsRead", "pam"} \subseteq RunSteps
      /\ {"winbind", "sss", "yes", "no"} \subseteq Values
  BY DEF RunSteps, Values
<1>1. run \in Runs /\ run # NoRun /\ UNCHANGED <<up, subjects>>
  BY RunStepIs
<1>2. (run.all => DoneByRun) /\ run.enabled \in BOOLEAN /\ run.all \in BOOLEAN /\ (~run.enabled => run.all)
  BY <1>1, WhoRuns DEF Filed
<1>3. CASE ApplyNss
  <2>1. run.all /\ UNCHANGED <<sshd, pam, lists>>
    BY <1>1, <1>3 DEF ApplyNss, Control
  <2>2. Continues /\ run'.step = "sshd" /\ run'.enabled = run.enabled
    BY <1>0, <1>1, <1>3, <2>1, StepsContinue DEF ApplyNss, Continues
  <2>3. IF run.enabled THEN NssOn' ELSE NssOff'
    <3>1. CASE run.enabled
      <4>1. nss' = UpdateKeys(nss, NssKeys, "winbind")
        BY <1>3, <3>1 DEF ApplyNss
      <4> QED BY <1>0, <3>1, <4>1, NssEdited
    <3>2. CASE ~run.enabled
      <4>1. nss' = UpdateKeys(nss, NssKeys, "sss")
        BY <1>3, <3>2 DEF ApplyNss
      <4> QED BY <1>0, <3>2, <4>1, NssEdited
    <3> QED BY <3>1, <3>2
  <2>4. DoneByRun'
    BY <2>2, <2>3 DEF DoneByRun
  <2> QED BY <1>1, <2>1, <2>2, <2>4, FiledContinues
<1>4. CASE ApplySshd
  <2>1. run.all /\ run.step = "sshd" /\ UNCHANGED <<nss, pam, lists>>
    BY <1>1, <1>4 DEF ApplySshd, Control
  <2>2. IF run.enabled THEN SshdOn' ELSE SshdOff'
    <3>1. CASE run.enabled
      <4>1. sshd' = UpdateKeys(sshd, SshdKeys, "yes")
        BY <1>4, <3>1 DEF ApplySshd
      <4> QED BY <1>0, <3>1, <4>1, SshdEdited
    <3>2. CASE ~run.enabled
      <4>1. sshd' = UpdateKeys(sshd, SshdKeys, "no")
        BY <1>4, <3>2 DEF ApplySshd
      <4> QED BY <1>0, <3>2, <4>1, SshdEdited
    <3> QED BY <3>1, <3>2
  <2>3. CASE Step("users")
    <3>1. Continues /\ run'.step = "users" /\ run'.enabled = run.enabled
      BY <1>0, <1>1, <2>3, StepsContinue DEF Continues
    <3>2. DoneByRun'
      BY <1>2, <2>1, <2>2, <3>1, FilesStay DEF DoneByRun
    <3> QED BY <1>1, <2>1, <3>1, <3>2, FiledContinues
  <2>4. CASE RunEnds(FALSE)
    BY <1>0, <1>1, <2>1, <2>4, FiledEnds
  <2> QED BY <1>4, <2>3, <2>4 DEF ApplySshd
<1>5. CASE ApplyStaticPam
  <2>1. /\ run.all /\ run.step = "pam" /\ RunEnds(TRUE) /\ UNCHANGED <<nss, sshd, lists>>
        /\ pam' = IF run.enabled THEN "ad" ELSE "local"
    BY <1>1, <1>5 DEF ApplyStaticPam, Control
  <2>2. IF run.enabled THEN AllOn' ELSE AllOff'
    BY <1>2, <2>1, FilesStay DEF DoneByRun, AllOn, AllOff
  <2> QED BY <1>0, <1>1, <2>1, <2>2, FiledEnds
\* one of the lists is done
<1>6. ASSUME NEW list \in {"users", "groups"}, After(list), UNCHANGED <<nss, sshd, pam>>,
             \A other \in {"users", "groups"} \ {list} : lists'[other] = lists[other],
             run.enabled => lists'[list] # NoFile,
             run.step \in {list, "usersRead", "groupsRead"},
             list = "groups" => run.step \in {"groups", "groupsRead"}
      PROVE  Filed'
  <2>1. ~run.all => /\ UNCHANGED <<nss, sshd, pam>>
                    /\ lists["users"] # NoFile => lists'["users"] # NoFile
                    /\ lists["groups"] # NoFile => lists'["groups"] # NoFile
    BY <1>2, <1>6
  <2>2. CASE list = "users"
    <3>1. Continues /\ run'.step = "groups" /\ run'.enabled = run.enabled
      BY <1>0, <1>1, <1>6, <2>2, StepsContinue DEF After, Continues
    <3>2. run.all => DoneByRun'
      BY <1>2, <1>6, <2>2, <3>1, FilesStay DEF DoneByRun
    <3> QED BY <1>1, <2>1, <3>1, <3>2, FiledContinues
  <2>3. CASE list = "groups" /\ run.all
    <3>1. Continues /\ run'.step = "pam" /\ run'.enabled = run.enabled
      BY <1>0, <1>1, <1>6, <2>3, StepsContinue DEF After, Continues
    <3>2. DoneByRun'
      BY <1>2, <1>6, <2>3, <3>1, FilesStay DEF DoneByRun
    <3> QED BY <1>1, <2>1, <2>3, <3>1, <3>2, FiledContinues
  <2>4. CASE list = "groups" /\ ~run.all
    <3>1. RunEnds(TRUE)
      BY <1>6, <2>4 DEF After
    <3> QED BY <1>0, <1>1, <2>1, <2>4, <3>1, FiledEnds
  <2> QED BY <1>2, <2>2, <2>3, <2>4
<1>7. ASSUME NEW list \in {"users", "groups"}, RemoveList(list) PROVE Filed'
  <2>1. /\ After(list) /\ ~run.enabled /\ UNCHANGED <<nss, sshd, pam>> /\ run.step = list
        /\ lists' = [lists EXCEPT ![list] = NoFile]
    BY <1>7 DEF RemoveList
  <2>2. \A other \in {"users", "groups"} \ {list} : lists'[other] = lists[other]
    BY <2>1 DEF Types
  <2> QED BY <1>6, <2>1, <2>2
<1>8. ASSUME NEW list \in {"users", "groups"}, InstallList(list) PROVE Filed'
  <2>1. /\ After(list) /\ UNCHANGED <<nss, sshd, pam>> /\ lists' = [lists EXCEPT ![list] = run.lines]
        /\ run.step = (IF list = "users" THEN "usersRead" ELSE "groupsRead")
    BY <1>8 DEF InstallList, Reading
  <2>2. DOMAIN lists = {"users", "groups"} /\ run.lines \subseteq Subjects
    BY <1>1 DEF Types, Runs
  <2>3. \A other \in {"users", "groups"} \ {list} : lists'[other] = lists[other]
    BY <2>1, <2>2
  <2>4. lists'[list] # NoFile
    <3>1. "no file" \notin run.lines
      BY <2>2, HookAssumption DEF HookAssumption
    <3> QED BY <2>1, <2>2, <3>1 DEF NoFile
  <2> QED BY <1>6, <2>1, <2>3, <2>4
<1>9. ASSUME NEW list \in {"users", "groups"}, GetAll(list) PROVE Filed'
  <2>1. /\ run.step = list /\ run.enabled
        /\ run' = [run EXCEPT !.step = IF list = "users" THEN "usersRead" ELSE "groupsRead",
                          !.todo = {s \in Subjects : subjects[s] # None}, !.lines = {}]
        /\ UNCHANGED <<up, authType, subjects, caller, hostLock, nss, sshd, pam, lists, ok>>
    BY <1>9 DEF GetAll, locks, files
  <2>2. /\ run' \in Runs /\ run'.by = run.by /\ run'.all = run.all /\ run'.enabled = run.enabled
        /\ run'.step = (IF list = "users" THEN "usersRead" ELSE "groupsRead")
    BY <1>0, <1>1, <2>1 DEF Runs
  <2>3. Continues
    <3>1. run'.step \notin {"nss", "sshd", "pam"}
      BY <2>2
    <3>2. run.enabled /\ UNCHANGED <<up, authType, subjects, caller, hostLock, ok>>
      BY <2>1
    <3>3. run' \in Runs /\ run'.by = run.by /\ run'.all = run.all /\ run'.enabled = run.enabled
      BY <2>2
    <3> QED BY <3>1, <3>2, <3>3 DEF Continues
  <2>4. run.all => DoneByRun'
    BY <1>2, <2>1, <2>2, FilesStay DEF DoneByRun
  <2> QED BY <1>1, <2>1, <2>3, <2>4, FiledContinues
<1>10. ASSUME NEW list \in {"users", "groups"}, NEW s \in Subjects, GetRecord(list, s) PROVE Filed'
  <2>1. /\ run' = IF subjects[s] = None THEN [run EXCEPT !.todo = {}]
                  ELSE [run EXCEPT !.todo = @ \ {s},
                               !.lines = IF subjects[s] = "admin" /\ Responsible(list, s)
                                         THEN @ \cup {s} ELSE @]
        /\ UNCHANGED <<up, authType, subjects, caller, hostLock, nss, sshd, pam, lists, ok>>
    BY <1>10 DEF GetRecord, locks, files
  <2>2. /\ run' \in Runs /\ run'.by = run.by /\ run'.all = run.all /\ run'.enabled = run.enabled
        /\ run'.step = run.step
    <3>1. CASE subjects[s] = None
      BY <1>1, <2>1, <3>1 DEF Runs
    <3>2. CASE subjects[s] # None
      BY <1>1, <2>1, <3>2 DEF Runs
    <3> QED BY <3>1, <3>2
  <2>3. Continues
    BY <1>1, <2>1, <2>2 DEF Continues, Control
  <2>4. run.all => DoneByRun'
    BY <1>2, <2>1, <2>2, FilesStay DEF DoneByRun
  <2> QED BY <1>1, <2>1, <2>3, <2>4, FiledContinues
<1> QED BY <1>3, <1>4, <1>5, <1>7, <1>8, <1>9, <1>10 DEF RunStep

LEMMA FiledInductive ==
  ASSUME ~SwitchAnyTime PROVE Types /\ Control /\ FilesOfLines /\ Filed /\ [Next]_vars => Filed'
<1>1. ASSUME Filed, UNCHANGED vars PROVE Filed'
  <2>1. UNCHANGED <<up, authType, caller, run, nss, sshd, pam, lists, ok>>
    BY <1>1 DEF vars, files
  <2>2. AllOn' = AllOn /\ AllOff' = AllOff /\ DoneByRun' = DoneByRun
    BY <2>1, FilesStay DEF DoneByRun
  <2> QED BY <1>1, <2>1, <2>2 DEF Filed, StartApart
<1> QED BY <1>1, StepIs, FiledRunStep, FiledOutside

\* When nothing is under way and the last full refresh has not failed, the
\* files are AD's exactly on a host that has AD on.  AD must not be switched
\* while the hook of the start is under way: then they may disagree.
THEOREM FilesDoAgree == ASSUME ~SwitchAnyTime PROVE Spec => []FilesAgree
<1>1. Types /\ Control /\ Filed => FilesAgree
  <2> SUFFICES ASSUME Types, Control, Filed, Quiet, ok.all PROVE FilesAgree
    BY DEF FilesAgree
  <2>1. up /\ caller["init"].step = "off" /\ caller["switch"].step = "off"
    BY DEF Quiet, Callers
  <2>2. CASE authType = "AD"
    <3>1. AllOn
      BY <2>1, <2>2 DEF Filed
    <3> QED BY <2>2, <3>1 DEF AllOn, NssOn, SshdOn, FilesAgree
  <2>3. CASE authType # "AD"
    <3>1. authType = ""
      BY <2>3 DEF Types, Args
    <3>2. AllOff
      BY <3>1 DEF Filed
    <3> QED BY <2>3, <3>2 DEF AllOff, NssOff, SshdOff, FilesAgree
  <2> QED BY <2>2, <2>3
<1>2. LinesKept => FilesOfLines
  BY DEF LinesKept
<1> QED BY <1>1, <1>2, LinesKeptInductive, TypesInductive, ControlInit, ControlInductive,
           FiledInit, FiledInductive, PTL DEF Spec
=============================================================================
