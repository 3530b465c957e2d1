-------------------------------- MODULE MCUsb --------------------------------
EXTENDS UsbReset, TLC

PortSymmetry == Permutations(Ports)

(* A device with two interfaces, one of which a rule may deny; a device    *)
(* with a hub among its interfaces; a hub.                                 *)
ModelsValue == {[vid |-> 1, class |-> 0, ifs |-> <<3, 8>>],
                [vid |-> 2, class |-> 0, ifs |-> <<8>>],
                [vid |-> 2, class |-> 0, ifs |-> <<8, 9>>],
                [vid |-> 2, class |-> 9, ifs |-> <<9>>]}

Rule(action, pairs) == [shape |-> "rule", action |-> action, pairs |-> pairs]
Line(shape) == [shape |-> shape, action |-> "other", pairs |-> <<>>]
Pair(key, value, digits) == [key |-> key, value |-> value, digits |-> digits]

(* Files in which a device is denied by its second interface, allowed by a *)
(* rule before the one that denies it, matched by no rule, and files that  *)
(* do not parse.                                                           *)
PolicyFilesValue == {
    <<Line("comment"), Rule("deny", <<Pair("class", 8, 2)>>), Rule("allow", <<>>)>>,
    <<Rule("allow", <<Pair("vid", 1, 4), Pair("class", 8, 2)>>),
      Rule("deny", <<Pair("class", 8, 2)>>), Line("blank"), Rule("allow", <<>>)>>,
    <<Rule("allow", <<Pair("vid", 2, 4)>>)>>,
    <<Rule("allow", <<>>), Line("indentedComment")>>,
    <<Rule("allow", <<Pair("vid", 1, 4), Pair("vid", 2, 4)>>)>>}
=============================================================================
