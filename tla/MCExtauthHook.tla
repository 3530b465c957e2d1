---------------------------- MODULE MCExtauthHook ----------------------------
EXTENDS ExtauthHook

CONSTANTS u, g

KindOfValue == [s \in {u, g} |-> IF s = u THEN "user" ELSE "group"]

(* One key is there, and repeated; the other is not there yet. *)
NssFileValue ==
    <<OtherLine("comment"), PairLine("passwd", "sss"), PairLine("hosts", "dns"),
      PairLine("passwd", "ldap"), OtherLine("blank")>>
SshdFileValue == <<OtherLine("raw"), PairLine("GSSAPIAuthentication", "no")>>
NssKeysValue == <<"passwd", "group">>
SshdKeysValue == <<"GSSAPIAuthentication">>
=============================================================================
