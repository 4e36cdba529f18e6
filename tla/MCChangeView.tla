---------------------------- MODULE MCChangeView ----------------------------
(* ChangeView for TLC: int64 is a signed byte, FILETIMEs count from 37 in  *)
(* units of 4, and a descriptor has up to three entries.                   *)
EXTENDS ChangeView, TLC

CONSTANTS s1, s2, s3, none, b1, b2, b3, b4, b5, w1, w2, m1, m2, u1, u2

MCMinInt == -128

MCWellFormed == [c \in Converters |-> IF c = "sid" THEN {b1, b2, b5} ELSE {b1, b2}]

\* b5 is the SID b1 and more bytes
MCSidOf == [s \in Strings |-> IF s = b5 THEN b1 ELSE s]

Attribute(name, syntax, single) == [name |-> name, syntax |-> syntax, single |-> single]

text == Attribute("description", <<"2.5.5.12", "64">>, TRUE)
links == Attribute("member", <<"2.5.5.1", "127">>, FALSE)
date == Attribute("pwdLastSet", <<"2.5.5.16", "65">>, TRUE)
sid == Attribute("objectSid", <<"2.5.5.17", "4">>, TRUE)
oldSids == Attribute("sIDHistory", <<"2.5.5.17", "4">>, FALSE)
blobs == Attribute("userCertificate", <<"2.5.5.10", "4">>, FALSE)
descriptor == Attribute("nTSecurityDescriptor", <<"2.5.5.15", "66">>, TRUE)

MCAttributes == {text, links, date, sid, oldSids, blobs, descriptor}

Ones(S) == {<<v>> : v \in S}
Several(S) == {s \in UNION {[1 .. n -> S] : n \in 0 .. 3} :
                  \A i, j \in DOMAIN s : i # j => s[i] # s[j]}

MCLists ==
    text :> ({<< >>} \cup Ones({s1, s2, none})) @@
    links :> Several({s1, s2, s3}) @@
    date :> ({<< >>} \cup Ones({Empty, -128, -1, 0, 5, 6, 30, 37, 38, 39, 68, 69, 127})) @@
    sid :> Ones({b1, b2, b3, b5}) @@
    oldSids :> Several({s1, b1}) @@
    blobs :> Several({s1, b1, b2}) @@
    descriptor :> ({<< >>} \cup Ones({s1, b1, b2, b3, b4}))

Ace(who, mask) == [who |-> who, mask |-> mask]

MCDescriptors ==
    {[owner |-> u1, dacl |-> 0 :> Ace(w1, m1) @@ 1 :> Ace(w2, m1)],
     [owner |-> u1, dacl |-> 0 :> Ace(w2, m1) @@ 1 :> Ace(w1, m2) @@ 2 :> Ace(w1, m1)],
     [owner |-> u2, dacl |-> 0 :> Ace(w1, m2) @@ 1 :> Ace(w2, m1)]}

MCParse ==
    [s \in Strings |->
        CASE s = b1 -> [owner |-> u1, dacl |-> 0 :> Ace(w1, m1) @@ 1 :> Ace(w2, m1)]
          [] s = b2 -> [owner |-> u1,
                        dacl |-> 0 :> Ace(w2, m1) @@ 1 :> Ace(w1, m2) @@ 2 :> Ace(w1, m1)]
          [] s = b3 -> [owner |-> u2, dacl |-> 0 :> Ace(w1, m2) @@ 1 :> Ace(w2, m1)]
          [] OTHER -> Garbage]
=============================================================================
