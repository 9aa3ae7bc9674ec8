---------------------------- MODULE MCDecisions -----------------------------
(***************************************************************************)
(* Inputs of Decisions for TLC: every dump of up to five lines, every pin  *)
(* of up to four characters (with digests of two), every set of three      *)
(* serials, and build-tools directories whose names are in the order of    *)
(* the versions, and not: by a number with one digit less in the first     *)
(* place or in the last, by a release candidate.                           *)
(***************************************************************************)
EXTENDS Decisions

Upto(S, n) == UNION {[1..k -> S] : k \in 0..n}

Lines ==
    [kind : {"header"}, value : {1, 2}] \cup [kind : {"code"}, value : {0, 1, 2}] \cup
    [kind : {"name"}, value : {0, 1}] \cup [kind : {"empty", "junk", "long"}, value : {0}]

Chars == {"a", "A", "b", ":", " ", "x"}
HexDigests == {<< >>} \cup [1..2 -> {"a", "A", "b"}]

DumpsOfFive == Upto(Lines, 5)
PinsOfFour == Upto(Chars, 4)

ThreeSerials == Upto({5}, 3) \ {<< >>}
AllListings == SUBSET [serial : ThreeSerials, state : {"device", "offline"}]

(* The characters of a name: digits, "." and "-rc". *)
Dot == <<46>>
Rc(n) == <<45, 114, 99, 48 + n>>
Text10(n) == IF n < 10 THEN <<48 + n>> ELSE <<48 + (n \div 10), 48 + (n % 10)>>
Digits(n) == Len(Text10(n))

Release(a, b, c) ==
    [name |-> Text10(a) \o Dot \o Text10(b) \o Dot \o Text10(c),
     numbers |-> <<a, b, c>>, digits |-> <<Digits(a), Digits(b), Digits(c)>>,
     rc |-> FALSE, exe |-> TRUE]

Candidate(a, b, c, n) ==
    [Release(a, b, c) EXCEPT !.name = @ \o Rc(n), !.rc = TRUE]

Names == {Release(9, 0, 0), Release(34, 0, 9), Release(34, 0, 10),
          Release(35, 0, 0), Candidate(35, 0, 0, 4)}
Tools == {[n EXCEPT !.exe = b] : n \in Names, b \in BOOLEAN}
BuildTools == {r \in SUBSET Tools : \A v, w \in r : v.name = w.name => v = w}

SinkResults == Upto(BOOLEAN, 3)
=============================================================================
