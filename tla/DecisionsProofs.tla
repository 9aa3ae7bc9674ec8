-------------------------- MODULE DecisionsProofs ---------------------------
(***************************************************************************)
(* Proofs about Decisions.  The scan of a dump and the calls of a Fanout   *)
(* are loops; what they compute is proved by induction on the lines, or    *)
(* the sinks, behind: the induction of the naturals is taken from the      *)
(* well-foundedness of their order (Count).                                *)
(***************************************************************************)
EXTENDS Decisions, FiniteSetTheorems, SequenceTheorems, WellFoundedInduction, TLAPS

(* A nonempty set of naturals has a least element. *)
LEMMA Least ==
    ASSUME NEW D \in SUBSET Nat, D # {}
    PROVE  \E x \in D : \A y \in D : x <= y
<1> DEFINE R == OpToRel(<, Nat)
<1>1. IsWellFoundedOn(R, Nat)
  BY NatLessThanWellFounded
<1>2. \A x, y \in Nat : y < x => <<y, x>> \in R
  BY DEF OpToRel
<1> HIDE DEF R
<1>3. PICK x \in D : \A y \in D : ~(<<y, x>> \in R)
  BY <1>1, WFMin
<1>4. \A y \in D : y \in Nat /\ ~(y < x)
  BY <1>2, <1>3
<1> QED
  BY <1>4

(* Induction over 0..n, for membership in a set. *)
LEMMA Count ==
    ASSUME NEW n \in Nat, NEW T, 0 \in T, \A i \in 1..n : i - 1 \in T => i \in T
    PROVE  0..n \subseteq T
<1> DEFINE D == (0..n) \ T
<1> SUFFICES ASSUME D # {}
             PROVE  FALSE
    OBVIOUS
<1>1. PICK x \in D : \A y \in D : x <= y
  <2>1. D \in SUBSET Nat
    OBVIOUS
  <2> HIDE DEF D
  <2> QED
    BY <2>1, Least
<1>2. x - 1 \in D
  OBVIOUS
<1> QED
  BY <1>1, <1>2

(***************************************************************************)
(* A loop over a sequence, whose body is the function step, has a state    *)
(* after every element: the recursive definition defines a function.       *)
(***************************************************************************)
Steps(step, S, E) == \A s \in S, e \in E : step[<<s, e>>] \in S

LEMMA Loop ==
    ASSUME NEW S, NEW E, NEW step, Steps(step, S, E), NEW s0 \in S, NEW q \in Seq(E)
    PROVE  \E f : /\ f \in [0..Len(q) -> S]
                 /\ f[0] = s0
                 /\ \A i \in 1..Len(q) : f[i] = step[<<f[i - 1], q[i]>>]
<1> DEFINE Upto(f, n) ==
               /\ f \in [0..n -> S]
               /\ f[0] = s0 /\ \A i \in 1..n : f[i] = step[<<f[i - 1], q[i]>>]
           T == {n \in 0..Len(q) : \E f : Upto(f, n)}
<1>1. Len(q) \in Nat /\ \A i \in 1..Len(q) : q[i] \in E
  OBVIOUS
<1>2. 0 \in T
  <2> DEFINE g == [i \in {0} |-> s0]
  <2>1. Upto(g, 0)
    OBVIOUS
  <2>2. 0 \in 0..Len(q)
    BY <1>1
  <2> HIDE DEF g
  <2> QED
    BY <2>1, <2>2
<1>3. ASSUME NEW n \in 1..Len(q), n - 1 \in T
      PROVE  n \in T
  <2>1. PICK f : Upto(f, n - 1)
    BY <1>3
  <2> DEFINE g == [i \in 0..n |-> IF i = n THEN step[<<f[n - 1], q[n]>>] ELSE f[i]]
  <2>2. step[<<f[n - 1], q[n]>>] \in S
    BY <1>1, <2>1 DEF Steps
  <2>3. g \in [0..n -> S] /\ g[0] = s0
    BY <1>1, <2>1, <2>2
  <2>4. ASSUME NEW i \in 1..n
        PROVE  g[i] = step[<<g[i - 1], q[i]>>]
    <3>1. i - 1 \in 0..n /\ i - 1 # n /\ g[i - 1] = f[i - 1]
      BY <1>1
    <3>2. CASE i = n
      BY <1>1, <3>1, <3>2
    <3>3. CASE i # n
      <4>1. i \in 1..(n - 1) /\ g[i] = f[i]
        BY <1>1, <3>3
      <4> HIDE DEF g
      <4> QED
        BY <2>1, <3>1, <4>1
    <3> QED
      BY <3>2, <3>3
  <2> HIDE DEF g
  <2> QED
    BY <1>1, <2>3, <2>4
<1>4. Len(q) \in T
  <2> HIDE DEF T
  <2>1. 0..Len(q) \subseteq T
    BY <1>1, <1>2, <1>3, Count
  <2> QED
    BY <1>1, <2>1
<1>5. PICK f : Upto(f, Len(q))
  BY <1>4
<1> QED
  BY <1>1, <1>5

-----------------------------------------------------------------------------
(* The scan of a dump *)

States == [inPkg : BOOLEAN, code : Nat, name : Nat,
           end : {"no", "found", "cut", "error", "panic"}]

Scans(pkg, dump, f) ==
    /\ f \in [0..Len(dump) -> States]
    /\ f[0] = Scanning
    /\ \A i \in 1..Len(dump) : f[i] = ScanLine(pkg, f[i - 1], dump[i])
    /\ Scan(pkg, dump) = f[Len(dump)]

LEMMA ScanLineType ==
    ASSUME NEW pkg, NEW st \in States, NEW line \in Line
    PROVE  ScanLine(pkg, st, line) \in States
<1>1. ASSUME NEW t \in States
      PROVE  Found(t) \in States
  BY DEF Found, States
<1>2. /\ line.kind \in {"header", "code", "name", "junk", "empty", "long"}
      /\ line.value \in Nat
  BY DEF Line
<1>3. /\ [st EXCEPT !.code = line.value] \in States
      /\ [st EXCEPT !.name = line.value] \in States
      /\ \A e \in {"cut", "error", "panic"} : [st EXCEPT !.end = e] \in States
      /\ [st EXCEPT !.inPkg = @ \/ line.value = pkg] \in States
  BY <1>2 DEF States
<1> HIDE DEF States
<1> QED
  BY <1>1, <1>2, <1>3 DEF ScanLine

(* Scan is the state after the last line of a loop over the lines. *)
LEMMA ScanLoop ==
    ASSUME NEW pkg, NEW dump \in Seq(Line)
    PROVE  \E f : Scans(pkg, dump, f)
<1> DEFINE step == [x \in States \X Line |-> ScanLine(pkg, x[1], x[2])]
           loop(f) == [i \in 0..Len(dump) |->
                         IF i = 0 THEN Scanning ELSE ScanLine(pkg, f[i - 1], dump[i])]
           after == CHOOSE f : f = loop(f)
<1>1. Scanning \in States
  BY DEF Scanning, States
<1>2. Steps(step, States, Line)
  BY ScanLineType DEF Steps
<1>3. Len(dump) \in Nat /\ \A i \in 1..Len(dump) : dump[i] \in Line
  OBVIOUS
<1>4. PICK f : /\ f \in [0..Len(dump) -> States]
               /\ f[0] = Scanning
               /\ \A i \in 1..Len(dump) : f[i] = step[<<f[i - 1], dump[i]>>]
  <2> HIDE DEF step
  <2> QED
    BY <1>1, <1>2, Loop
<1>5. \A i \in 1..Len(dump) : step[<<f[i - 1], dump[i]>>] = ScanLine(pkg, f[i - 1], dump[i])
  BY <1>3, <1>4
<1>6. f = loop(f)
  <2> HIDE DEF step
  <2> QED
    BY <1>3, <1>4, <1>5
<1>7. after = loop(after)
  BY <1>6
<1> HIDE DEF step
<1>8. /\ DOMAIN after = 0..Len(dump) /\ after[0] = Scanning
      /\ \A i \in 1..Len(dump) : after[i] = ScanLine(pkg, after[i - 1], dump[i])
  <2> HIDE DEF after
  <2> QED
    BY <1>3, <1>7
<1>9. after = [i \in 0..Len(dump) |-> after[i]]
  <2> HIDE DEF after
  <2> QED
    BY <1>3, <1>7
<1>10. \A i \in 0..Len(dump) : after[i] \in States
  <2> HIDE DEF after
  <2> DEFINE T == {i \in 0..Len(dump) : after[i] \in States}
  <2>1. 0 \in T
    BY <1>1, <1>3, <1>8
  <2>2. ASSUME NEW i \in 1..Len(dump), i - 1 \in T
        PROVE  i \in T
    BY <1>3, <1>8, <2>2, ScanLineType
  <2> HIDE DEF T
  <2>3. 0..Len(dump) \subseteq T
    BY <1>3, <2>1, <2>2, Count
  <2> QED
    BY <2>3 DEF T
<1>11. Scan(pkg, dump) = after[Len(dump)]
  BY DEF Scan
<1> HIDE DEF after
<1> QED
  BY <1>8, <1>9, <1>10, <1>11 DEF Scans

(* What is before the section of the package leaves no trace. *)
LEMMA ScanBefore ==
    ASSUME NEW pkg, NEW dump \in Seq(Line), NEW f, Scans(pkg, dump, f),
           NEW m \in 0..Len(dump),
           \A i \in 1..m : i \notin HeaderOf(dump, pkg)
    PROVE  /\ ~f[m].inPkg /\ f[m].code = 0 /\ f[m].name = 0
           /\ f[m].end \in {"no", "cut"}
           /\ (\A i \in 1..m : dump[i].kind # "long") => f[m].end = "no"
<1> DEFINE Clear(st) == ~st.inPkg /\ st.code = 0 /\ st.name = 0 /\ st.end \in {"no", "cut"}
           Good(i) == (\A j \in 1..i : dump[j].kind # "long") => f[i].end = "no"
           T == {i \in 0..m : Clear(f[i]) /\ Good(i)}
<1>1. /\ Len(dump) \in Nat /\ DOMAIN dump = 1..Len(dump) /\ m \in Nat
      /\ \A i \in 1..m : dump[i] \in Line /\ i \in DOMAIN dump
  OBVIOUS
<1>2. 0 \in T
  BY <1>1 DEF Scans, Scanning
<1>3. ASSUME NEW i \in 1..m, i - 1 \in T
      PROVE  i \in T
  <2> DEFINE st == f[i - 1]
             line == dump[i]
  <2>1. f[i] = ScanLine(pkg, st, line)
    BY <1>1 DEF Scans
  <2>2. st \in States
    BY <1>1 DEF Scans
  <2>3. line.kind = "header" => line.value # pkg
    BY <1>1 DEF HeaderOf, Line
  <2>4. line.kind \in {"header", "code", "name", "junk", "empty", "long"}
    BY <1>1 DEF Line
  <2>5. Clear(st) /\ Good(i - 1)
    BY <1>3
  <2>6. Clear(ScanLine(pkg, st, line))
    <3> HIDE DEF st, line
    <3> QED
      BY <2>2, <2>3, <2>4, <2>5 DEF ScanLine, States
  <2>7. ASSUME \A j \in 1..i : dump[j].kind # "long"
        PROVE  f[i].end = "no"
    <3>1. st.end = "no" /\ line.kind # "long"
      BY <2>5, <2>7
    <3> HIDE DEF st, line
    <3> QED
      BY <2>1, <2>2, <2>3, <2>4, <2>5, <3>1 DEF ScanLine, States
  <2> QED
    BY <2>1, <2>6, <2>7
<1> HIDE DEF T
<1>4. m \in T
  <2>1. 0..m \subseteq T
    BY <1>1, <1>2, <1>3, Count
  <2> QED
    BY <1>1, <2>1
<1>5. Clear(f[m]) /\ Good(m)
  BY <1>4 DEF T
<1> QED
  BY <1>5

(* The section runs from the first header of the package to the next one. *)
LEMMA SectionBounds ==
    ASSUME NEW pkg, NEW dump \in Seq(Line), HeaderOf(dump, pkg) # {}
    PROVE  \E h \in HeaderOf(dump, pkg) :
               /\ h \in 1..Len(dump)
               /\ \A i \in 1..(h - 1) : i \notin HeaderOf(dump, pkg)
               /\ FirstSection(dump, pkg) =
                    {i \in h + 1..Len(dump) : \A j \in h + 1..i : dump[j].kind # "header"}
<1> DEFINE H == HeaderOf(dump, pkg)
           h == CHOOSE i \in H : \A j \in H : i <= j
<1>1. DOMAIN dump = 1..Len(dump) /\ Len(dump) \in Nat
  OBVIOUS
<1>2. H \in SUBSET Nat /\ H \subseteq 1..Len(dump)
  BY <1>1 DEF HeaderOf
<1>3. h \in H /\ \A j \in H : h <= j
  <2>1. \E i \in H : \A j \in H : i <= j
    <3>1. H # {}
      OBVIOUS
    <3> HIDE DEF H
    <3> QED
      BY <1>2, <3>1, Least
  <2> QED
    BY <2>1
<1>4. FirstSection(dump, pkg) =
         {i \in DOMAIN dump : i > h /\ \A j \in (h + 1)..i : dump[j].kind # "header"}
  BY DEF FirstSection
<1> HIDE DEF h, H
<1>5. h \in 1..Len(dump) /\ \A i \in 1..(h - 1) : i \notin H
  BY <1>1, <1>2, <1>3
<1>6. FirstSection(dump, pkg) =
         {i \in h + 1..Len(dump) : \A j \in h + 1..i : dump[j].kind # "header"}
  BY <1>1, <1>4, <1>5
<1> QED
  BY <1>3, <1>5, <1>6 DEF H

(***************************************************************************)
(* The scan ends with the code of the section: it holds what the lines of  *)
(* the section behind it give, and, a code and a name being among them, it *)
(* has both before the next header.                                        *)
(***************************************************************************)
LEMMA ScanFinds ==
    ASSUME NEW pkg, NEW dump \in Seq(Line), NEW f, Scans(pkg, dump, f),
           HeaderOf(dump, pkg) # {},
           \A i \in DOMAIN dump : dump[i].kind \notin {"junk", "empty", "long"},
           NEW c, c # 0, Values(dump, FirstSection(dump, pkg), "code") = {c},
           0 \notin Values(dump, FirstSection(dump, pkg), "name"),
           Values(dump, FirstSection(dump, pkg), "name") # {}
    PROVE  f[Len(dump)].end = "found" /\ f[Len(dump)].code = c
<1> DEFINE n == Len(dump)
           section == FirstSection(dump, pkg)
<1>1. PICK h \in HeaderOf(dump, pkg) :
             /\ h \in 1..n
             /\ \A i \in 1..(h - 1) : i \notin HeaderOf(dump, pkg)
             /\ section = {i \in h + 1..n : \A j \in h + 1..i : dump[j].kind # "header"}
  BY SectionBounds
<1> HIDE DEF section
<1>2. /\ n \in Nat /\ DOMAIN dump = 1..n
      /\ \A i \in 1..n : /\ dump[i] \in Line
                         /\ dump[i].kind \in {"header", "code", "name"}
                         /\ f[i - 1] \in States
                         /\ f[i] = ScanLine(pkg, f[i - 1], dump[i])
  <2>1. n \in Nat /\ DOMAIN dump = 1..n /\ \A i \in 1..n : dump[i] \in Line
    OBVIOUS
  <2>2. \A i \in 1..n : dump[i].kind \in {"header", "code", "name"}
    BY <2>1 DEF Line
  <2>3. \A i \in 1..n : f[i - 1] \in States /\ f[i] = ScanLine(pkg, f[i - 1], dump[i])
    BY <2>1 DEF Scans
  <2> QED
    BY <2>1, <2>2, <2>3
<1>3. /\ \A i \in section : dump[i].kind = "code" => dump[i].value = c
      /\ \A i \in section : dump[i].kind = "name" => dump[i].value # 0
      /\ \E i \in section : dump[i].kind = "code"
      /\ \E i \in section : dump[i].kind = "name"
  BY DEF Values, section
<1>4. f[h] \in States /\ f[h].inPkg /\ f[h].code = 0 /\ f[h].name = 0 /\ f[h].end = "no"
  <2>1. h - 1 \in 0..n /\ \A i \in 1..(h - 1) : dump[i].kind # "long"
    BY <1>1, <1>2
  <2>2. ~f[h - 1].inPkg /\ f[h - 1].code = 0 /\ f[h - 1].name = 0 /\ f[h - 1].end = "no"
    BY <1>1, <2>1, ScanBefore
  <2>3. dump[h].kind = "header" /\ dump[h].value = pkg
    BY DEF HeaderOf
  <2>4. f[h] = [f[h - 1] EXCEPT !.inPkg = @ \/ dump[h].value = pkg]
    BY <1>1, <1>2, <2>2, <2>3 DEF ScanLine
  <2>5. f[h - 1] \in States
    BY <1>1, <1>2
  <2> QED
    BY <2>2, <2>3, <2>4, <2>5 DEF States
<1> DEFINE Seen(st, i) ==
               /\ st.inPkg /\ st.end \in {"no", "found"}
               /\ st.end = "found" => st.code = c
               /\ st.end = "no" =>
                    /\ i # h => i \in section
                    /\ st.code \in {0, c} /\ (st.code = 0 \/ st.name = 0)
                    /\ st.code = 0 => \A j \in h + 1..i : dump[j].kind # "code"
                    /\ st.name = 0 => \A j \in h + 1..i : dump[j].kind # "name"
           T == {k \in 0..n - h : Seen(f[h + k], h + k)}
<1>5. 0 \in T
  BY <1>1, <1>2, <1>4
<1>6. ASSUME NEW k \in 1..n - h, k - 1 \in T
      PROVE  k \in T
  <2> DEFINE i == h + k
  <2>1. i \in h + 1..n /\ i - 1 = h + (k - 1) /\ i - 1 \in h..n /\ i \in 1..n
    BY <1>1, <1>2
  <2>2. Seen(f[i - 1], i - 1)
    BY <1>6, <2>1
  <2> SUFFICES Seen(f[i], i)
    <3> HIDE DEF Seen
    <3> QED
      OBVIOUS
  <2> DEFINE st == f[i - 1]
             line == dump[i]
  <2>3. /\ st \in States /\ f[i] = ScanLine(pkg, st, line) /\ line \in Line
        /\ line.kind \in {"header", "code", "name"}
    BY <1>2, <2>1
  <2> HIDE DEF i, st, line
  <2>4. i \in Nat /\ h \in Nat /\ h < i
    BY <1>1, <1>2, <2>1
  <2>5. CASE st.end = "found"
    <3>1. f[i] = st
      BY <2>3, <2>5 DEF ScanLine
    <3> QED
      BY <2>2, <2>5, <3>1 DEF st
  <2>6. CASE st.end = "no" /\ line.kind = "header"
    <3>1. \A j \in section : j \in h + 1..i - 1
      BY <1>1, <1>2, <2>1, <2>6 DEF line
    <3> QED
      BY <1>3, <2>2, <2>6, <3>1 DEF st
  <2>7. CASE st.end = "no" /\ line.kind # "header"
    <3>1. i \in section
      <4>1. i - 1 # h => i - 1 \in section
        BY <2>2, <2>7 DEF st
      <4>2. \A j \in h + 1..i - 1 : dump[j].kind # "header"
        BY <1>1, <2>4, <4>1
      <4>3. \A j \in h + 1..i : dump[j].kind # "header"
        BY <2>7, <2>4, <4>2 DEF line
      <4> QED
        BY <1>1, <2>1, <4>3
    <3>2. \A j \in h + 1..i : j \in h + 1..i - 1 \/ j = i
      BY <2>4
    <3>3. /\ line.kind = "code" => line.value = c
          /\ line.kind = "name" => line.value # 0
      BY <1>3, <3>1 DEF line
    <3>4. /\ st.inPkg /\ st.code \in {0, c} /\ (st.code = 0 \/ st.name = 0)
          /\ st.code = 0 => \A j \in h + 1..i - 1 : dump[j].kind # "code"
          /\ st.name = 0 => \A j \in h + 1..i - 1 : dump[j].kind # "name"
      BY <2>2, <2>7 DEF st
    <3>5. CASE line.kind = "code"
      <4> DEFINE t == [st EXCEPT !.code = line.value]
      <4>1. /\ f[i] = Found(t) /\ t \in States
            /\ t.inPkg /\ t.code = c /\ t.name = st.name /\ t.end = "no"
        BY <2>3, <2>7, <3>3, <3>4, <3>5 DEF ScanLine, States, Line
      <4> HIDE DEF t
      <4>2. /\ f[i].inPkg /\ f[i].end \in {"no", "found"} /\ f[i].code = c
            /\ f[i].name = st.name
            /\ f[i].end = "found" <=> t.code # 0 /\ t.name # 0
        BY <4>1 DEF Found, States
      <4>3. st.name = 0 => \A j \in h + 1..i : dump[j].kind # "name"
        BY <3>2, <3>4, <3>5 DEF line
      <4> QED
        BY <3>1, <3>4, <4>1, <4>2, <4>3
    <3>6. CASE line.kind = "name"
      <4> DEFINE t == [st EXCEPT !.name = line.value]
      <4>1. /\ f[i] = Found(t) /\ t \in States
            /\ t.inPkg /\ t.code = st.code /\ t.name # 0 /\ t.end = "no"
        BY <2>3, <2>7, <3>3, <3>4, <3>6 DEF ScanLine, States, Line
      <4> HIDE DEF t
      <4>2. /\ f[i].inPkg /\ f[i].end \in {"no", "found"} /\ f[i].code = st.code
            /\ f[i].name # 0
            /\ f[i].end = "found" <=> t.code # 0 /\ t.name # 0
        BY <4>1 DEF Found, States
      <4>3. st.code = 0 => \A j \in h + 1..i : dump[j].kind # "code"
        BY <3>2, <3>4, <3>6 DEF line
      <4> QED
        BY <3>1, <3>4, <4>1, <4>2, <4>3
    <3> QED
      BY <2>3, <2>7, <3>5, <3>6
  <2> QED
    BY <2>2, <2>5, <2>6, <2>7 DEF st
<1> HIDE DEF T
<1>7. n - h \in T
  <2>1. n - h \in Nat
    BY <1>1, <1>2
  <2> HIDE DEF n
  <2>2. 0..n - h \subseteq T
    BY <1>5, <1>6, <2>1, Count
  <2> QED
    BY <2>1, <2>2
<1> HIDE DEF Seen
<1>8. Seen(f[n], n)
  <2>1. h + (n - h) = n
    BY <1>1, <1>2
  <2>2. Seen(f[h + (n - h)], h + (n - h))
    BY <1>7 DEF T
  <2> QED
    BY <2>1, <2>2
<1> USE DEF Seen
<1>9. f[n].end # "no"
  BY <1>1, <1>2, <1>3, <1>8
<1> QED
  BY <1>8, <1>9

-----------------------------------------------------------------------------
(* What was called is an argument of the code, until the call returns.     *)
Asked ==
    /\ call.fn = "parseVersionInfo" => call.dump \in Dumps
    /\ call.fn = "IsConnected" =>
         call.lines \in Listings /\ call.serial \in Serials
    /\ call.fn = "verifyAPKSignature" =>
         call.pin \in Pins /\ {call.found, call.verified} \subseteq BOOLEAN
    /\ call.fn = "findApksigner" =>
         call.home \in Roots /\ call.sdk \in Roots /\ call.onPath \in BOOLEAN
    /\ call.fn = "OnArtifact" => call.sinks \in Outcomes

LEMMA InitAsked == Init => Asked
  BY DEF Init, Asked

LEMMA AskedStep == Asked /\ [Next]_vars => Asked'
<1> SUFFICES ASSUME Asked, [Next]_vars
             PROVE  call' = call
    BY DEF Asked
<1> QED
  BY DEF Next, vars, Result, ParseVersionInfo, IsConnected, VerifyAPKSignature,
         FindApksigner, OnArtifact

(* A call is answered by its own function, and by no other. *)
LEMMA OwnAnswer ==
    ASSUME [Next]_vars
    PROVE  /\ call' = call
           /\ \/ answer' = answer
              \/ /\ call.fn = "parseVersionInfo" => ParseVersionInfo
                 /\ call.fn = "IsConnected" => IsConnected
                 /\ call.fn = "verifyAPKSignature" => VerifyAPKSignature
                 /\ call.fn = "findApksigner" => FindApksigner
                 /\ call.fn = "OnArtifact" => OnArtifact
<1>1. CASE UNCHANGED vars
  BY <1>1 DEF vars
<1>2. CASE Next
  <2>1. call' = call
    BY <1>2 DEF Next, Result, ParseVersionInfo, IsConnected, VerifyAPKSignature,
                FindApksigner, OnArtifact
  <2>2. /\ ParseVersionInfo => call.fn = "parseVersionInfo"
        /\ IsConnected => call.fn = "IsConnected"
        /\ VerifyAPKSignature => call.fn = "verifyAPKSignature"
        /\ FindApksigner => call.fn = "findApksigner"
        /\ OnArtifact => call.fn = "OnArtifact"
    BY DEF Calls, ParseVersionInfo, IsConnected, VerifyAPKSignature,
           FindApksigner, OnArtifact
  <2> QED
    BY <1>2, <2>1, <2>2 DEF Next
<1> QED
  BY <1>1, <1>2

-----------------------------------------------------------------------------
(***************************************************************************)
(* Whatever the lines of a dump, and however many sections come before and *)
(* after: the version of the first section of the package is the answer.   *)
(***************************************************************************)
THEOREM VersionFound == Spec => []VersionOfPackage
<1>1. Init => VersionOfPackage
  BY DEF Init, VersionOfPackage, Answered
<1>2. Asked /\ VersionOfPackage /\ [Next]_vars => VersionOfPackage'
  <2> SUFFICES ASSUME Asked, VersionOfPackage, [Next]_vars
               PROVE  VersionOfPackage'
      OBVIOUS
  <2>1. CASE answer' = answer \/ call.fn # "parseVersionInfo"
    BY <2>1, OwnAnswer DEF VersionOfPackage, Answered, Answer
  <2>2. CASE answer' # answer /\ call.fn = "parseVersionInfo"
    <3> DEFINE pkg == call.pkg
               dump == call.dump
               st == Scan(pkg, dump)
               section == FirstSection(dump, pkg)
    <3>1. /\ call' = call
          /\ answer' = <<[error |-> CASE st.end \in {"panic", "error"} -> st.end
                                      [] OTHER -> IF st.code = 0 THEN "not installed"
                                                  ELSE "",
                          code |-> st.code]>>
      BY <2>2, OwnAnswer DEF ParseVersionInfo, Result
    <3>2. dump \in Seq(Line)
      BY <2>2, DecisionsAssumption DEF Asked
    <3> HIDE DEF pkg, dump
    <3>3. PICK f : Scans(pkg, dump, f)
      BY <3>2, ScanLoop
    <3>4. st = f[Len(dump)] /\ Len(dump) \in 0..Len(dump)
      BY <3>2, <3>3 DEF Scans
    <3>5. ASSUME HeaderOf(dump, pkg) = {}
          PROVE  st.code = 0 /\ st.end \in {"no", "cut"}
      BY <3>2, <3>3, <3>4, <3>5, ScanBefore
    <3>6. ASSUME HeaderOf(dump, pkg) # {},
                 NEW c \in Values(dump, section, "code"),
                 Values(dump, section, "code") = {c}, c # 0,
                 0 \notin Values(dump, section, "name"),
                 Values(dump, section, "name") # {},
                 ~ \E i \in DOMAIN dump : dump[i].kind \in {"junk", "empty", "long"}
          PROVE  st.end = "found" /\ st.code = c
      <4>1. \A i \in DOMAIN dump : dump[i].kind \notin {"junk", "empty", "long"}
        BY <3>6
      <4> HIDE DEF st
      <4>2. f[Len(dump)].end = "found" /\ f[Len(dump)].code = c
        BY <3>2, <3>3, <3>6, <4>1, ScanFinds
      <4> QED
        BY <3>4, <4>2
    <3> HIDE DEF st
    <3>7. ASSUME HeaderOf(dump, pkg) = {}
          PROVE  Answer'.error = "not installed"
      BY <3>1, <3>5, <3>7 DEF Answer
    <3>8. ASSUME st.end = "found", st.code # 0
          PROVE  Answer' = [error |-> "", code |-> st.code]
      BY <3>1, <3>8 DEF Answer
    <3> QED
      BY <3>1, <3>6, <3>7, <3>8 DEF VersionOfPackage, Answered, pkg, dump
  <2> QED
    BY <2>1, <2>2
<1> QED
  BY <1>1, <1>2, InitAsked, AskedStep, PTL DEF Spec

-----------------------------------------------------------------------------
(* The calls of a Fanout: the sinks behind succeeded, but for the last one *)
(* called.                                                                 *)
Chains == [called : Nat, ok : BOOLEAN]

LEMMA CallSinksResult ==
    ASSUME NEW sinks \in Seq(BOOLEAN), NEW r, r = CallSinks(sinks)
    PROVE  /\ r.ok <=> \A i \in DOMAIN sinks : sinks[i]
           /\ r.ok => r.called = Len(sinks)
           /\ \A i \in 1..(r.called - 1) : sinks[i]
<1> DEFINE n == Len(sinks)
           step == [x \in Chains \X BOOLEAN |-> CallSink(x[1], x[2])]
           loop(f) == [i \in 0..Len(sinks) |->
                         IF i = 0 THEN NoneCalled ELSE CallSink(f[i - 1], sinks[i])]
           after == CHOOSE f : f = loop(f)
<1>1. n \in Nat /\ DOMAIN sinks = 1..n /\ \A i \in 1..n : sinks[i] \in BOOLEAN
  OBVIOUS
<1>2. ASSUME NEW st \in Chains, NEW b \in BOOLEAN
      PROVE  CallSink(st, b) \in Chains
  BY DEF CallSink, Chains
<1>3. Steps(step, Chains, BOOLEAN) /\ NoneCalled \in Chains
  BY <1>2 DEF Steps, Chains, NoneCalled
<1>4. PICK f : /\ f \in [0..n -> Chains]
               /\ f[0] = NoneCalled
               /\ \A i \in 1..n : f[i] = step[<<f[i - 1], sinks[i]>>]
  <2> HIDE DEF step
  <2> QED
    BY <1>3, Loop
<1>5. \A i \in 1..n : step[<<f[i - 1], sinks[i]>>] = CallSink(f[i - 1], sinks[i])
  BY <1>1, <1>4
<1>6. f = loop(f)
  <2> DEFINE g(i) == IF i = 0 THEN NoneCalled ELSE CallSink(f[i - 1], sinks[i])
  <2>1. ASSUME NEW i \in 0..n
        PROVE  f[i] = g(i)
    <3> HIDE DEF step
    <3>1. CASE i = 0
      BY <1>4, <3>1
    <3>2. CASE i # 0
      <4>1. i \in 1..n
        BY <1>1, <3>2
      <4> QED
        BY <1>4, <1>5, <3>2, <4>1
    <3> QED
      BY <3>1, <3>2
  <2> HIDE DEF g
  <2>2. f = [i \in 0..n |-> g(i)]
    BY <1>4, <2>1
  <2> QED
    BY <2>2 DEF g
<1>7. after = loop(after)
  BY <1>6
<1> HIDE DEF step
<1>8. after[0] = NoneCalled /\ \A i \in 1..n : after[i] = CallSink(after[i - 1], sinks[i])
  <2> HIDE DEF after
  <2> QED
    BY <1>1, <1>7
<1>9. CallSinks(sinks) = after[n]
  BY DEF CallSinks
<1> HIDE DEF after
<1> DEFINE Called(st, i) ==
               /\ st \in Chains
               /\ st.ok <=> \A j \in 1..i : sinks[j]
               /\ st.ok => st.called = i
               /\ ~st.ok => st.called \in 1..i /\ ~sinks[st.called]
               /\ \A j \in 1..(st.called - 1) : sinks[j]
           T == {i \in 0..n : Called(after[i], i)}
<1>10. 0 \in T
  <2>1. after[0] \in Chains /\ after[0].ok /\ after[0].called = 0
    BY <1>8 DEF Chains, NoneCalled
  <2> QED
    BY <1>1, <2>1
<1>11. ASSUME NEW i \in 1..n, i - 1 \in T
       PROVE  i \in T
  <2> DEFINE st == after[i - 1]
  <2>1. Called(st, i - 1) /\ after[i] = CallSink(st, sinks[i]) /\ sinks[i] \in BOOLEAN
    BY <1>1, <1>8, <1>11
  <2> HIDE DEF st
  <2>2. Called(CallSink(st, sinks[i]), i)
    <3>1. CASE st.ok
      BY <1>1, <2>1, <3>1 DEF CallSink, Chains
    <3>2. CASE ~st.ok
      BY <1>1, <2>1, <3>2 DEF CallSink
    <3> QED
      BY <3>1, <3>2
  <2> QED
    BY <2>1, <2>2
<1> HIDE DEF T
<1>12. n \in T
  <2> HIDE DEF n
  <2>1. 0..n \subseteq T
    BY <1>1, <1>10, <1>11, Count
  <2> QED
    BY <1>1, <2>1
<1> QED
  BY <1>1, <1>9, <1>12 DEF T

(***************************************************************************)
(* A Fanout of any length: no error means that every sink has the          *)
(* artifact, and none is called after the first that failed.               *)
(***************************************************************************)
THEOREM FanoutIsAllOrError == Spec => []FanoutDelivers
<1>1. Init => FanoutDelivers
  BY DEF Init, FanoutDelivers, Answered
<1>2. Asked /\ FanoutDelivers /\ [Next]_vars => FanoutDelivers'
  <2> SUFFICES ASSUME Asked, FanoutDelivers, [Next]_vars
               PROVE  FanoutDelivers'
      OBVIOUS
  <2>1. CASE answer' = answer \/ call.fn # "OnArtifact"
    BY <2>1, OwnAnswer DEF FanoutDelivers, Answered, Answer
  <2>2. CASE answer' # answer /\ call.fn = "OnArtifact"
    <3> DEFINE r == CallSinks(call.sinks)
    <3>1. call' = call /\ answer' = <<r>>
      BY <2>2, OwnAnswer DEF OnArtifact, Result
    <3>2. call.sinks \in Seq(BOOLEAN)
      BY <2>2, DecisionsAssumption DEF Asked
    <3>3. /\ r.ok <=> \A i \in DOMAIN call.sinks : call.sinks[i]
          /\ r.ok => r.called = Len(call.sinks)
          /\ \A i \in 1..(r.called - 1) : call.sinks[i]
      BY <3>2, CallSinksResult
    <3> HIDE DEF r
    <3>4. Answer' = r
      BY <3>1 DEF Answer
    <3> QED
      BY <3>1, <3>3, <3>4 DEF FanoutDelivers
  <2> QED
    BY <2>1, <2>2
<1> QED
  BY <1>1, <1>2, InitAsked, AskedStep, PTL DEF Spec

-----------------------------------------------------------------------------
(* A sequence begins with itself. *)
LEMMA OwnPrefix == ASSUME NEW s \in Codes PROVE IsPrefix(s, s)
  BY DEF IsPrefix, Codes

(***************************************************************************)
(* For any serials: an emulator is seen as connected exactly if it is      *)
(* listed as ready, unless another serial begins like its own.             *)
(***************************************************************************)
THEOREM ConnectedIfListed == Spec => []ConnectedAsListed
<1>1. Init => ConnectedAsListed
  BY DEF Init, ConnectedAsListed, Answered
<1>2. Asked /\ ConnectedAsListed /\ [Next]_vars => ConnectedAsListed'
  <2> SUFFICES ASSUME Asked, ConnectedAsListed, [Next]_vars
               PROVE  ConnectedAsListed'
      OBVIOUS
  <2>1. CASE answer' = answer \/ call.fn # "IsConnected"
    BY <2>1, OwnAnswer DEF ConnectedAsListed, Answered, Answer
  <2>2. CASE answer' # answer /\ call.fn = "IsConnected"
    <3> DEFINE listed == \E line \in call.lines : Lists(line, call.serial, call.named)
    <3>1. call' = call /\ answer' = <<listed>>
      BY <2>2, OwnAnswer DEF IsConnected, Result
    <3>2. /\ call.lines \subseteq [serial : Codes, state : STRING]
          /\ call.serial \in Codes
      BY <2>2, DecisionsAssumption DEF Asked
    <3>3. ASSUME ~call.named,
                 \A line \in call.lines : IsPrefix(call.serial, line.serial)
                                            => line.serial = call.serial
          PROVE  listed <=> [serial |-> call.serial, state |-> "device"] \in call.lines
      BY <3>2, <3>3, OwnPrefix DEF Lists
    <3> HIDE DEF listed
    <3>4. Answer' = listed
      BY <3>1 DEF Answer
    <3> QED
      BY <3>1, <3>3, <3>4 DEF ConnectedAsListed
  <2> QED
    BY <2>1, <2>2
<1> QED
  BY <1>1, <1>2, InitAsked, AskedStep, PTL DEF Spec

-----------------------------------------------------------------------------
(* Pins *)

TakesOut(s, chars, f) ==
    /\ f \in [0..Len(s) -> Text]
    /\ f[0] = << >>
    /\ \A i \in 1..Len(s) : f[i] = AppendUnless(f[i - 1], s[i], chars)
    /\ Without(s, chars) = f[Len(s)]

LEMMA WithoutLoop ==
    ASSUME NEW s \in Text, NEW chars
    PROVE  \E f : TakesOut(s, chars, f)
<1> DEFINE n == Len(s)
           step == [x \in Text \X Char |-> AppendUnless(x[1], x[2], chars)]
           loop(f) == [i \in 0..Len(s) |->
                         IF i = 0 THEN << >> ELSE AppendUnless(f[i - 1], s[i], chars)]
           after == CHOOSE f : f = loop(f)
<1>1. n \in Nat /\ \A i \in 1..n : s[i] \in Char
  BY DEF Text
<1>2. ASSUME NEW t \in Text, NEW c \in Char
      PROVE  AppendUnless(t, c, chars) \in Text
  BY DEF Text, AppendUnless
<1>3. Steps(step, Text, Char) /\ << >> \in Text /\ s \in Seq(Char)
  BY <1>2 DEF Steps, Text
<1>4. PICK f : /\ f \in [0..n -> Text]
               /\ f[0] = << >>
               /\ \A i \in 1..n : f[i] = step[<<f[i - 1], s[i]>>]
  <2> HIDE DEF step
  <2> QED
    BY <1>3, Loop
<1>5. \A i \in 1..n : step[<<f[i - 1], s[i]>>] = AppendUnless(f[i - 1], s[i], chars)
  BY <1>1, <1>4
<1>6. f = loop(f)
  <2>1. f = [i \in 0..n |-> f[i]]
    BY <1>4
  <2>2. \A i \in 0..n : i # 0 => i \in 1..n
    BY <1>1
  <2> HIDE DEF step, n
  <2>3. \A i \in 0..n : f[i] = IF i = 0 THEN << >> ELSE AppendUnless(f[i - 1], s[i], chars)
    BY <1>4, <1>5, <2>2
  <2> QED
    BY <2>1, <2>3 DEF n
<1>7. after = loop(after)
  BY <1>6
<1> HIDE DEF step
<1>8. after[0] = << >> /\ \A i \in 1..n : after[i] = AppendUnless(after[i - 1], s[i], chars)
  <2> HIDE DEF after
  <2> QED
    BY <1>1, <1>7
<1>9. after = [i \in 0..n |-> after[i]]
  <2> HIDE DEF after
  <2> QED
    BY <1>1, <1>7
<1>10. Without(s, chars) = after[n]
  BY DEF Without
<1> HIDE DEF after
<1>11. \A i \in 0..n : after[i] \in Text
  <2> DEFINE T == {i \in 0..n : after[i] \in Text}
  <2>1. 0 \in T
    BY <1>1, <1>3, <1>8
  <2>2. ASSUME NEW i \in 1..n, i - 1 \in T
        PROVE  i \in T
    <3>1. after[i - 1] \in Text /\ after[i] = AppendUnless(after[i - 1], s[i], chars) /\ s[i] \in Char
      BY <1>1, <1>8, <2>2
    <3> QED
      BY <1>1, <1>2, <3>1
  <2> HIDE DEF T
  <2>3. 0..n \subseteq T
    <3> HIDE DEF n
    <3> QED
      BY <1>1, <2>1, <2>2, Count
  <2> QED
    BY <2>3 DEF T
<1> QED
  BY <1>8, <1>9, <1>10, <1>11 DEF TakesOut

(* The characters of a text that are no spaces, and its greatest such. *)
Kept(t) == {i \in DOMAIN t : t[i] # " "}

LEMMA Greatest ==
    ASSUME NEW n \in Nat, NEW D \in SUBSET (1..n), D # {}
    PROVE  \E x \in D : \A y \in D : x >= y
<1> DEFINE E == {n - x : x \in D}
<1>1. E \in SUBSET Nat /\ E # {}
  <2>1. \A x \in D : n - x \in Nat
    OBVIOUS
  <2> QED
    BY <2>1
<1>2. PICK e \in E : \A y \in E : e <= y
  <2> HIDE DEF E
  <2> QED
    BY <1>1, Least
<1>3. PICK x \in D : e = n - x
  OBVIOUS
<1>4. ASSUME NEW y \in D
      PROVE  x >= y
  <2>1. n - y \in E
    OBVIOUS
  <2> QED
    BY <1>2, <1>3, <2>1
<1> QED
  BY <1>4

LEMMA TrimBounds ==
    ASSUME NEW t \in Text, Kept(t) # {}
    PROVE  \E lo, hi \in DOMAIN t :
               /\ lo <= hi /\ Kept(t) \subseteq lo..hi
               /\ TrimSpace(t) = SubSeq(t, lo, hi)
<1> DEFINE K == Kept(t)
           lo == CHOOSE i \in K : \A j \in K : i <= j
           hi == CHOOSE i \in K : \A j \in K : i >= j
<1>1. Len(t) \in Nat /\ DOMAIN t = 1..Len(t)
  BY DEF Text
<1>6. K # {} /\ K \in SUBSET (1..Len(t)) /\ K \in SUBSET Nat
  <2>1. K # {}
    OBVIOUS
  <2>2. \A i \in K : i \in 1..Len(t)
    BY <1>1 DEF Kept
  <2> HIDE DEF K
  <2> QED
    BY <1>1, <2>1, <2>2
<1>2. /\ \E i \in K : \A j \in K : i <= j
      /\ \E i \in K : \A j \in K : i >= j
  <2> HIDE DEF K
  <2> QED
    BY <1>1, <1>6, Least, Greatest
<1>3. /\ lo \in K /\ \A j \in K : lo <= j
      /\ hi \in K /\ \A j \in K : hi >= j
  <2> HIDE DEF K
  <2> QED
    BY <1>2
<1>4. TrimSpace(t) = SubSeq(t, lo, hi)
  BY DEF TrimSpace, Kept
<1> HIDE DEF lo, hi, K
<1>5. lo \in DOMAIN t /\ hi \in DOMAIN t /\ lo <= hi /\ K \subseteq lo..hi
  BY <1>1, <1>3, <1>6
<1> QED
  BY <1>4, <1>5 DEF K

(***************************************************************************)
(* If what is no space in u is in one piece, w is that piece: u and w are  *)
(* what is left of the first characters of a pin without its colons, and   *)
(* without its colons and spaces.                                          *)
(***************************************************************************)
Piece(u, w) ==
    /\ Kept(u) = {} => w = << >>
    /\ \A lo, hi \in DOMAIN u : lo <= hi /\ Kept(u) = lo..hi => w = SubSeq(u, lo, hi)

LEMMA PieceGrows ==
    ASSUME NEW u \in Text, NEW w \in Text, NEW c \in Char, Piece(u, w)
    PROVE  Piece(Append(u, c), IF c = " " THEN w ELSE Append(w, c))
<1> DEFINE m == Len(u)
           v == Append(u, c)
<1>1. /\ m \in Nat /\ DOMAIN u = 1..m /\ DOMAIN v = 1..m + 1 /\ v[m + 1] = c
      /\ \A i \in 1..m : v[i] = u[i]
      /\ v \in Text
  BY DEF Text
<1>2. /\ Kept(u) \subseteq 1..m /\ Kept(v) \subseteq 1..m + 1
      /\ \A i \in 1..m : i \in Kept(v) <=> i \in Kept(u)
      /\ m + 1 \in Kept(v) <=> c # " "
  <2> HIDE DEF m, v
  <2>1. /\ \A i : i \in Kept(u) <=> i \in 1..m /\ u[i] # " "
        /\ \A i : i \in Kept(v) <=> i \in 1..m + 1 /\ v[i] # " "
    BY <1>1 DEF Kept
  <2>2. Kept(u) \subseteq 1..m /\ Kept(v) \subseteq 1..m + 1
    BY <2>1
  <2>3. ASSUME NEW i \in 1..m
        PROVE  i \in Kept(v) <=> i \in Kept(u)
    <3>1. i \in 1..m + 1 /\ v[i] = u[i]
      BY <1>1
    <3> QED
      BY <2>1, <3>1
  <2>4. m + 1 \in Kept(v) <=> c # " "
    <3>1. m + 1 \in 1..m + 1
      BY <1>1
    <3> QED
      BY <1>1, <2>1, <3>1
  <2> QED
    BY <2>2, <2>3, <2>4
<1>3. ASSUME NEW lo \in 1..m, NEW hi \in lo..m
      PROVE  SubSeq(v, lo, hi) = SubSeq(u, lo, hi)
  <2> QED
    BY <1>1 DEF Text
<1> HIDE DEF m, v
<1>4. CASE c = " "
  <2>1. Kept(v) = Kept(u)
    <3>1. \A i \in 1..m + 1 : i \in 1..m \/ i = m + 1
      BY <1>1
    <3>2. \A i \in 1..m + 1 : i \in Kept(v) <=> i \in Kept(u)
      BY <1>1, <1>2, <1>4, <3>1
    <3>3. \A i \in 1..m : i \in 1..m + 1
      BY <1>1
    <3> QED
      BY <1>2, <3>2, <3>3
  <2>2. ASSUME NEW lo \in DOMAIN v, NEW hi \in DOMAIN v, lo <= hi, Kept(v) = lo..hi
        PROVE  w = SubSeq(v, lo, hi)
    <3>1. lo \in 1..m /\ hi \in lo..m
      <4>1. lo \in Int /\ hi \in Int
        BY <1>1, <2>2
      <4>2. lo \in Kept(u) /\ hi \in Kept(u)
        BY <2>1, <2>2, <4>1
      <4> QED
        <5>1. lo \in 1..m /\ hi \in 1..m
          BY <1>2, <4>2
        <5> QED
          BY <1>1, <2>2, <5>1
    <3> QED
      BY <1>1, <1>3, <2>1, <2>2, <3>1 DEF Piece
  <2> QED
    BY <1>4, <2>1, <2>2 DEF Piece, v
<1>5. CASE c # " "
  <2>1. m + 1 \in Kept(v)
    BY <1>2, <1>5
  <2>2. ASSUME NEW lo \in DOMAIN v, NEW hi \in DOMAIN v, lo <= hi, Kept(v) = lo..hi
        PROVE  Append(w, c) = SubSeq(v, lo, hi)
    <3>1. hi = m + 1 /\ lo \in 1..m + 1
      BY <1>1, <2>1, <2>2
    <3>2. Kept(u) = lo..m
      <4>1. \A i \in 1..m : i \in Kept(u) <=> i \in lo..m + 1
        BY <1>2, <2>2, <3>1
      <4>2. \A i \in lo..m : i \in 1..m /\ i \in lo..m + 1
        BY <1>1, <3>1
      <4>3. \A i \in 1..m : i \in lo..m + 1 => i \in lo..m
        BY <1>1, <3>1
      <4> QED
        BY <1>2, <4>1, <4>2, <4>3
    <3>3. CASE lo = m + 1
      <4>1. w = << >>
        BY <1>1, <3>2, <3>3 DEF Piece
      <4>2. SubSeq(v, m + 1, m + 1) = <<c>>
        <5>1. v \in Seq(Char) /\ Len(v) = m + 1
          BY <1>1 DEF Text
        <5>2. Len(SubSeq(v, m + 1, m + 1)) = 1 /\ SubSeq(v, m + 1, m + 1)[1] = c
          BY <1>1, <5>1
        <5>3. SubSeq(v, m + 1, m + 1) \in Seq(Char) /\ <<c>> \in Seq(Char)
          BY <1>1, <5>1
        <5>4. Len(<<c>>) = 1 /\ <<c>>[1] = c
          OBVIOUS
        <5> DEFINE a == SubSeq(v, m + 1, m + 1)
                   b == <<c>>
        <5>5. /\ a \in Seq(Char) /\ Len(a) = 1 /\ a[1] = c
              /\ b \in Seq(Char) /\ Len(b) = 1 /\ b[1] = c
          BY <5>2, <5>3, <5>4
        <5> HIDE DEF a, b
        <5>6. \A i \in 1..Len(a) : a[i] = b[i]
          BY <5>5
        <5>7. a = b
          BY <5>5, <5>6, SeqEqual
        <5> QED
          BY <5>7 DEF a, b
      <4>3. Append(<< >>, c) = <<c>>
        OBVIOUS
      <4> QED
        BY <3>1, <3>3, <4>1, <4>2, <4>3
    <3>4. CASE lo # m + 1
      <4>1. lo \in 1..m /\ m \in lo..m
        BY <1>1, <3>1, <3>4
      <4>2. w = SubSeq(v, lo, m)
        BY <1>1, <1>3, <3>2, <4>1 DEF Piece
      <4>3. Append(SubSeq(v, lo, m), c) = SubSeq(v, lo, m + 1)
        BY <1>1, <4>1, SMTT(30) DEF Text
      <4> QED
        BY <3>1, <4>2, <4>3
    <3> QED
      BY <3>3, <3>4
  <2> QED
    BY <1>5, <2>1, <2>2 DEF Piece, v
<1> QED
  BY <1>4, <1>5

LEMMA PieceOfPin ==
    ASSUME NEW s \in Text
    PROVE  /\ Without(s, {":"}) \in Text
           /\ Piece(Without(s, {":"}), Without(s, {":", " "}))
<1> DEFINE n == Len(s)
<1>1. PICK f : TakesOut(s, {":"}, f)
  BY WithoutLoop
<1>2. PICK g : TakesOut(s, {":", " "}, g)
  BY WithoutLoop
<1>3. n \in Nat /\ \A i \in 1..n : s[i] \in Char
  BY DEF Text
<1>4. /\ f \in [0..n -> Text] /\ f[0] = << >> /\ Without(s, {":"}) = f[n]
      /\ g \in [0..n -> Text] /\ g[0] = << >> /\ Without(s, {":", " "}) = g[n]
  BY <1>1, <1>2 DEF TakesOut
<1>5. \A i \in 1..n : /\ f[i] = AppendUnless(f[i - 1], s[i], {":"})
                      /\ g[i] = AppendUnless(g[i - 1], s[i], {":", " "})
  BY <1>1, <1>2 DEF TakesOut
<1> DEFINE T == {i \in 0..n : Piece(f[i], g[i])}
<1> HIDE DEF n
<1>6. 0 \in T
  <2>1. Kept(<< >>) = {} /\ DOMAIN << >> = {}
    BY DEF Kept
  <2>2. Piece(<< >>, << >>)
    BY <2>1 DEF Piece
  <2> QED
    <3>1. Piece(f[0], g[0])
      BY <1>4, <2>2
    <3> QED
      BY <1>3, <3>1
<1>7. ASSUME NEW i \in 1..n, i - 1 \in T
      PROVE  i \in T
  <2> DEFINE a == f[i - 1]
             b == g[i - 1]
             c == s[i]
  <2>1. a \in Text /\ b \in Text /\ c \in Char /\ Piece(a, b) /\ i \in 0..n
    <3>1. i - 1 \in 0..n /\ i \in 0..n /\ c \in Char
      BY <1>3
    <3>2. Piece(a, b)
      BY <1>7
    <3> QED
      BY <1>4, <3>1, <3>2
  <2>2. f[i] = AppendUnless(a, c, {":"}) /\ g[i] = AppendUnless(b, c, {":", " "})
    BY <1>5
  <2> HIDE DEF a, b, c
  <2>3. CASE c = ":"
    <3>1. f[i] = a /\ g[i] = b
      BY <2>2, <2>3 DEF AppendUnless
    <3> QED
      BY <2>1, <3>1
  <2>4. CASE c # ":"
    <3>1. f[i] = Append(a, c) /\ g[i] = IF c = " " THEN b ELSE Append(b, c)
      BY <2>2, <2>4 DEF AppendUnless
    <3>2. Piece(f[i], g[i])
      BY <2>1, <3>1, PieceGrows
    <3> QED
      BY <2>1, <3>2
  <2> QED
    BY <2>3, <2>4
<1> HIDE DEF T
<1>8. n \in T
  <2>1. 0..n \subseteq T
    BY <1>3, <1>6, <1>7, Count
  <2> QED
    BY <1>3, <2>1
<1> QED
  BY <1>3, <1>4, <1>8 DEF T

NoSpace(t) == \A k \in DOMAIN t : t[k] # " "

(* A stretch of a text without a space is kept. *)
LEMMA PieceIsKept ==
    ASSUME NEW u \in Text, NEW lo \in DOMAIN u, NEW hi \in DOMAIN u, lo <= hi,
           NoSpace(SubSeq(u, lo, hi))
    PROVE  lo..hi \subseteq Kept(u)
<1>1. u \in Seq(Char) /\ DOMAIN u = 1..Len(u) /\ Len(u) \in Nat
  BY DEF Text
<1>2. lo \in Int /\ hi \in Int /\ \A i \in lo..hi : i \in DOMAIN u /\ u[i] \in Char
  BY <1>1
<1> DEFINE t == SubSeq(u, lo, hi)
<1>3. /\ t \in Seq(Char) /\ Len(t) = hi - lo + 1
      /\ \A i \in 1..(hi - lo + 1) : t[i] = u[lo + i - 1]
  BY <1>2, SubSeqProperties
<1>4. NoSpace(t)
  OBVIOUS
<1> HIDE DEF t
<1>5. ASSUME NEW j \in lo..hi
      PROVE  u[j] # " "
  <2>1. j - lo + 1 \in 1..(hi - lo + 1) /\ lo + (j - lo + 1) - 1 = j
    BY <1>2
  <2>2. t[j - lo + 1] = u[j] /\ j - lo + 1 \in DOMAIN t
    BY <1>3, <2>1
  <2> QED
    BY <1>4, <2>2 DEF NoSpace
<1> QED
  BY <1>2, <1>5 DEF Kept

(* A text that has spaces at its ends only is trimmed to its one piece. *)
LEMMA TrimPiece ==
    ASSUME NEW u \in Text, NEW w, Piece(u, w), NEW t, t = TrimSpace(u), NoSpace(t)
    PROVE  w = t
<1>1. CASE Kept(u) = {}
  <2>1. t = << >>
    BY <1>1 DEF TrimSpace, Kept
  <2> QED
    BY <1>1, <2>1 DEF Piece
<1>2. CASE Kept(u) # {}
  <2>1. PICK lo, hi \in DOMAIN u :
               lo <= hi /\ Kept(u) \subseteq lo..hi /\ t = SubSeq(u, lo, hi)
    BY <1>2, TrimBounds
  <2>2. lo..hi \subseteq Kept(u)
    BY <2>1, PieceIsKept
  <2>3. Kept(u) = lo..hi
    BY <2>1, <2>2
  <2> QED
    BY <2>1, <2>3 DEF Piece
<1> QED
  BY <1>1, <1>2

(* A valid pin is compared as it is written but for case, colons, spaces. *)
LEMMA PinAsWritten ==
    ASSUME NEW s \in Text, NormalizeFingerprint(s) # << >>
    PROVE  NormalizeFingerprint(s) = ToLower(Without(s, {":", " "}))
<1> DEFINE u == Without(s, {":"})
           t == TrimSpace(u)
           fp == ToLower(t)
<1>1. NormalizeFingerprint(s) = fp /\ \A i \in DOMAIN fp : IsHex(fp[i])
  BY DEF NormalizeFingerprint, StripColons
<1> HIDE DEF u, t
<1>2. DOMAIN fp = DOMAIN t /\ \A i \in DOMAIN t : fp[i] = Lower(t[i])
  BY DEF ToLower
<1>3. NoSpace(t)
  BY <1>1, <1>2 DEF IsHex, Lower, NoSpace
<1>4. Without(s, {":", " "}) = t
  BY <1>3, PieceOfPin, TrimPiece DEF t, u
<1> QED
  BY <1>1, <1>4

(***************************************************************************)
(* Whatever a pin's letter case, colons and spaces, and whatever apksigner *)
(* prints: an APK is accepted exactly if it is signed with the pin.        *)
(***************************************************************************)
THEOREM AcceptedIfPinned == Spec => []AcceptedAsPinned
<1>1. Init => AcceptedAsPinned
  BY DEF Init, AcceptedAsPinned, Answered
<1>2. Asked /\ AcceptedAsPinned /\ [Next]_vars => AcceptedAsPinned'
  <2> SUFFICES ASSUME Asked, AcceptedAsPinned, [Next]_vars
               PROVE  AcceptedAsPinned'
      OBVIOUS
  <2>1. CASE answer' = answer \/ call.fn # "verifyAPKSignature"
    BY <2>1, OwnAnswer DEF AcceptedAsPinned, Answered, Answer
  <2>2. CASE answer' # answer /\ call.fn = "verifyAPKSignature"
    <3> DEFINE expected == NormalizeFingerprint(call.pin)
               same == ToLower(Without(call.pin, {":", " "}))
    <3>1. call' = call /\ VerifyAPKSignature
      BY <2>2, OwnAnswer
    <3>2. call.pin \in Text
      BY <2>2, DecisionsAssumption DEF Asked
    <3>3. expected # << >> => expected = same
      BY <3>2, PinAsWritten
    <3>4. ToLower(<< >>) = << >>
      BY DEF ToLower
    <3> HIDE DEF expected, same
    <3>5. /\ Answer' = "signed" =>
               /\ call.found /\ call.verified /\ expected # << >>
               /\ ToLower(call.digest) = expected
          /\ Answer' \notin {"invalid pin", "signed"} /\ call.found /\ call.verified =>
               expected # << >> /\ ToLower(call.digest) # expected
      <4>1. {call.found, call.verified} \subseteq BOOLEAN
        BY <2>2 DEF Asked
      <4>2. Answer' = IF expected = << >> THEN "invalid pin"
                      ELSE IF ~call.found THEN "no apksigner"
                      ELSE IF ~call.verified THEN "not verified"
                      ELSE IF call.digest = << >> THEN "no digest"
                      ELSE IF ToLower(call.digest) = expected THEN "signed" ELSE "mismatch"
        BY <3>1 DEF VerifyAPKSignature, Result, Answer, expected
      <4> QED
        BY <3>4, <4>1, <4>2
    <3> QED
      BY <3>1, <3>3, <3>5 DEF AcceptedAsPinned, same
  <2> QED
    BY <2>1, <2>2
<1> QED
  BY <1>1, <1>2, InitAsked, AskedStep, PTL DEF Spec

-----------------------------------------------------------------------------
(* The order of names: total, transitive, and strict. *)

(* A place where s is behind t and they agree before. *)
Behind(s, t, k) ==
    /\ k \in 1..Len(t)
    /\ \A i \in 1..(k - 1) : i <= Len(s) /\ s[i] = t[i]
    /\ k > Len(s) \/ s[k] < t[k]

LEMMA NameTypes ==
    ASSUME NEW s \in Codes
    PROVE  Len(s) \in Nat /\ \A i \in 1..Len(s) : s[i] \in Nat
  BY DEF Codes

LEMMA BeforeAt == \A s, t : Before(s, t) <=> \E k \in 1..Len(t) : Behind(s, t, k)
  BY DEF Before, Behind

LEMMA BeforeStrict ==
    ASSUME NEW s \in Codes
    PROVE  ~Before(s, s)
<1> SUFFICES ASSUME NEW k \in 1..Len(s), Behind(s, s, k)
             PROVE  FALSE
    BY BeforeAt
<1>1. k > Len(s) \/ s[k] < s[k]
  BY DEF Behind
<1> QED
  BY <1>1, NameTypes

LEMMA BeforeTransitive ==
    ASSUME NEW a \in Codes, NEW b \in Codes, NEW c \in Codes,
           Before(a, b), Before(b, c)
    PROVE  Before(a, c)
<1>1. PICK k \in 1..Len(b) : Behind(a, b, k)
  BY BeforeAt
<1>2. PICK l \in 1..Len(c) : Behind(b, c, l)
  BY BeforeAt
<1>3. /\ Len(a) \in Nat /\ Len(b) \in Nat /\ Len(c) \in Nat
      /\ \A i \in 1..Len(a) : a[i] \in Nat
      /\ \A i \in 1..Len(b) : b[i] \in Nat
      /\ \A i \in 1..Len(c) : c[i] \in Nat
  BY NameTypes
<1>4. CASE k < l
  <2>1. k \in 1..Len(c) /\ b[k] = c[k] /\ \A i \in 1..(k - 1) : b[i] = c[i]
    BY <1>2, <1>3, <1>4 DEF Behind
  <2>2. Behind(a, c, k)
    BY <1>1, <1>3, <2>1 DEF Behind
  <2> QED
    BY <2>1, <2>2, BeforeAt
<1>5. CASE l < k
  <2>1. l <= Len(a) /\ l <= Len(b) /\ a[l] = b[l] /\ b[l] < c[l]
    BY <1>1, <1>2, <1>3, <1>5 DEF Behind
  <2>2. \A i \in 1..(l - 1) : i <= Len(a) /\ a[i] = c[i]
    BY <1>1, <1>2, <1>3, <1>5 DEF Behind
  <2>3. Behind(a, c, l)
    BY <2>1, <2>2 DEF Behind
  <2> QED
    BY <2>3, BeforeAt
<1>6. CASE l = k
  <2>1. \A i \in 1..(l - 1) : i <= Len(a) /\ a[i] = c[i]
    BY <1>1, <1>2, <1>3, <1>6 DEF Behind
  <2>2. l > Len(a) \/ a[l] < c[l]
    <3>1. l \in 1..Len(b) /\ l \in 1..Len(c) /\ b[l] < c[l]
      BY <1>1, <1>2, <1>3, <1>6 DEF Behind
    <3>2. l > Len(a) \/ a[l] < b[l]
      BY <1>1, <1>6 DEF Behind
    <3>3. CASE l <= Len(a)
      <4>1. a[l] \in Nat /\ b[l] \in Nat /\ c[l] \in Nat
        BY <1>3, <3>1, <3>3
      <4> QED
        BY <1>3, <3>1, <3>2, <3>3, <4>1
    <3> QED
      BY <1>3, <3>1, <3>3
  <2>3. Behind(a, c, l)
    BY <2>1, <2>2 DEF Behind
  <2> QED
    BY <2>3, BeforeAt
<1> QED
  BY <1>3, <1>4, <1>5, <1>6

LEMMA BeforeTotal ==
    ASSUME NEW s \in Codes, NEW t \in Codes, s # t
    PROVE  Before(s, t) \/ Before(t, s)
<1> DEFINE D == {k \in Nat \ {0} : k > Len(s) \/ k > Len(t) \/ s[k] # t[k]}
<1>1. /\ Len(s) \in Nat /\ Len(t) \in Nat
      /\ \A i \in 1..Len(s) : s[i] \in Nat
      /\ \A i \in 1..Len(t) : t[i] \in Nat
  BY NameTypes
<1>2. D \in SUBSET Nat /\ D # {}
  <2>1. Len(s) + 1 \in D
    BY <1>1
  <2> QED
    BY <2>1
<1>3. PICK k \in D : \A j \in D : k <= j
  <2> HIDE DEF D
  <2> QED
    BY <1>2, Least
<1>4. \A i \in 1..(k - 1) : i <= Len(s) /\ i <= Len(t) /\ s[i] = t[i]
  <2> SUFFICES ASSUME NEW i \in 1..(k - 1)
               PROVE  i \notin D
      BY <1>1, <1>2
  <2> HIDE DEF D
  <2> QED
    BY <1>2, <1>3
<1>5. k \in Nat \ {0} /\ (k > Len(s) \/ k > Len(t) \/ s[k] # t[k])
  BY <1>3
<1> HIDE DEF D
<1>6. CASE k > Len(s) /\ k > Len(t)
  <2>1. Len(s) = k - 1 /\ Len(t) = k - 1
    BY <1>1, <1>4, <1>5, <1>6
  <2>2. \A i \in 1..Len(s) : s[i] = t[i]
    BY <1>4, <2>1
  <2>3. s \in Seq(Nat) /\ t \in Seq(Nat)
    BY DEF Codes
  <2> QED
    BY <2>1, <2>2, <2>3, SeqEqual
<1>7. CASE k <= Len(t) /\ (k > Len(s) \/ s[k] < t[k])
  <2>1. k \in 1..Len(t) /\ Behind(s, t, k)
    BY <1>1, <1>4, <1>5, <1>7 DEF Behind
  <2> QED
    BY <2>1, BeforeAt
<1>8. CASE k <= Len(s) /\ (k > Len(t) \/ t[k] < s[k])
  <2>1. k \in 1..Len(s) /\ Behind(t, s, k)
    BY <1>1, <1>4, <1>5, <1>8 DEF Behind
  <2> QED
    BY <2>1, BeforeAt
<1> QED
  BY <1>1, <1>5, <1>6, <1>7, <1>8

(* A finite set of versions has a last one: by induction on its size. *)
IsLast(v, S) == \A w \in S : w = v \/ Before(w.name, v.name)

LEMMA LastExists ==
    ASSUME NEW R, IsFiniteSet(R), R # {},
           \A v \in R : v.name \in Codes,
           \A v, w \in R : v.name = w.name => v = w
    PROVE  \E v \in R : IsLast(v, R)
<1> DEFINE n == Cardinality(R)
           T == {k \in 0..n : \A S \in SUBSET R : S # {} /\ Cardinality(S) = k
                                                   => \E v \in S : IsLast(v, S)}
<1>1. n \in Nat
  BY FS_CardinalityType
<1>2. \A S \in SUBSET R : IsFiniteSet(S) /\ (Cardinality(S) = 0 <=> S = {})
  BY FS_Subset, FS_EmptySet
<1> HIDE DEF n
<1>3. 0 \in T
  BY <1>1, <1>2
<1>4. ASSUME NEW k \in 1..n, k - 1 \in T
      PROVE  k \in T
  <2>1. ASSUME NEW S \in SUBSET R, S # {}, Cardinality(S) = k
        PROVE  \E v \in S : IsLast(v, S)
    <3>1. PICK x : x \in S
      BY <2>1
    <3>2. S \ {x} \in SUBSET R /\ Cardinality(S \ {x}) = k - 1
      BY <1>2, <2>1, <3>1, FS_RemoveElement
    <3>3. CASE S \ {x} = {}
      <4>1. IsLast(x, S)
        BY <3>3 DEF IsLast
      <4> QED
        BY <3>1, <4>1
    <3>4. CASE S \ {x} # {}
      <4>1. PICK v \in S \ {x} : IsLast(v, S \ {x})
        BY <1>4, <3>2, <3>4
      <4>2. /\ x \in R /\ v \in R /\ v \in S /\ x.name # v.name
            /\ x.name \in Codes /\ v.name \in Codes
        BY <2>1, <3>1, <4>1
      <4>3. CASE Before(x.name, v.name)
        <5>1. IsLast(v, S)
          BY <4>1, <4>3 DEF IsLast
        <5> QED
          BY <4>2, <5>1
      <4>4. CASE Before(v.name, x.name)
        <5>1. ASSUME NEW w \in S, w # x
              PROVE  Before(w.name, x.name)
          <6>1. w = v \/ Before(w.name, v.name)
            BY <4>1, <5>1 DEF IsLast
          <6>2. w.name \in Codes
            BY <2>1
          <6> QED
            BY <4>2, <4>4, <6>1, <6>2, BeforeTransitive
        <5>2. IsLast(x, S)
          BY <5>1 DEF IsLast
        <5> QED
          BY <3>1, <5>2
      <4> QED
        BY <4>2, <4>3, <4>4, BeforeTotal
    <3> QED
      BY <3>3, <3>4
  <2>2. k \in 0..n
    BY <1>1
  <2> QED
    BY <2>1, <2>2
<1>5. n \in T
  <2> HIDE DEF T
  <2>1. 0..n \subseteq T
    BY <1>1, <1>3, <1>4, Count
  <2> QED
    BY <1>1, <2>1
<1>6. R \in SUBSET R /\ Cardinality(R) = n
  BY DEF n
<1> QED
  BY <1>5, <1>6

(* latestBuildTool: the last by name that has the executable, if any; among *)
(* releases written alike, the last by number.                             *)
Usable(root) == {v \in root : v.exe}

LEMMA LatestIsLast ==
    ASSUME NEW root \in Roots
    PROVE  /\ Usable(root) = {} => LatestBuildTool(root) = {}
           /\ Usable(root) # {} =>
                \E v \in Usable(root) :
                    /\ LatestBuildTool(root) = {v}
                    /\ \A w \in Usable(root) :
                         Alike(w, v) => w = v \/ Before(w.numbers, v.numbers)
<1> DEFINE U == Usable(root)
<1>1. /\ root \subseteq Version /\ IsFiniteSet(root)
      /\ \A v, w \in root :
           /\ v.name = w.name => v = w
           /\ Alike(v, w) /\ Before(v.name, w.name) => Before(v.numbers, w.numbers)
  BY RootsAssumption
<1>2. U \in SUBSET root /\ \A v \in root : v \in U <=> v.exe
  BY DEF Usable
<1>3. \A v \in root : v.name \in Codes
  BY <1>1 DEF Version
<1>4. LatestBuildTool(root) = {v \in U : IsLast(v, U)}
  <2>1. \A v \in root : (v.exe /\ \A w \in root : w.exe => w = v \/ Before(w.name, v.name))
                          <=> v \in U /\ IsLast(v, U)
    BY <1>2 DEF IsLast
  <2> HIDE DEF U
  <2> QED
    BY <1>2, <2>1 DEF LatestBuildTool
<1> HIDE DEF U
<1>5. CASE U = {}
  BY <1>4, <1>5 DEF U
<1>6. CASE U # {}
  <2>1. PICK v \in U : IsLast(v, U)
    <3>1. IsFiniteSet(U)
      BY <1>1, <1>2, FS_Subset
    <3>2. (\A x \in U : x.name \in Codes) /\ \A x, w \in U : x.name = w.name => x = w
      BY <1>1, <1>2, <1>3
    <3> QED
      BY <1>6, <3>1, <3>2, LastExists
  <2>2. ASSUME NEW u \in U, IsLast(u, U)
        PROVE  u = v
    <3>1. u = v \/ (Before(u.name, v.name) /\ Before(v.name, u.name))
      BY <2>1, <2>2 DEF IsLast
    <3>2. u.name \in Codes /\ v.name \in Codes
      BY <1>2, <1>3, <2>1
    <3> QED
      BY <3>1, <3>2, BeforeTransitive, BeforeStrict
  <2>3. LatestBuildTool(root) = {v}
    BY <1>4, <2>1, <2>2
  <2>4. ASSUME NEW w \in U, Alike(w, v)
        PROVE  w = v \/ Before(w.numbers, v.numbers)
    <3>1. w \in root /\ v \in root /\ (w = v \/ Before(w.name, v.name))
      BY <1>2, <2>1 DEF IsLast
    <3> QED
      BY <1>1, <2>4, <3>1
  <2> QED
    BY <1>6, <2>1, <2>3, <2>4 DEF U
<1> QED
  BY <1>5, <1>6

(***************************************************************************)
(* Whatever build-tools are installed: apksigner is taken from PATH, then  *)
(* from ANDROID_HOME, then from the default directory, and none is found   *)
(* only if none has it.  Within a directory it is that of the newest       *)
(* version that has it, by all its numbers, if those that have it are      *)
(* releases whose numbers are written with as many digits.                 *)
(***************************************************************************)
THEOREM NewestToolFound == Spec => []NewestTool
<1>1. Init => NewestTool
  BY DEF Init, NewestTool, Answered
<1>2. Asked /\ NewestTool /\ [Next]_vars => NewestTool'
  <2> SUFFICES ASSUME Asked, NewestTool, [Next]_vars
               PROVE  NewestTool'
      OBVIOUS
  <2>1. CASE answer' = answer \/ call.fn # "findApksigner"
    BY <2>1, OwnAnswer DEF NewestTool, Answered, Answer
  <2>2. CASE answer' # answer /\ call.fn = "findApksigner"
    <3> DEFINE home == LatestBuildTool(call.home)
               sdk  == LatestBuildTool(call.sdk)
               best(tool, root) ==
                   \E v \in Usable(root) :
                       /\ tool = {v}
                       /\ (\A u, w \in Usable(root) : Alike(u, w))
                            => \A w \in Usable(root) :
                                 w = v \/ Before(w.numbers, v.numbers)
    <3>1. /\ call' = call
          /\ Answer' = IF call.onPath THEN [where |-> "PATH", tool |-> {}]
                       ELSE IF home # {} THEN [where |-> "home", tool |-> home]
                       ELSE [where |-> IF sdk # {} THEN "sdk" ELSE "nowhere", tool |-> sdk]
      BY <2>2, OwnAnswer DEF FindApksigner, Result, Answer
    <3>2. call.home \in Roots /\ call.sdk \in Roots /\ call.onPath \in BOOLEAN
      BY <2>2 DEF Asked
    <3>3. /\ home # {} => best(home, call.home)
          /\ home = {} => Usable(call.home) = {}
      BY <3>2, LatestIsLast
    <3>4. /\ sdk # {} => best(sdk, call.sdk)
          /\ sdk = {} => Usable(call.sdk) = {}
      BY <3>2, LatestIsLast
    <3> QED
      BY <3>1, <3>2, <3>3, <3>4 DEF NewestTool, Usable
  <2> QED
    BY <2>1, <2>2
<1> QED
  BY <1>1, <1>2, InitAsked, AskedStep, PTL DEF Spec
=============================================================================
