----------------------------- MODULE Decisions ------------------------------
(***************************************************************************)
(* The functions of the service that keep no state: what it makes of the   *)
(* output of adb and apksigner, which apksigner it runs, and how a Fanout  *)
(* calls its sinks.                                                        *)
(*                                                                         *)
(* A behaviour is one call: its arguments are chosen, then answered.       *)
(***************************************************************************)
EXTENDS Integers, FiniteSets, SequencesExt

CONSTANTS
    Dumps,      \* outputs of "dumpsys package", sequences of lines
    Listings,   \* outputs of "adb devices", sets of lines
    Serials,    \* serials of configured emulators: the codes of the characters
    Pins,       \* fingerprints in expected_certs: sequences of characters
    Digests,    \* what apksigner prints for the first signer, or << >>
    Roots,      \* build-tools directories: sets of versions
    Outcomes,   \* what the sinks of a Fanout return: sequences of BOOLEAN
    DigestLen   \* characters of a SHA-256 digest (64)

Line == [kind : {"header", "code", "name", "junk", "empty", "long"}, value : Nat]
Codes == Seq(Nat)
Char == STRING
Text == Seq(Char)

ASSUME DecisionsAssumption ==
    /\ DigestLen \in Nat \ {0}
    /\ Dumps \subseteq Seq(Line)
    /\ Listings \subseteq SUBSET [serial : Codes, state : STRING]
    /\ Serials \subseteq Codes
    /\ Pins \subseteq Text
    /\ Outcomes \subseteq Seq(BOOLEAN)

VARIABLES call, answer

vars == <<call, answer>>

(* answer is << >> until the call returns. *)
Calls(fn) == call.fn = fn /\ answer = << >>
Result(r) == answer' = <<r>> /\ UNCHANGED call

-----------------------------------------------------------------------------
(* adb.parseVersionInfo.  A line has a kind and a value (a package, a code *)
(* or a name; name 0 is the empty one): the header of a section, a         *)
(* versionCode or versionName line, "versionCode=" with nothing behind it  *)
(* or with no number, or one that exceeds the buffer of the Scanner.       *)

Scanning == [inPkg |-> FALSE, code |-> 0, name |-> 0, end |-> "no"]

(* The scan ends once it has a code and a name. *)
Found(st) ==
    IF st.code # 0 /\ st.name # 0 THEN [st EXCEPT !.end = "found"] ELSE st

(* Mutant: lines before the section of the package are read too. *)
ScanAnyLine(pkg, st, line) ==
    IF st.end # "no" THEN st
    ELSE CASE line.kind = "long"   -> [st EXCEPT !.end = "cut"]
           [] line.kind = "header" -> st
           [] line.kind = "code"   -> Found([st EXCEPT !.code = line.value])
           [] line.kind = "name"   -> Found([st EXCEPT !.name = line.value])
           [] line.kind = "junk"   -> [st EXCEPT !.end = "error"]
           [] line.kind = "empty"  -> [st EXCEPT !.end = "panic"]

(* inPkg is never reset; a line that is too long ends the scan silently;   *)
(* an empty field has no first word, which is a panic.                     *)
ScanLine(pkg, st, line) ==
    IF st.end # "no" THEN st
    ELSE IF line.kind = "long" THEN [st EXCEPT !.end = "cut"]
    ELSE IF line.kind = "header" THEN [st EXCEPT !.inPkg = @ \/ line.value = pkg]
    ELSE IF ~st.inPkg THEN st
    ELSE CASE line.kind = "code"   -> Found([st EXCEPT !.code = line.value])
           [] line.kind = "name"   -> Found([st EXCEPT !.name = line.value])
           [] line.kind = "junk"   -> [st EXCEPT !.end = "error"]
           [] line.kind = "empty"  -> [st EXCEPT !.end = "panic"]

Scan(pkg, dump) ==
    LET after[i \in 0..Len(dump)] ==
            IF i = 0 THEN Scanning ELSE ScanLine(pkg, after[i - 1], dump[i])
    IN  after[Len(dump)]

ParseVersionInfo ==
    /\ Calls("parseVersionInfo")
    /\ LET st == Scan(call.pkg, call.dump) IN
       Result([error |-> CASE st.end \in {"panic", "error"} -> st.end
                           [] OTHER -> IF st.code = 0 THEN "not installed" ELSE "",
               code |-> st.code])

-----------------------------------------------------------------------------
(* adb.Client.IsConnected.  A line of "adb devices" is a serial and a      *)
(* state; named tells whether the host in the serial contains "device".    *)

(* Mutant: the state is not looked at. *)
ListsSerial(line, serial, named) == IsPrefix(serial, line.serial)

Lists(line, serial, named) ==
    /\ IsPrefix(serial, line.serial)
    /\ line.state = "device" \/ named

IsConnected ==
    /\ Calls("IsConnected")
    /\ Result(\E line \in call.lines : Lists(line, call.serial, call.named))

-----------------------------------------------------------------------------
(* config.normalizeFingerprint and extractor.verifyAPKSignature *)

Lower(c) == CASE c = "A" -> "a" [] c = "B" -> "b" [] OTHER -> c
ToLower(s) == [i \in DOMAIN s |-> Lower(s[i])]
IsHex(c) == c \in {"a", "b"}

TrimSpace(s) ==
    LET kept == {i \in DOMAIN s : s[i] # " "} IN
    IF kept = {} THEN << >>
    ELSE SubSeq(s, CHOOSE i \in kept : \A j \in kept : i <= j,
                   CHOOSE i \in kept : \A j \in kept : i >= j)

AppendUnless(t, c, chars) == IF c \in chars THEN t ELSE Append(t, c)

(* What is left of s when some characters are taken out. *)
Without(s, chars) ==
    LET after[i \in 0..Len(s)] ==
            IF i = 0 THEN << >> ELSE AppendUnless(after[i - 1], s[i], chars)
    IN  after[Len(s)]

StripColons(s) == Without(s, {":"})

(* Mutant: case is kept. *)
NormalizeNoCase(fp) ==
    LET s == TrimSpace(StripColons(fp)) IN
    IF Len(s) = DigestLen /\ \A i \in DOMAIN s : IsHex(Lower(s[i])) THEN s ELSE << >>

(* The pin that is compared, or << >> when validation rejects it. *)
NormalizeFingerprint(fp) ==
    LET s == ToLower(TrimSpace(StripColons(fp))) IN
    IF Len(s) = DigestLen /\ \A i \in DOMAIN s : IsHex(s[i]) THEN s ELSE << >>

VerifyAPKSignature ==
    /\ Calls("verifyAPKSignature")
    /\ LET expected == NormalizeFingerprint(call.pin) IN
       Result(IF expected = << >> THEN "invalid pin"
              ELSE IF ~call.found THEN "no apksigner"
              ELSE IF ~call.verified THEN "not verified"
              ELSE IF call.digest = << >> THEN "no digest"
              ELSE IF ToLower(call.digest) = expected THEN "signed"
              ELSE "mismatch")

-----------------------------------------------------------------------------
(* extractor.findApksigner and latestBuildTool.  A version of the build    *)
(* tools has the name of its directory, by the codes of its characters;    *)
(* the numbers in it, and how many digits each is written with; whether it *)
(* is a release candidate (35.0.0-rc4); and whether it has the executable. *)

Version == [name : Codes, numbers : Seq(Nat), digits : Seq(Nat), rc : BOOLEAN,
            exe : BOOLEAN]

(* The order of strings, by their characters; also that of versions, by    *)
(* their numbers.                                                          *)
Before(s, t) ==
    \E k \in 1..Len(t) :
        /\ \A i \in 1..(k - 1) : i <= Len(s) /\ s[i] = t[i]
        /\ k > Len(s) \/ s[k] < t[k]

(* Two releases whose numbers are written with as many digits. *)
Alike(v, w) == v.digits = w.digits /\ ~v.rc /\ ~w.rc

(* The names of such releases are in the order of their numbers. *)
ASSUME RootsAssumption ==
    \A root \in Roots :
        /\ root \subseteq Version /\ IsFiniteSet(root)
        /\ \A v, w \in root :
             /\ v.name = w.name => v = w
             /\ Alike(v, w) /\ Before(v.name, w.name) => Before(v.numbers, w.numbers)

(* Mutant: the sort is not reversed. *)
FirstBuildTool(root) ==
    {v \in root : v.exe /\ \A w \in root : w.exe => w = v \/ Before(v.name, w.name)}

(* At most one: the first in reverse order of names that has it. *)
LatestBuildTool(root) ==
    {v \in root : v.exe /\ \A w \in root : w.exe => w = v \/ Before(w.name, v.name)}

FindApksigner ==
    /\ Calls("findApksigner")
    /\ LET home == LatestBuildTool(call.home)
           sdk  == LatestBuildTool(call.sdk)
       IN  Result(IF call.onPath THEN [where |-> "PATH", tool |-> {}]
                  ELSE IF home # {} THEN [where |-> "home", tool |-> home]
                  ELSE [where |-> IF sdk # {} THEN "sdk" ELSE "nowhere", tool |-> sdk])

-----------------------------------------------------------------------------
(* sink.Fanout.OnArtifact: how many sinks were called, and the error.      *)

(* Mutant: a later sink's success hides the error. *)
CallEvery(st, ok) == [called |-> st.called + 1, ok |-> ok]

CallSink(st, ok) ==
    IF st.ok THEN [called |-> st.called + 1, ok |-> ok] ELSE st

NoneCalled == [called |-> 0, ok |-> TRUE]

CallSinks(sinks) ==
    LET after[i \in 0..Len(sinks)] ==
            IF i = 0 THEN NoneCalled ELSE CallSink(after[i - 1], sinks[i])
    IN  after[Len(sinks)]

OnArtifact ==
    /\ Calls("OnArtifact")
    /\ Result(CallSinks(call.sinks))

-----------------------------------------------------------------------------

Init ==
    /\ answer = << >>
    /\ \/ call \in [fn : {"parseVersionInfo"}, pkg : {1}, dump : Dumps]
       \/ call \in [fn : {"IsConnected"}, lines : Listings, serial : Serials,
                    named : BOOLEAN]
       \/ call \in [fn : {"verifyAPKSignature"}, pin : Pins, digest : Digests,
                    found : BOOLEAN, verified : BOOLEAN]
       \/ call \in [fn : {"findApksigner"}, onPath : BOOLEAN, home : Roots, sdk : Roots]
       \/ call \in [fn : {"OnArtifact"}, sinks : Outcomes]

Next ==
    \/ ParseVersionInfo \/ IsConnected \/ VerifyAPKSignature \/ FindApksigner
    \/ OnArtifact

Spec == Init /\ [][Next]_vars

-----------------------------------------------------------------------------
(* Properties *)

Answered(fn) == call.fn = fn /\ answer # << >>
Answer == answer[1]

(* The lines of the first section of a package, up to the next header. *)
HeaderOf(dump, pkg) == {i \in DOMAIN dump : dump[i] = [kind |-> "header", value |-> pkg]}
FirstSection(dump, pkg) ==
    LET h == CHOOSE i \in HeaderOf(dump, pkg) : \A j \in HeaderOf(dump, pkg) : i <= j
    IN  {i \in DOMAIN dump : i > h /\ \A j \in (h + 1)..i : dump[j].kind # "header"}

Values(dump, lines, k) == {dump[i].value : i \in {j \in lines : dump[j].kind = k}}

(***************************************************************************)
(* parseVersionInfo answers with the version of the package asked for: if  *)
(* its first section gives one code and a name, that code, whatever        *)
(* sections come before and after (dumpsys lists other packages, and the   *)
(* system image's own older copy of an updated one); without a section,    *)
(* none.                                                                   *)
(***************************************************************************)
VersionOfPackage ==
    Answered("parseVersionInfo") =>
        LET section == FirstSection(call.dump, call.pkg)
            codes   == Values(call.dump, section, "code")
            names   == Values(call.dump, section, "name")
            odd     == \E i \in DOMAIN call.dump :
                           call.dump[i].kind \in {"junk", "empty", "long"}
        IN  IF HeaderOf(call.dump, call.pkg) = {} THEN Answer.error = "not installed"
            ELSE \A c \in codes :
                   codes = {c} /\ c # 0 /\ 0 \notin names /\ names # {} /\ ~odd
                     => Answer = [error |-> "", code |-> c]

(***************************************************************************)
(* IsConnected is true of the emulators that are listed as ready, if no    *)
(* other serial begins like the one asked for and the host's name does not *)
(* contain "device".                                                       *)
(***************************************************************************)
ConnectedAsListed ==
    Answered("IsConnected") /\ ~call.named
    /\ (\A line \in call.lines : IsPrefix(call.serial, line.serial)
                                   => line.serial = call.serial)
    => (Answer <=> [serial |-> call.serial, state |-> "device"] \in call.lines)

(***************************************************************************)
(* "Every APK pulled from an emulator is verified" (README.md:498): an APK *)
(* is accepted exactly if apksigner ran, accepted it, and printed the      *)
(* digest of the pin, however the pin is written: letter case, colons and  *)
(* spaces around it make no difference, and no other pin matches.          *)
(***************************************************************************)
AcceptedAsPinned ==
    Answered("verifyAPKSignature") =>
        LET same == ToLower(Without(call.pin, {":", " "}))
        IN  /\ Answer = "signed" =>
                 call.found /\ call.verified /\ ToLower(call.digest) = same
            /\ /\ Answer \notin {"invalid pin", "signed"}
               /\ call.found /\ call.verified
               => ToLower(call.digest) # same

(***************************************************************************)
(* findApksigner prefers PATH, then ANDROID_HOME, then the default         *)
(* directory, and a version without the executable never hides one that    *)
(* has it.  Of those that have it the newest is taken if all are releases  *)
(* whose numbers are written with as many digits.  "For semver-named       *)
(* directories ... this gives the newest version first" (signing.go:101)   *)
(* says so of all, and is wrong of 9.0.0 and 34.0.0, of 34.0.9 and         *)
(* 34.0.10, and of 35.0.0-rc4 and 35.0.0: the string order has the older   *)
(* of each pair first.                                                     *)
(***************************************************************************)
NewestTool ==
    Answered("findApksigner") =>
        LET with(root) == {v \in root : v.exe}
            best(root) ==
                \E v \in with(root) :
                    /\ Answer.tool = {v}
                    /\ (\A u, w \in with(root) : Alike(u, w))
                         => \A w \in with(root) : w = v \/ Before(w.numbers, v.numbers)
        IN  /\ Answer.where = "PATH" <=> call.onPath
            /\ Answer.where = "home" => best(call.home)
            /\ Answer.where = "sdk" => with(call.home) = {} /\ best(call.sdk)
            /\ Answer.where = "nowhere" => with(call.home \cup call.sdk) = {}

(***************************************************************************)
(* "The first error aborts the chain and is returned; subsequent sinks are *)
(* not called" (sink.go:31): nil means that every sink has the artifact.   *)
(***************************************************************************)
FanoutDelivers ==
    Answered("OnArtifact") =>
        LET r == Answer IN
        /\ r.ok <=> \A i \in DOMAIN call.sinks : call.sinks[i]
        /\ r.ok => r.called = Len(call.sinks)
        /\ \A i \in 1..(r.called - 1) : call.sinks[i]
=============================================================================
