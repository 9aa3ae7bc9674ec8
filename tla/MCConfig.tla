------------------------------ MODULE MCConfig ------------------------------
(***************************************************************************)
(* Instances of Config for TLC: files with one emulator, with two, with    *)
(* the two in another order and another ABI for one of them, on another    *)
(* host, and files that validate must reject.                              *)
(***************************************************************************)
EXTENDS Config

Yaml(host, emulators, rest) ==
    [host |-> host, emulators |-> emulators, rest |-> rest]

x86(port) == [port |-> port, abi |-> "x86_64"]
arm(port) == [port |-> port, abi |-> "arm64-v8a"]

One     == Yaml("a", <<x86(5555)>>, TRUE)
Arms    == Yaml("a", <<arm(5555), arm(5557)>>, TRUE)
Two     == Yaml("a", <<arm(5557), x86(5555)>>, TRUE)
Moved   == Yaml("b", <<x86(5555)>>, TRUE)
Twice   == Yaml("a", <<x86(5555), arm(5555)>>, TRUE)
Unknown == Yaml("a", <<[port |-> 5555, abi |-> "mips"]>>, TRUE)
Broken  == Yaml("a", <<x86(5555)>>, FALSE)

Files == {Arms, Two, Moved, Twice, Unknown}
ThreeFiles == {One, Two, Broken}
=============================================================================
