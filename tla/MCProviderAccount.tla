-------------------------- MODULE MCProviderAccount --------------------------
(* Small instances of ProviderAccount: what an account starts as and is    *)
(* asked to do.                                                            *)
EXTENDS ProviderAccount

Agenda(from, ops) == [from |-> from, ops |-> ops]

FirstConnect == Agenda("draft", [o \in {"submit", "probe"} |-> 2])
Rotation == Agenda("active", [replace |-> 1, probe |-> 2, disable |-> 1])
Journey == Agenda("active", [reauthenticate |-> 1, replace |-> 1, poll |-> 1, probe |-> 1])
Operator == Agenda("active", [disable |-> 1, enable |-> 1, probe |-> 1, replace |-> 1])
Recovery == Agenda("cooling", [probe |-> 3, disable |-> 1, enable |-> 1])
Connect == Agenda("draft", [connect |-> 1, poll |-> 2, submit |-> 1])
Removal == Agenda("active", [delete |-> 2, replace |-> 1, probe |-> 1])

AllAgendas ==
    {FirstConnect, Rotation, Journey, Operator, Recovery, Connect, Removal}

\* For the runs that look for one disagreement.
JustConnect == {Agenda("draft", [submit |-> 1])}
Overtaken == {Agenda("active", [replace |-> 1, probe |-> 2])}
JustProbe == {Agenda("active", [probe |-> 1])}

Symmetry == Permutations(Handlers)
=============================================================================
