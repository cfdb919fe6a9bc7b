---------------------------- MODULE RegistryGuard ----------------------------
(***************************************************************************)
(* What context_compaction/claude_registry.py accepts of the registry file *)
(* of Claude Code, as operators: the file is the host's, the guard only    *)
(* reads it.  The protected part (every top-level field but the startup    *)
(* counter, and the projects but the target) is the set of the Fields that *)
(* differ from the first registry; hashes stand for their values.          *)
(***************************************************************************)
EXTENDS Integers

CONSTANTS
    Fields,         \* protected fields that may change
    MaxStartups     \* bound: startups counted in the registry

ASSUME RegistryAssumption == MaxStartups \in Nat

\* How the target project is entered; "wrong" is untrusted, under another
\* spelling of its path, or twice.
Entries == {"absent", "trusted", "wrong"}

\* A torn registry cannot be parsed: its rewriting is under way.
Registries == [torn : BOOLEAN, startups : 0..MaxStartups, target : Entries,
               changed : SUBSET Fields]

FirstRegistry == [torn |-> FALSE, startups |-> 0, target |-> "absent", changed |-> {}]

\* capture: the target must not be there yet.
Capturable(r) == ~r.torn /\ r.target = "absent"

Drifted(base, r) == r.changed # base.changed

\* Faulty variant: the protected fields are only compared in the end.
AcceptsDrift(base, r, final) ==
    /\ ~r.torn
    /\ r.target \in (IF final THEN {"trusted"} ELSE {"absent", "trusted"})
    /\ r.startups - base.startups \in (IF final THEN {1} ELSE {0, 1})
    /\ final => ~Drifted(base, r)

\* validate_current: while the host runs, it may have counted its startup and
\* entered the target, or not yet; in the end both must have happened.
Accepts(base, r, final) ==
    /\ ~r.torn
    /\ r.target \in (IF final THEN {"trusted"} ELSE {"absent", "trusted"})
    /\ r.startups - base.startups \in (IF final THEN {1} ELSE {0, 1})
    /\ ~Drifted(base, r)
=============================================================================
