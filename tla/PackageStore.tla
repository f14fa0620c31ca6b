------------------------------ MODULE PackageStore ------------------------------
(***************************************************************************)
(* What the global package cache promises for one package version, whoever *)
(* shares it: the version is stored once and never replaced, and a call is *)
(* answered once, with what is stored, with what a fallback folder holds,  *)
(* or with an error.  Nothing half-written is ever seen.                   *)
(***************************************************************************)
CONSTANTS
    Calls,          \* the calls that ask for the package version
    Archives,       \* the archives that claim to be this version
    Missing         \* no archive

VARIABLES
    stored,         \* the archive in the cache, or Missing
    elsewhere,      \* the archive in a fallback folder, or Missing
    answer          \* per call: the answer it was given

Answers == [status : {"none", "error", "cache", "fallback"}, archive : Archives \cup {Missing}]
NoAnswer == [status |-> "none", archive |-> Missing]

Init ==
    /\ stored \in Archives \cup {Missing}
    /\ elsewhere \in Archives \cup {Missing}
    /\ answer = [r \in Calls |-> NoAnswer]

Publish ==
    /\ stored = Missing
    /\ stored' \in Archives
    /\ UNCHANGED <<elsewhere, answer>>

Give(r, status, archive) ==
    /\ answer[r] = NoAnswer
    /\ answer' = [answer EXCEPT ![r] = [status |-> status, archive |-> archive]]
    /\ UNCHANGED <<stored, elsewhere>>

Answer(r) ==
    \/ Give(r, "error", Missing)
    \/ stored # Missing /\ Give(r, "cache", stored)
    \/ elsewhere # Missing /\ Give(r, "fallback", elsewhere)

Next == Publish \/ \E r \in Calls : Answer(r)

Spec == Init /\ [][Next]_<<stored, elsewhere, answer>>
=============================================================================
