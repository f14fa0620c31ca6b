------------------------------ MODULE PackInventory ------------------------------
(***************************************************************************)
(* The inventory of a runtime pack and its host pack that commands keep    *)
(* beside the global packages (runtime_pack.rs, locate_pack and            *)
(* load_or_build_pack_inventory).  Commands in several processes read,     *)
(* discard, build and publish the same files, while packs are repaired or  *)
(* removed under them; a command may be killed and the machine may lose    *)
(* what was not on stable storage.                                         *)
(***************************************************************************)
EXTENDS Integers

CONSTANTS
    Calls,          \* commands that plan runtime packs
    Roots,          \* directories a pack may be in
    Folders,        \* global package folders, each with its inventories
    MaxStamp,       \* bound of the exploration: how often a pack is replaced
    Absent, Torn    \* no file; a file whose checksum is wrong

Stamps == 0..MaxStamp

\* Where a pack may be: with the SDK, restored; those of them that are in Roots.
CandidateLists == UNION {[1..n -> Roots] : n \in 0..2}

Apphosts == {"apphost", "apphost.exe"}

ASSUME PackInventoryAssumption ==
    /\ MaxStamp \in Nat
    /\ Roots # {} /\ Folders # {}
    /\ Absent # Torn

\* What the fingerprint has of the packs, besides the names of everything selected:
\* the paths, and the size and time of what delimits a generation of each.
Prints == [runtime : Roots, host : Roots, assets : Stamps, apphost : Stamps]

\* A runtime pack's assets and a host pack's apphost, by the generations they had when
\* they were read, and the apphost's name.
Inventories == [assets : Stamps, apphost : Stamps, name : Apphosts]

ASSUME InventoriesAssumption == Inventories \cap {Absent, Torn} = {}

VARIABLES
    packs,          \* per directory: its generation, whether it is there and complete
    entries,        \* per folder and fingerprint: the inventory file
    calls           \* per command: where it is, what it has read, what it answers

vars == <<packs, entries, calls>>

States == [stamp : Stamps, present : BOOLEAN, whole : BOOLEAN, name : Apphosts]

Idle == [at |-> "locate",
         folder |-> CHOOSE folder \in Folders : TRUE,
         since |-> [root \in Roots |-> 0],
         printed |-> FALSE,
         print |-> CHOOSE print \in Prints : TRUE,
         inventory |-> CHOOSE inventory \in Inventories : TRUE]

Init ==
    /\ packs \in [Roots -> States]
    /\ entries = [folder \in Folders |-> [print \in Prints |-> Absent]]
    /\ calls = [c \in Calls |-> Idle]

At(c, place) == calls[c].at = place
Usable(root) == packs[root].present /\ packs[root].whole
Runtime(c) == calls[c].print.runtime
Host(c) == calls[c].print.host

Moved(c, place) == calls' = [calls EXCEPT ![c].at = place]

FirstPresent(candidates) ==
    candidates[CHOOSE i \in DOMAIN candidates :
        /\ packs[candidates[i]].present
        /\ \A j \in 1..(i - 1) : ~packs[candidates[j]].present]

AnyPresent(candidates) == \E i \in DOMAIN candidates : packs[candidates[i]].present

(***************************************************************************)
(* A command                                                               *)
(***************************************************************************)

Located(c, runtimes, hosts) == [calls[c].print EXCEPT !.runtime = FirstPresent(runtimes),
                                                      !.host = FirstPresent(hosts)]

\* The installed pack, else the restored one, of each kind; one is missing.
Locate(c, folder, runtimes, hosts) ==
    /\ At(c, "locate")
    /\ IF AnyPresent(runtimes) /\ AnyPresent(hosts)
       THEN calls' = [calls EXCEPT
                ![c].at = "assets",
                ![c].folder = folder,
                ![c].since = [root \in Roots |-> packs[root].stamp],
                ![c].printed = TRUE,
                ![c].print = Located(c, runtimes, hosts)]
       ELSE Moved(c, "missing")
    /\ UNCHANGED <<packs, entries>>

\* The mutant's bug: the generation of the host pack is left out.
PrintedApphost_Unstamped(root) == 0

PrintedApphost(root) == packs[root].stamp

\* The fingerprint is taken before anything is read, and part by part.  Without one,
\* when a file of it is not there, the inventory is built and not kept.
PrintAssets(c) ==
    /\ At(c, "assets")
    /\ calls' = IF packs[Runtime(c)].present
                THEN [calls EXCEPT ![c].at = "apphost",
                                   ![c].print.assets = packs[Runtime(c)].stamp]
                ELSE [calls EXCEPT ![c].at = "build", ![c].printed = FALSE]
    /\ UNCHANGED <<packs, entries>>

PrintApphost(c) ==
    /\ At(c, "apphost")
    /\ calls' = IF packs[Host(c)].present
                THEN [calls EXCEPT ![c].at = "read",
                                   ![c].print.apphost = PrintedApphost(Host(c))]
                ELSE [calls EXCEPT ![c].at = "build", ![c].printed = FALSE]
    /\ UNCHANGED <<packs, entries>>

Entry(c) == entries[calls[c].folder][calls[c].print]

\* The mutant's bug: the checksum is not looked at; a torn file decodes as anything.
Decoded_Unchecked(entry) == IF entry = Torn THEN Inventories ELSE {entry} \ {Absent}

\* What a file may be decoded as: itself, nothing when it is torn.
Decoded(entry) == {entry} \ {Absent, Torn}

Read(c) ==
    /\ At(c, "read")
    /\ \/ Entry(c) = Absent /\ Moved(c, "build")
       \/ Entry(c) # Absent /\ Decoded(Entry(c)) = {} /\ Moved(c, "discard")
       \/ \E inventory \in Decoded(Entry(c)) :
             calls' = [calls EXCEPT ![c].at = "check", ![c].inventory = inventory]
    /\ UNCHANGED <<packs, entries>>

\* An entry serves while the apphost it names is a file.
Check(c) ==
    /\ At(c, "check")
    /\ IF Usable(Host(c)) /\ packs[Host(c)].name = calls[c].inventory.name
       THEN Moved(c, "planned")
       ELSE Moved(c, "discard")
    /\ UNCHANGED <<packs, entries>>

\* The removal may fail; whether the file is still the one that was read is not known.
Discard(c) ==
    /\ At(c, "discard")
    /\ entries' \in {entries, [entries EXCEPT ![calls[c].folder][calls[c].print] = Absent]}
    /\ Moved(c, "build")
    /\ UNCHANGED packs

\* The assets of the manifest, each of which must be a file.
Build(c) ==
    /\ At(c, "build")
    /\ calls' = IF Usable(Runtime(c))
                THEN [calls EXCEPT ![c].at = "find",
                                   ![c].inventory.assets = packs[Runtime(c)].stamp]
                ELSE [calls EXCEPT ![c].at = "failed"]
    /\ UNCHANGED <<packs, entries>>

FindApphostTemplate(c) ==
    /\ At(c, "find")
    /\ calls' = IF Usable(Host(c))
                THEN [calls EXCEPT ![c].at = IF calls[c].printed THEN "publish" ELSE "planned",
                                   ![c].inventory.apphost = packs[Host(c)].stamp,
                                   ![c].inventory.name = packs[Host(c)].name]
                ELSE [calls EXCEPT ![c].at = "failed"]
    /\ UNCHANGED <<packs, entries>>

\* A file that is there is kept; else a temporary one of this process is written.  No
\* failure to keep the inventory is one of the command.
Publish(c) ==
    /\ At(c, "publish")
    /\ \/ Entry(c) = Absent /\ Moved(c, "rename")
       \/ Moved(c, "planned")
    /\ UNCHANGED <<packs, entries>>

\* The mutant's bug: the inventory is kept under the fingerprint of the packs as they
\* are by now.
Key_AsOfNow(c) == [calls[c].print EXCEPT !.assets = packs[Runtime(c)].stamp,
                                         !.apphost = packs[Host(c)].stamp]

Key(c) == calls[c].print

\* The rename replaces what is there by now, or fails.
Rename(c) ==
    /\ At(c, "rename")
    /\ entries' \in {entries,
                     [entries EXCEPT ![calls[c].folder][Key(c)] = calls[c].inventory]}
    /\ Moved(c, "planned")
    /\ UNCHANGED packs

(***************************************************************************)
(* The environment                                                         *)
(***************************************************************************)

Ended(c) == calls[c].at \in {"planned", "failed", "missing", "dead"}

Crash(c) ==
    /\ ~Ended(c)
    /\ Moved(c, "dead")
    /\ UNCHANGED <<packs, entries>>

\* A pack is replaced, repaired, damaged or removed: its manifest, native directory or
\* completion marker is written anew.
Replace(root, state) ==
    /\ packs[root].stamp < MaxStamp
    /\ state.stamp = packs[root].stamp + 1
    /\ packs' = [packs EXCEPT ![root] = state]
    /\ UNCHANGED <<entries, calls>>

\* No inventory is forced to stable storage before it is renamed: after a loss of power
\* a file may be torn.
LosePower(folder, print) ==
    /\ entries[folder][print] # Absent
    /\ entries' = [entries EXCEPT ![folder][print] = Torn]
    /\ calls' = [c \in Calls |-> IF Ended(c) \/ At(c, "locate")
                                 THEN calls[c]
                                 ELSE [calls[c] EXCEPT !.at = "dead"]]
    /\ UNCHANGED packs

Step(c) ==
    \/ PrintAssets(c) \/ PrintApphost(c) \/ Read(c) \/ Check(c) \/ Discard(c)
    \/ Build(c) \/ FindApphostTemplate(c) \/ Publish(c) \/ Rename(c)

Environment ==
    \/ \E c \in Calls : Crash(c)
    \/ \E root \in Roots, state \in States : Replace(root, state)
    \/ \E folder \in Folders, print \in Prints : LosePower(folder, print)

Next ==
    \/ \E c \in Calls : Step(c)
    \/ \E c \in Calls, folder \in Folders, runtimes, hosts \in CandidateLists :
          Locate(c, folder, runtimes, hosts)
    \/ Environment

Spec == Init /\ [][Next]_vars

(***************************************************************************)
(* What the inventories promise                                            *)
(***************************************************************************)

\* The fingerprint a command would take now is that of the packs as they are.
IsCurrent(print) == /\ print.assets = packs[print.runtime].stamp
                    /\ print.apphost = packs[print.host].stamp

\* An inventory file that would serve a command that starts now tells what the command
\* would find in the packs: whoever built it, and whatever happened to the packs while
\* it was built (load_or_build_pack_inventory, pack_inventory_fingerprint).
InventoriesTrue ==
    \A folder \in Folders, print \in Prints :
       LET entry == entries[folder][print]
       IN  entry \notin {Absent, Torn} /\ IsCurrent(print) =>
              /\ entry.assets = print.assets
              /\ entry.apphost = print.apphost
              /\ entry.name = packs[print.host].name
              /\ Usable(print.runtime) /\ Usable(print.host)

\* What a command plans with was in the packs at some time after it located them, also
\* when another command read it there, and a command fails only if one of its packs is,
\* or has come to be, other than whole: no inventory file fails it
\* (docs/sdk-pack-inventory-cache.md: a failure of the cache "never turns a cache failure
\* into a build failure").
PlansFresh ==
    \A c \in Calls :
       LET call == calls[c]
       IN  /\ At(c, "planned") => /\ call.since[Runtime(c)] <= call.inventory.assets
                                  /\ call.since[Host(c)] <= call.inventory.apphost
           /\ At(c, "failed") => \E root \in {Runtime(c), Host(c)} :
                                    ~Usable(root) \/ call.since[root] < packs[root].stamp
=============================================================================
