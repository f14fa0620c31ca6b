--------------------------- MODULE RuntimePacksProofs ---------------------------
(***************************************************************************)
(* Proofs about the plan of runtime packs: what inventories say of packs   *)
(* that come and go, and which SDK, runtime identifiers and frameworks a   *)
(* command selects.  The selections are what their operators make of a     *)
(* world that does not change: most of the work is in lemmas about them.   *)
(***************************************************************************)
EXTENDS ProjectSelections, FiniteSetTheorems, WellFoundedInduction, TLAPS

(***************************************************************************)
(* Pack inventories                                                        *)
(***************************************************************************)

Places == {"locate", "assets", "apphost", "read", "check", "discard", "build", "find",
           "publish", "rename", "planned", "failed", "missing", "dead"}

CallStates == [at : Places, folder : Folders, since : [Roots -> Stamps], printed : BOOLEAN,
               print : Prints, inventory : Inventories]

TypeOK ==
    /\ packs \in [Roots -> States]
    /\ entries \in [Folders -> [Prints -> Inventories \cup {Absent, Torn}]]
    /\ calls \in [Calls -> CallStates]

\* An inventory is of generations no older than its fingerprint, and if one of them is
\* still there, so is what the inventory names.
Sound(print, inventory) ==
    /\ print.assets <= inventory.assets /\ inventory.assets <= packs[print.runtime].stamp
    /\ print.apphost <= inventory.apphost /\ inventory.apphost <= packs[print.host].stamp
    /\ inventory.assets = packs[print.runtime].stamp => Usable(print.runtime)
    /\ inventory.apphost = packs[print.host].stamp =>
          Usable(print.host) /\ packs[print.host].name = inventory.name

EntriesSound ==
    \A folder \in Folders, print \in Prints :
       entries[folder][print] \notin {Absent, Torn} => Sound(print, entries[folder][print])

\* What a call has of a pack is no older than the pack was when it was located.
AssetsPrinted(call) ==
    /\ call.since[call.print.runtime] <= call.print.assets
    /\ call.print.assets <= packs[call.print.runtime].stamp
ApphostPrinted(call) ==
    /\ call.since[call.print.host] <= call.print.apphost
    /\ call.print.apphost <= packs[call.print.host].stamp
AssetsRead(call) ==
    /\ call.since[call.print.runtime] <= call.inventory.assets
    /\ call.inventory.assets <= packs[call.print.runtime].stamp
    /\ call.printed => call.print.assets <= call.inventory.assets
    /\ call.inventory.assets = packs[call.print.runtime].stamp => Usable(call.print.runtime)
Excused(call) ==
    \E root \in {call.print.runtime, call.print.host} :
       ~Usable(root) \/ call.since[root] < packs[root].stamp

\* What is known of a call at each place.
Claims(call, place) ==
    /\ place \in {"assets", "apphost", "read", "check", "discard", "publish", "rename"} =>
          call.printed
    /\ place = "apphost" => AssetsPrinted(call)
    /\ \/ place \in {"read", "check", "discard", "publish", "rename"}
       \/ place \in {"build", "find"} /\ call.printed
       => AssetsPrinted(call) /\ ApphostPrinted(call)
    /\ place \in {"check", "publish", "rename"} => Sound(call.print, call.inventory)
    /\ place = "find" => AssetsRead(call)
    /\ place = "planned" => /\ call.since[call.print.runtime] <= call.inventory.assets
                            /\ call.since[call.print.host] <= call.inventory.apphost
    /\ place = "failed" => Excused(call)

CallSound(call) ==
    /\ \A root \in Roots : call.since[root] <= packs[root].stamp
    /\ Claims(call, call.at)

IInv == TypeOK /\ EntriesSound /\ \A c \in Calls : CallSound(calls[c])

-------------------------------------------------------------------------------

LEMMA CandidateFacts ==
    ASSUME TypeOK, NEW candidates \in CandidateLists, AnyPresent(candidates)
    PROVE  FirstPresent(candidates) \in Roots
  <1>1. PICK n \in 0..2 : candidates \in [1..n -> Roots]
    BY DEF CandidateLists
  <1>2. PICK i \in 1..n : packs[candidates[i]].present
    BY <1>1 DEF AnyPresent
  <1>3. \E k \in DOMAIN candidates : /\ packs[candidates[k]].present
                                     /\ \A j \in 1..(k - 1) : ~packs[candidates[j]].present
    <2>1. CASE 1 \in 1..n /\ packs[candidates[1]].present
      BY <1>1, <2>1
    <2>2. CASE ~(1 \in 1..n /\ packs[candidates[1]].present)
      <3>1. i = 2 /\ n = 2
        BY <1>1, <1>2, <2>2
      <3> QED
        BY <1>1, <1>2, <2>2, <3>1
    <2> QED
      BY <2>1, <2>2
  <1> QED
    BY <1>1, <1>3 DEF FirstPresent

LEMMA UpdateFacts ==
    ASSUME NEW A, NEW B, NEW V, NEW f \in [A -> [B -> V]], NEW a \in A, NEW b \in B, NEW v \in V
    PROVE  /\ [f EXCEPT ![a][b] = v] \in [A -> [B -> V]]
           /\ \A x \in A, y \in B :
                 \/ [f EXCEPT ![a][b] = v][x][y] = f[x][y]
                 \/ x = a /\ y = b /\ [f EXCEPT ![a][b] = v][x][y] = v
  <1>1. \A x \in A : f[x] \in [B -> V]
    OBVIOUS
  <1>2. [f[a] EXCEPT ![b] = v] \in [B -> V]
    BY <1>1
  <1> QED
    BY <1>1, <1>2

\* The assumptions on the constants, as the provers need them.
LEMMA ConstantFacts ==
    /\ Stamps \subseteq Int /\ 0 \in Stamps
    /\ \E print \in Prints : TRUE
    /\ \E inventory \in Inventories : TRUE
    /\ Idle \in CallStates
    /\ Absent \notin Inventories /\ Torn \notin Inventories
  <1>1. MaxStamp \in Nat /\ Roots # {} /\ Folders # {}
    BY PackInventoryAssumption
  <1>2. Stamps \subseteq Int /\ 0 \in Stamps
    BY <1>1 DEF Stamps
  <1>3. PICK root \in Roots : TRUE
    BY <1>1
  <1>4. [runtime |-> root, host |-> root, assets |-> 0, apphost |-> 0] \in Prints
    BY <1>2, <1>3 DEF Prints
  <1>5. [assets |-> 0, apphost |-> 0, name |-> "apphost"] \in Inventories
    BY <1>2 DEF Inventories, Apphosts
  <1>6. /\ (CHOOSE folder \in Folders : TRUE) \in Folders
        /\ (CHOOSE print \in Prints : TRUE) \in Prints
        /\ (CHOOSE inventory \in Inventories : TRUE) \in Inventories
    BY <1>1, <1>4, <1>5
  <1>7. [r \in Roots |-> 0] \in [Roots -> Stamps]
    BY <1>2
  <1>8. Idle \in CallStates
    BY <1>6, <1>7 DEF Idle, CallStates, Places
  <1> QED
    BY <1>2, <1>4, <1>5, <1>8, InventoriesAssumption

LEMMA InitIInv == Init => IInv
  <1> SUFFICES ASSUME Init PROVE IInv
    OBVIOUS
  <1>1. TypeOK
    BY ConstantFacts DEF Init, TypeOK
  <1>2. EntriesSound
    BY DEF Init, EntriesSound
  <1>3. ASSUME NEW c \in Calls PROVE CallSound(calls[c])
    <2>1. calls[c] = Idle
      BY DEF Init
    <2>2. \A root \in Roots : packs[root].stamp \in 0..MaxStamp /\ Idle.since[root] = 0
      BY DEF Init, States, Idle, Stamps
    <2> QED
      BY <2>1, <2>2, PackInventoryAssumption DEF CallSound, Claims, Idle
  <1> QED
    BY <1>1, <1>2, <1>3 DEF IInv

-------------------------------------------------------------------------------
\* Steps that leave the packs alone: every inventory kept by them must be sound.
LEMMA SamePacks ==
    ASSUME IInv, UNCHANGED packs,
           calls' \in [Calls -> CallStates], \A c \in Calls : CallSound(calls'[c]),
           entries' \in [Folders -> [Prints -> Inventories \cup {Absent, Torn}]],
           \A folder \in Folders, print \in Prints :
              \/ entries'[folder][print] \in {entries[folder][print], Absent, Torn}
              \/ Sound(print, entries'[folder][print])
    PROVE  IInv'
  <1> USE DEF IInv
  <1>1. TypeOK'
    BY DEF TypeOK
  <1>2. EntriesSound'
    BY DEF EntriesSound, Sound, Usable
  <1>3. ASSUME NEW c \in Calls PROVE CallSound(calls[c])'
    <2>1. CallSound(calls'[c])
      OBVIOUS
    <2> QED
      BY <2>1 DEF CallSound, Claims, AssetsPrinted, ApphostPrinted, AssetsRead, Excused, Sound,
                  Usable
  <1> QED
    BY <1>1, <1>2, <1>3

LEMMA SameEntries ==
    ASSUME IInv, UNCHANGED <<packs, entries>>,
           calls' \in [Calls -> CallStates], \A c \in Calls : CallSound(calls'[c])
    PROVE  IInv'
  BY SamePacks DEF IInv, TypeOK

\* A step of one call that leaves the packs and the entries alone.
LEMMA OneCall ==
    ASSUME IInv, NEW c \in Calls, UNCHANGED <<packs, entries>>,
           NEW call \in CallStates, calls' = [calls EXCEPT ![c] = call], CallSound(call)
    PROVE  IInv'
  BY SameEntries DEF IInv, TypeOK

\* What is known of the parts of a call.
LEMMA CallFacts ==
    ASSUME IInv, NEW c \in Calls
    PROVE  /\ calls[c] \in CallStates /\ CallSound(calls[c])
           /\ calls[c].print \in Prints /\ calls[c].inventory \in Inventories
           /\ Runtime(c) \in Roots /\ Host(c) \in Roots
           /\ calls[c].folder \in Folders
           /\ calls[c].since \in [Roots -> Stamps]
           /\ calls[c].printed \in BOOLEAN
           /\ \A root \in Roots : packs[root] \in States
           /\ \A root \in Roots : packs[root].stamp \in Stamps /\ calls[c].since[root] \in Stamps
           /\ Stamps \subseteq Int
  <1>1. calls[c] \in CallStates /\ CallSound(calls[c])
    BY DEF IInv, TypeOK
  <1>2. \A root \in Roots : packs[root] \in States
    BY DEF IInv, TypeOK
  <1> QED
    BY <1>1, <1>2, ConstantFacts DEF CallStates, Prints, Runtime, Host, States

\* Moving a call whose claims at the new place are those it has.
LEMMA MovedSound ==
    ASSUME IInv, NEW c \in Calls, NEW place \in Places, Moved(c, place), Claims(calls[c], place)
    PROVE  calls' \in [Calls -> CallStates] /\ \A d \in Calls : CallSound(calls'[d])
  <1> DEFINE call == [calls[c] EXCEPT !.at = place]
  <1>1. call \in CallStates /\ calls' = [calls EXCEPT ![c] = call]
    BY CallFacts DEF Moved, CallStates, IInv, TypeOK
  <1>2. /\ call.at = place /\ call.since = calls[c].since /\ call.printed = calls[c].printed
        /\ call.print = calls[c].print /\ call.inventory = calls[c].inventory
    BY CallFacts DEF CallStates
  <1>3. CallSound(call)
    <2> HIDE DEF call
    <2>1. \A root \in Roots : call.since[root] <= packs[root].stamp
      BY <1>2, CallFacts DEF CallSound
    <2>2. Claims(call, place)
      BY <1>2 DEF Claims, AssetsPrinted, ApphostPrinted, AssetsRead, Excused
    <2> QED
      BY <1>2, <2>1, <2>2 DEF CallSound
  <1> HIDE DEF call
  <1> QED
    BY <1>1, <1>3 DEF IInv, TypeOK

LEMMA MovedIInv ==
    ASSUME IInv, NEW c \in Calls, NEW place \in Places, Moved(c, place),
           UNCHANGED <<packs, entries>>, Claims(calls[c], place)
    PROVE  IInv'
  BY MovedSound, SameEntries

LEMMA LocateIInv ==
    ASSUME IInv, NEW c \in Calls, NEW folder \in Folders,
           NEW runtimes \in CandidateLists, NEW hosts \in CandidateLists,
           Locate(c, folder, runtimes, hosts)
    PROVE  IInv'
  <1>1. CASE AnyPresent(runtimes) /\ AnyPresent(hosts)
    <2> DEFINE call == [calls[c] EXCEPT !.at = "assets",
                                        !.folder = folder,
                                        !.since = [root \in Roots |-> packs[root].stamp],
                                        !.printed = TRUE,
                                        !.print = Located(c, runtimes, hosts)]
    <2>1. FirstPresent(runtimes) \in Roots /\ FirstPresent(hosts) \in Roots
      BY <1>1, CandidateFacts DEF IInv
    <2>2. calls' = [calls EXCEPT ![c] = call]
      BY <1>1, CallFacts DEF Locate, CallStates, IInv, TypeOK
    <2>3. call.print \in Prints
      <3>1. Located(c, runtimes, hosts) \in Prints
        BY <2>1, CallFacts DEF Prints, Located
      <3> QED
        BY <3>1, CallFacts DEF CallStates
    <2>4. [root \in Roots |-> packs[root].stamp] \in [Roots -> Stamps]
      BY CallFacts
    <2>5. call \in CallStates
      BY <2>3, <2>4, CallFacts DEF CallStates, Places
    <2>6. /\ call.at = "assets" /\ call.since = [root \in Roots |-> packs[root].stamp]
          /\ call.printed = TRUE
      BY CallFacts DEF CallStates
    <2>7. CallSound(call)
      <3> HIDE DEF call
      <3> QED
        BY <2>6, CallFacts DEF CallSound, Claims
    <2> QED
      BY <2>2, <2>5, <2>7, OneCall DEF Locate
  <1>2. CASE ~(AnyPresent(runtimes) /\ AnyPresent(hosts))
    <2>1. Claims(calls[c], "missing")
      BY DEF Claims
    <2> QED
      BY <1>2, <2>1, MovedIInv DEF Locate, Places
  <1> QED
    BY <1>1, <1>2

LEMMA PrintAssetsIInv ==
    ASSUME IInv, NEW c \in Calls, PrintAssets(c)
    PROVE  IInv'
  <1>1. CASE packs[Runtime(c)].present
    <2> DEFINE call == [calls[c] EXCEPT !.at = "apphost",
                                        !.print.assets = packs[Runtime(c)].stamp]
    <2>1. calls' = [calls EXCEPT ![c] = call]
      BY <1>1, CallFacts DEF PrintAssets, CallStates, IInv, TypeOK
    <2>2. call.print \in Prints
      BY CallFacts DEF Prints, CallStates
    <2>3. call \in CallStates
      BY <2>2, CallFacts DEF CallStates, Places
    <2>4. /\ call.at = "apphost" /\ call.since = calls[c].since /\ call.printed = calls[c].printed
          /\ call.print.runtime = Runtime(c) /\ call.print.assets = packs[Runtime(c)].stamp
      BY CallFacts DEF CallStates, Prints, Runtime
    <2>5. calls[c].printed
      BY CallFacts DEF CallSound, Claims, PrintAssets, At
    <2>6. AssetsPrinted(call)
      <3> HIDE DEF call
      <3> QED
        BY <2>4, CallFacts DEF AssetsPrinted, CallSound
    <2>7. CallSound(call)
      <3> HIDE DEF call
      <3> QED
        BY <2>4, <2>5, <2>6, CallFacts DEF CallSound, Claims
    <2> QED
      BY <2>1, <2>3, <2>7, OneCall DEF PrintAssets
  <1>2. CASE ~packs[Runtime(c)].present
    <2> DEFINE call == [calls[c] EXCEPT !.at = "build", !.printed = FALSE]
    <2>1. calls' = [calls EXCEPT ![c] = call]
      BY <1>2, CallFacts DEF PrintAssets, CallStates, IInv, TypeOK
    <2>2. call \in CallStates
      BY CallFacts DEF CallStates, Places
    <2>3. call.at = "build" /\ call.since = calls[c].since /\ call.printed = FALSE
      BY CallFacts DEF CallStates
    <2>4. CallSound(call)
      <3> HIDE DEF call
      <3> QED
        BY <2>3, CallFacts DEF CallSound, Claims
    <2> QED
      BY <2>1, <2>2, <2>4, OneCall DEF PrintAssets
  <1> QED
    BY <1>1, <1>2

LEMMA PrintApphostIInv ==
    ASSUME IInv, NEW c \in Calls, PrintApphost(c)
    PROVE  IInv'
  <1>1. AssetsPrinted(calls[c]) /\ calls[c].printed
    BY CallFacts DEF CallSound, Claims, PrintApphost, At
  <1>2. CASE packs[Host(c)].present
    <2> DEFINE call == [calls[c] EXCEPT !.at = "read",
                                        !.print.apphost = PrintedApphost(Host(c))]
    <2>1. calls' = [calls EXCEPT ![c] = call]
      BY <1>2, CallFacts DEF PrintApphost, CallStates, IInv, TypeOK
    <2>2. call.print \in Prints
      BY CallFacts DEF Prints, CallStates, PrintedApphost
    <2>3. call \in CallStates
      BY <2>2, CallFacts DEF CallStates, Places
    <2>4. /\ call.at = "read" /\ call.since = calls[c].since /\ call.printed = calls[c].printed
          /\ call.print.runtime = Runtime(c) /\ call.print.assets = calls[c].print.assets
          /\ call.print.host = Host(c) /\ call.print.apphost = packs[Host(c)].stamp
      BY CallFacts DEF CallStates, Prints, Runtime, Host, PrintedApphost
    <2>5. AssetsPrinted(call) /\ ApphostPrinted(call)
      <3> HIDE DEF call
      <3> QED
        BY <1>1, <2>4, CallFacts DEF AssetsPrinted, ApphostPrinted, CallSound, Runtime
    <2>6. CallSound(call)
      <3> HIDE DEF call
      <3> QED
        BY <1>1, <2>4, <2>5, CallFacts DEF CallSound, Claims
    <2> QED
      BY <2>1, <2>3, <2>6, OneCall DEF PrintApphost
  <1>3. CASE ~packs[Host(c)].present
    <2> DEFINE call == [calls[c] EXCEPT !.at = "build", !.printed = FALSE]
    <2>1. calls' = [calls EXCEPT ![c] = call]
      BY <1>3, CallFacts DEF PrintApphost, CallStates, IInv, TypeOK
    <2>2. call \in CallStates
      BY CallFacts DEF CallStates, Places
    <2>3. call.at = "build" /\ call.since = calls[c].since /\ call.printed = FALSE
      BY CallFacts DEF CallStates
    <2>4. CallSound(call)
      <3> HIDE DEF call
      <3> QED
        BY <2>3, CallFacts DEF CallSound, Claims
    <2> QED
      BY <2>1, <2>2, <2>4, OneCall DEF PrintApphost
  <1> QED
    BY <1>2, <1>3

LEMMA ReadIInv ==
    ASSUME IInv, NEW c \in Calls, Read(c)
    PROVE  IInv'
  <1>1. Claims(calls[c], "read") /\ UNCHANGED <<packs, entries>>
    BY CallFacts DEF CallSound, Read, At
  <1>2. CASE Moved(c, "build")
    BY <1>1, <1>2, MovedIInv DEF Claims, Places
  <1>3. CASE Moved(c, "discard")
    BY <1>1, <1>3, MovedIInv DEF Claims, Places
  <1>4. ASSUME NEW inventory \in Decoded(Entry(c)),
               calls' = [calls EXCEPT ![c].at = "check", ![c].inventory = inventory]
        PROVE  IInv'
    <2> DEFINE call == [calls[c] EXCEPT !.at = "check", !.inventory = inventory]
    <2>1. calls' = [calls EXCEPT ![c] = call]
      BY <1>4, CallFacts DEF CallStates, IInv, TypeOK
    <2>2. inventory = Entry(c) /\ Entry(c) \notin {Absent, Torn}
      BY <1>4 DEF Decoded
    <2>3. Sound(calls[c].print, inventory)
      BY <2>2, CallFacts DEF IInv, EntriesSound, Entry
    <2>4. inventory \in Inventories
      BY <2>2, CallFacts DEF Entry, IInv, TypeOK
    <2>5. call \in CallStates
      BY <2>4, CallFacts DEF CallStates, Places
    <2>6. /\ call.at = "check" /\ call.since = calls[c].since /\ call.printed = calls[c].printed
          /\ call.print = calls[c].print /\ call.inventory = inventory
      BY CallFacts DEF CallStates
    <2>7. CallSound(call)
      <3> HIDE DEF call
      <3> QED
        BY <1>1, <2>3, <2>6, CallFacts DEF CallSound, Claims, AssetsPrinted, ApphostPrinted
    <2> QED
      BY <1>1, <2>1, <2>5, <2>7, OneCall
  <1> QED
    BY <1>2, <1>3, <1>4 DEF Read

LEMMA CheckIInv ==
    ASSUME IInv, NEW c \in Calls, Check(c)
    PROVE  IInv'
  <1>1. Claims(calls[c], "check") /\ UNCHANGED <<packs, entries>>
    BY CallFacts DEF CallSound, Check, At
  <1>2. CASE Moved(c, "planned")
    <2>1. /\ calls[c].since[Runtime(c)] <= calls[c].inventory.assets
          /\ calls[c].since[Host(c)] <= calls[c].inventory.apphost
      <3>1. {calls[c].print.assets, calls[c].inventory.assets, calls[c].print.apphost,
             calls[c].inventory.apphost} \subseteq Stamps
        BY CallFacts DEF Prints, Inventories
      <3> QED
        BY <1>1, <3>1, CallFacts
           DEF Claims, AssetsPrinted, ApphostPrinted, Sound, Runtime, Host
    <2>2. Claims(calls[c], "planned")
      BY <2>1 DEF Claims, Runtime, Host
    <2> QED
      BY <1>1, <1>2, <2>2, MovedIInv DEF Places
  <1>3. CASE Moved(c, "discard")
    BY <1>1, <1>3, MovedIInv DEF Claims, Places
  <1> QED
    BY <1>2, <1>3 DEF Check

LEMMA DiscardIInv ==
    ASSUME IInv, NEW c \in Calls, Discard(c)
    PROVE  IInv'
  <1>1. Claims(calls[c], "discard") /\ Moved(c, "build")
    BY CallFacts DEF CallSound, Discard, At
  <1>2. calls' \in [Calls -> CallStates] /\ \A d \in Calls : CallSound(calls'[d])
    BY <1>1, MovedSound DEF Claims, Places
  <1>3. /\ entries' \in [Folders -> [Prints -> Inventories \cup {Absent, Torn}]]
        /\ \A folder \in Folders, print \in Prints :
              entries'[folder][print] \in {entries[folder][print], Absent}
    <2> DEFINE V == Inventories \cup {Absent, Torn}
               kept == [entries EXCEPT ![calls[c].folder][calls[c].print] = Absent]
    <2>1. entries \in [Folders -> [Prints -> V]] /\ Absent \in V
      BY DEF IInv, TypeOK
    <2>2. /\ kept \in [Folders -> [Prints -> V]]
          /\ \A folder \in Folders, print \in Prints :
                kept[folder][print] \in {entries[folder][print], Absent}
      <3> HIDE DEF V
      <3> QED
        BY <2>1, CallFacts, UpdateFacts
    <2>3. entries' \in {entries, kept}
      BY DEF Discard
    <2> QED
      BY <2>1, <2>2, <2>3
  <1> QED
    BY <1>2, <1>3, SamePacks DEF Discard

LEMMA BuildIInv ==
    ASSUME IInv, NEW c \in Calls, Build(c)
    PROVE  IInv'
  <1>1. Claims(calls[c], "build") /\ UNCHANGED <<packs, entries>>
    BY CallFacts DEF CallSound, Build, At
  <1>2. CASE Usable(Runtime(c))
    <2> DEFINE call == [calls[c] EXCEPT !.at = "find",
                                        !.inventory.assets = packs[Runtime(c)].stamp]
    <2>1. calls' = [calls EXCEPT ![c] = call]
      BY <1>2, CallFacts DEF Build, CallStates, IInv, TypeOK
    <2>2. call.inventory \in Inventories
      BY CallFacts DEF Inventories, CallStates
    <2>3. call \in CallStates
      BY <2>2, CallFacts DEF CallStates, Places
    <2>4. /\ call.at = "find" /\ call.since = calls[c].since /\ call.printed = calls[c].printed
          /\ call.print = calls[c].print /\ call.inventory.assets = packs[Runtime(c)].stamp
      BY CallFacts DEF CallStates, Inventories
    <2>5. AssetsRead(call)
      <3> HIDE DEF call
      <3> QED
        BY <1>1, <1>2, <2>4, CallFacts DEF AssetsRead, Claims, AssetsPrinted, CallSound, Runtime
    <2>6. CallSound(call)
      <3> HIDE DEF call
      <3> QED
        BY <1>1, <2>4, <2>5, CallFacts DEF CallSound, Claims, AssetsPrinted, ApphostPrinted
    <2> QED
      BY <1>1, <2>1, <2>3, <2>6, OneCall
  <1>3. CASE ~Usable(Runtime(c))
    <2>1. Claims(calls[c], "failed")
      BY <1>3 DEF Claims, Excused, Runtime
    <2>2. Moved(c, "failed")
      BY <1>3, CallFacts DEF Build, Moved
    <2> QED
      BY <1>1, <2>1, <2>2, MovedIInv DEF Places
  <1> QED
    BY <1>2, <1>3

LEMMA FindApphostTemplateIInv ==
    ASSUME IInv, NEW c \in Calls, FindApphostTemplate(c)
    PROVE  IInv'
  <1>1. Claims(calls[c], "find") /\ UNCHANGED <<packs, entries>>
    BY CallFacts DEF CallSound, FindApphostTemplate, At
  <1>2. CASE Usable(Host(c))
    <2> DEFINE place == IF calls[c].printed THEN "publish" ELSE "planned"
               call == [calls[c] EXCEPT !.at = place,
                                        !.inventory.apphost = packs[Host(c)].stamp,
                                        !.inventory.name = packs[Host(c)].name]
    <2>1. calls' = [calls EXCEPT ![c] = call]
      BY <1>2, CallFacts DEF FindApphostTemplate, CallStates, IInv, TypeOK
    <2>2. call.inventory \in Inventories
      BY CallFacts DEF Inventories, CallStates, States
    <2>3. call \in CallStates
      BY <2>2, CallFacts DEF CallStates, Places
    <2>4. /\ call.at = place /\ call.since = calls[c].since /\ call.printed = calls[c].printed
          /\ call.print = calls[c].print /\ call.inventory.assets = calls[c].inventory.assets
          /\ call.inventory.apphost = packs[Host(c)].stamp
          /\ call.inventory.name = packs[Host(c)].name
      BY CallFacts DEF CallStates, Inventories
    <2>5. ASSUME call.printed PROVE Sound(call.print, call.inventory)
      <3> HIDE DEF call
      <3> QED
        BY <1>1, <1>2, <2>4, <2>5, CallFacts
           DEF Sound, Claims, AssetsRead, ApphostPrinted, Runtime, Host
    <2>6. CallSound(call)
      <3>1. place \in {"publish", "planned"} /\ (place = "publish" <=> calls[c].printed)
        BY CallFacts
      <3> HIDE DEF call, place
      <3> QED
        BY <1>1, <2>4, <2>5, <3>1, CallFacts
           DEF CallSound, Claims, AssetsPrinted, ApphostPrinted, AssetsRead, Host
    <2> QED
      BY <1>1, <2>1, <2>3, <2>6, OneCall
  <1>3. CASE ~Usable(Host(c))
    <2>1. Claims(calls[c], "failed")
      BY <1>3 DEF Claims, Excused, Host
    <2>2. Moved(c, "failed")
      BY <1>3, CallFacts DEF FindApphostTemplate, Moved
    <2> QED
      BY <1>1, <2>1, <2>2, MovedIInv DEF Places
  <1> QED
    BY <1>2, <1>3

\* What a call has built is no older than when it located the packs.
LEMMA PlannedClaims ==
    ASSUME IInv, NEW c \in Calls, Claims(calls[c], "publish")
    PROVE  Claims(calls[c], "planned")
  <1>1. {calls[c].print.assets, calls[c].inventory.assets, calls[c].print.apphost,
         calls[c].inventory.apphost} \subseteq Stamps
    BY CallFacts DEF Prints, Inventories
  <1> QED
    BY <1>1, CallFacts DEF Claims, AssetsPrinted, ApphostPrinted, Sound, Runtime, Host

LEMMA PublishIInv ==
    ASSUME IInv, NEW c \in Calls, Publish(c)
    PROVE  IInv'
  <1>1. Claims(calls[c], "publish") /\ UNCHANGED <<packs, entries>>
    BY CallFacts DEF CallSound, Publish, At
  <1>2. CASE Moved(c, "rename")
    BY <1>1, <1>2, MovedIInv DEF Claims, Places
  <1>3. CASE Moved(c, "planned")
    BY <1>1, <1>3, PlannedClaims, MovedIInv DEF Places
  <1> QED
    BY <1>2, <1>3 DEF Publish

LEMMA RenameIInv ==
    ASSUME IInv, NEW c \in Calls, Rename(c)
    PROVE  IInv'
  <1>1. Claims(calls[c], "rename") /\ Claims(calls[c], "publish") /\ Moved(c, "planned")
    BY CallFacts DEF CallSound, Claims, Rename, At
  <1>2. calls' \in [Calls -> CallStates] /\ \A d \in Calls : CallSound(calls'[d])
    BY <1>1, PlannedClaims, MovedSound DEF Places
  <1>3. /\ entries' \in [Folders -> [Prints -> Inventories \cup {Absent, Torn}]]
        /\ \A folder \in Folders, print \in Prints :
              \/ entries'[folder][print] = entries[folder][print]
              \/ print = calls[c].print /\ entries'[folder][print] = calls[c].inventory
    <2> DEFINE V == Inventories \cup {Absent, Torn}
               kept == [entries EXCEPT ![calls[c].folder][calls[c].print] = calls[c].inventory]
    <2>1. entries \in [Folders -> [Prints -> V]] /\ calls[c].inventory \in V
      BY CallFacts DEF IInv, TypeOK
    <2>2. /\ kept \in [Folders -> [Prints -> V]]
          /\ \A folder \in Folders, print \in Prints :
                \/ kept[folder][print] = entries[folder][print]
                \/ print = calls[c].print /\ kept[folder][print] = calls[c].inventory
      <3> HIDE DEF V
      <3> QED
        BY <2>1, CallFacts, UpdateFacts
    <2>3. entries' \in {entries, kept}
      BY DEF Rename, Key
    <2> QED
      BY <2>1, <2>2, <2>3
  <1>4. Sound(calls[c].print, calls[c].inventory)
    BY <1>1 DEF Claims
  <1> QED
    BY <1>2, <1>3, <1>4, SamePacks DEF Rename

-------------------------------------------------------------------------------
(* The environment.                                                        *)

LEMMA CrashIInv ==
    ASSUME IInv, NEW c \in Calls, Crash(c)
    PROVE  IInv'
  BY MovedIInv DEF Crash, Claims, Places

LEMMA LosePowerIInv ==
    ASSUME IInv, NEW folder \in Folders, NEW print \in Prints, LosePower(folder, print)
    PROVE  IInv'
  <1>1. ASSUME NEW c \in Calls
        PROVE  calls'[c] \in CallStates /\ CallSound(calls'[c])
    <2> DEFINE call == [calls[c] EXCEPT !.at = "dead"]
    <2>1. calls'[c] = calls[c] \/ calls'[c] = call
      BY DEF LosePower
    <2>2. call \in CallStates /\ call.at = "dead" /\ call.since = calls[c].since
      BY CallFacts DEF CallStates, Places
    <2>3. CallSound(call)
      <3> HIDE DEF call
      <3> QED
        BY <2>2, CallFacts DEF CallSound, Claims
    <2> QED
      BY <2>1, <2>2, <2>3, CallFacts
  <1>2. calls' \in [Calls -> CallStates]
    BY <1>1 DEF LosePower
  <1>3. /\ entries' \in [Folders -> [Prints -> Inventories \cup {Absent, Torn}]]
        /\ \A f \in Folders, p \in Prints : entries'[f][p] \in {entries[f][p], Torn}
    BY DEF LosePower, IInv, TypeOK
  <1> QED
    BY <1>1, <1>2, <1>3, SamePacks DEF LosePower

\* A replaced pack has a generation that nothing has yet.
LEMMA ReplaceFacts ==
    ASSUME IInv, NEW root \in Roots, NEW state \in States, Replace(root, state)
    PROVE  /\ packs' \in [Roots -> States]
           /\ \A other \in Roots :
                 /\ packs[other].stamp \in Int /\ packs'[other].stamp \in Int
                 /\ \/ packs'[other] = packs[other]
                    \/ packs[other].stamp < packs'[other].stamp
           /\ UNCHANGED <<entries, calls>>
  <1>1. packs \in [Roots -> States]
    BY DEF IInv, TypeOK
  <1>2. \A known \in States : known.stamp \in Int
    BY ConstantFacts DEF States
  <1>3. /\ packs' = [packs EXCEPT ![root] = state] /\ state.stamp = packs[root].stamp + 1
        /\ UNCHANGED <<entries, calls>>
    BY DEF Replace
  <1>4. packs' \in [Roots -> States]
    BY <1>1, <1>3
  <1>5. \A other \in Roots : packs[other].stamp \in Int /\ packs'[other].stamp \in Int
    BY <1>1, <1>2, <1>4
  <1>6. ASSUME NEW other \in Roots
        PROVE  packs'[other] = packs[other] \/ packs[other].stamp < packs'[other].stamp
    BY <1>1, <1>3, <1>5
  <1> QED
    BY <1>3, <1>4, <1>5, <1>6

LEMMA ReplaceSound ==
    ASSUME IInv, NEW root \in Roots, NEW state \in States, Replace(root, state),
           NEW print \in Prints, NEW inventory \in Inventories, Sound(print, inventory)
    PROVE  Sound(print, inventory)'
  <1>1. print.runtime \in Roots /\ print.host \in Roots
    BY DEF Prints
  <1>2. /\ print.assets \in Int /\ print.apphost \in Int
        /\ inventory.assets \in Int /\ inventory.apphost \in Int
    BY ConstantFacts DEF Prints, Inventories
  <1>3. /\ inventory.assets <= packs'[print.runtime].stamp
        /\ inventory.assets = packs'[print.runtime].stamp =>
              packs'[print.runtime] = packs[print.runtime]
        /\ inventory.apphost <= packs'[print.host].stamp
        /\ inventory.apphost = packs'[print.host].stamp =>
              packs'[print.host] = packs[print.host]
    BY <1>1, <1>2, ReplaceFacts DEF Sound
  <1> QED
    BY <1>3 DEF Sound, Usable

LEMMA ReplaceCall ==
    ASSUME IInv, NEW root \in Roots, NEW state \in States, Replace(root, state),
           NEW call \in CallStates, CallSound(call)
    PROVE  CallSound(call)'
  <1>1. /\ call.print \in Prints /\ call.inventory \in Inventories
        /\ call.print.runtime \in Roots /\ call.print.host \in Roots
        /\ \A other \in Roots : call.since[other] \in Int
        /\ call.print.assets \in Int /\ call.print.apphost \in Int
        /\ call.inventory.assets \in Int
    BY ConstantFacts DEF CallStates, Prints, Inventories
  <1>2. \A other \in Roots : call.since[other] <= packs'[other].stamp
    BY <1>1, ReplaceFacts DEF CallSound
  <1>3. AssetsPrinted(call) => AssetsPrinted(call)'
    BY <1>1, ReplaceFacts DEF AssetsPrinted
  <1>4. ApphostPrinted(call) => ApphostPrinted(call)'
    BY <1>1, ReplaceFacts DEF ApphostPrinted
  <1>5. AssetsRead(call) => AssetsRead(call)'
    <2> SUFFICES ASSUME AssetsRead(call) PROVE AssetsRead(call)'
      OBVIOUS
    <2>1. /\ call.inventory.assets <= packs'[call.print.runtime].stamp
          /\ call.inventory.assets = packs'[call.print.runtime].stamp =>
                packs'[call.print.runtime] = packs[call.print.runtime]
      BY <1>1, ReplaceFacts DEF AssetsRead
    <2> QED
      BY <2>1 DEF AssetsRead, Usable
  <1>6. Excused(call) => Excused(call)'
    <2> SUFFICES ASSUME NEW other \in {call.print.runtime, call.print.host},
                        ~Usable(other) \/ call.since[other] < packs[other].stamp
                 PROVE  Excused(call)'
      BY DEF Excused
    <2>1. CASE packs'[other] = packs[other]
      BY <2>1 DEF Excused, Usable
    <2>2. CASE packs'[other] # packs[other]
      <3>1. call.since[other] < packs'[other].stamp
        BY <1>1, <2>2, ReplaceFacts DEF CallSound
      <3> QED
        BY <3>1 DEF Excused
    <2> QED
      BY <2>1, <2>2
  <1>7. Sound(call.print, call.inventory) => Sound(call.print, call.inventory)'
    BY <1>1, ReplaceSound
  <1> QED
    BY <1>2, <1>3, <1>4, <1>5, <1>6, <1>7 DEF CallSound, Claims

LEMMA ReplaceIInv ==
    ASSUME IInv, NEW root \in Roots, NEW state \in States, Replace(root, state)
    PROVE  IInv'
  <1>1. TypeOK'
    BY ReplaceFacts DEF IInv, TypeOK
  <1>2. ASSUME NEW folder \in Folders, NEW print \in Prints,
               entries[folder][print] \notin {Absent, Torn}
        PROVE  Sound(print, entries[folder][print])'
    <2>1. PICK inventory \in Inventories : entries[folder][print] = inventory
      BY <1>2 DEF IInv, TypeOK
    <2>2. Sound(print, inventory)
      BY <1>2, <2>1 DEF IInv, EntriesSound
    <2>3. Sound(print, inventory)'
      BY <2>2, ReplaceSound
    <2>4. entries'[folder][print] = inventory
      BY <2>1, ReplaceFacts
    <2> QED
      BY <2>3, <2>4 DEF Sound
  <1>3. EntriesSound'
    BY <1>2, ReplaceFacts DEF EntriesSound
  <1>4. ASSUME NEW c \in Calls PROVE CallSound(calls[c])'
    <2>1. PICK call \in CallStates : calls[c] = call
      BY CallFacts
    <2>2. CallSound(call)
      BY <2>1, CallFacts
    <2>3. CallSound(call)'
      BY <2>2, ReplaceCall
    <2>4. calls'[c] = call
      BY <2>1, ReplaceFacts
    <2> QED
      BY <2>3, <2>4
         DEF CallSound, Claims, AssetsPrinted, ApphostPrinted, AssetsRead, Excused, Sound, Usable
  <1> QED
    BY <1>1, <1>3, <1>4 DEF IInv

-------------------------------------------------------------------------------

LEMMA NextIInv ==
    ASSUME IInv, [Next]_vars
    PROVE  IInv'
  <1>1. CASE UNCHANGED vars
    BY <1>1, SameEntries DEF vars, IInv, TypeOK
  <1>2. ASSUME NEW c \in Calls, Step(c) PROVE IInv'
    BY <1>2, PrintAssetsIInv, PrintApphostIInv, ReadIInv, CheckIInv, DiscardIInv, BuildIInv,
       FindApphostTemplateIInv, PublishIInv, RenameIInv DEF Step
  <1>3. ASSUME NEW c \in Calls, NEW folder \in Folders, NEW runtimes \in CandidateLists,
               NEW hosts \in CandidateLists, Locate(c, folder, runtimes, hosts)
        PROVE  IInv'
    BY <1>3, LocateIInv
  <1>4. CASE Environment
    BY <1>4, CrashIInv, ReplaceIInv, LosePowerIInv DEF Environment
  <1> QED
    BY <1>1, <1>2, <1>3, <1>4 DEF Next

\* Whatever happens to the packs while commands read, build, keep and discard the
\* inventories of them, no inventory file that would serve tells of a pack what is not in
\* it (load_or_build_pack_inventory).
THEOREM InventoriesStayTrue == Spec => []InventoriesTrue
  <1>1. IInv => InventoriesTrue
    <2> SUFFICES ASSUME IInv, NEW folder \in Folders, NEW print \in Prints,
                        entries[folder][print] \notin {Absent, Torn}, IsCurrent(print)
                 PROVE  LET entry == entries[folder][print]
                        IN  /\ entry.assets = print.assets
                            /\ entry.apphost = print.apphost
                            /\ entry.name = packs[print.host].name
                            /\ Usable(print.runtime) /\ Usable(print.host)
      BY DEF InventoriesTrue
    <2>1. Sound(print, entries[folder][print])
      BY DEF IInv, EntriesSound
    <2>2. entries[folder][print] \in Inventories
      BY DEF IInv, TypeOK
    <2>3. /\ print.assets \in Int /\ print.apphost \in Int
          /\ entries[folder][print].assets \in Int /\ entries[folder][print].apphost \in Int
      BY <2>2, ConstantFacts DEF Prints, Inventories
    <2> QED
      BY <2>1, <2>3 DEF Sound, IsCurrent
  <1> QED
    BY <1>1, InitIInv, NextIInv, PTL DEF Spec

\* A command plans with what was in its packs at some time after it located them, and no
\* inventory file fails it (plan_runtime_packs).
THEOREM PlansStayFresh == Spec => []PlansFresh
  <1>1. IInv => PlansFresh
    <2> SUFFICES ASSUME IInv, NEW c \in Calls
                 PROVE  /\ At(c, "planned") =>
                              /\ calls[c].since[Runtime(c)] <= calls[c].inventory.assets
                              /\ calls[c].since[Host(c)] <= calls[c].inventory.apphost
                        /\ At(c, "failed") =>
                              \E root \in {Runtime(c), Host(c)} :
                                 ~Usable(root) \/ calls[c].since[root] < packs[root].stamp
      BY DEF PlansFresh
    <2> QED
      BY CallFacts DEF CallSound, Claims, Excused, At, Runtime, Host
  <1> QED
    BY <1>1, InitIInv, NextIInv, PTL DEF Spec


(***************************************************************************)
(* Versions                                                                *)
(***************************************************************************)

\* A strict order on a finite set that is not empty has an element below no other.
LEMMA TopmostExists ==
    ASSUME NEW S, IsFiniteSet(S), S # {}, NEW R,
           \A x \in S : <<x, x>> \notin R,
           \A x, y, z \in S : <<x, y>> \in R /\ <<y, z>> \in R => <<x, z>> \in R
    PROVE  \E x \in S : \A y \in S : <<x, y>> \notin R
  <1> DEFINE above(x) == {y \in S : <<x, y>> \in R}
             B == {above(x) : x \in S}
  <1>1. B \subseteq FiniteSubsetsOf(S) /\ B # {}
    <2>1. ASSUME NEW x \in S PROVE above(x) \in FiniteSubsetsOf(S)
      <3>1. above(x) \in SUBSET S
        OBVIOUS
      <3> QED
        BY <3>1, FS_Subset DEF FiniteSubsetsOf
    <2> HIDE DEF above
    <2>2. \A b \in B : b \in FiniteSubsetsOf(S)
      BY <2>1
    <2>3. \E x \in S : above(x) \in B
      OBVIOUS
    <2> HIDE DEF B
    <2> QED
      BY <2>2, <2>3
  <1>2. PICK b \in B : \A c \in B : <<c, b>> \notin StrictSubsetOrdering(S)
    BY <1>1, FS_StrictSubsetOrderingWellFounded, WFMin
  <1>3. PICK x \in S : b = above(x)
    OBVIOUS
  <1>4. ASSUME NEW y \in S, <<x, y>> \in R PROVE FALSE
    <2>1. above(y) \subseteq above(x) /\ y \in above(x) /\ y \notin above(y)
      BY <1>4
    <2>2. <<above(y), above(x)>> \in StrictSubsetOrdering(S)
      BY <2>1 DEF StrictSubsetOrdering
    <2> QED
      BY <1>2, <1>3, <2>2
  <1> QED
    BY <1>4

\* The order of versions, one field at a time; a prerelease precedes its release.
LEMMA BelowMeans ==
    ASSUME NEW left \in Versions, NEW right \in Versions
    PROVE  Below(left, right) <=>
              \/ left.major < right.major
              \/ left.major = right.major /\ left.minor < right.minor
              \/ /\ left.major = right.major /\ left.minor = right.minor
                 /\ left.patch < right.patch
              \/ /\ left.major = right.major /\ left.minor = right.minor
                 /\ left.patch = right.patch /\ ~left.release /\ right.release
  <1> DEFINE l == Order(left)
             r == Order(right)
  <1>1. /\ l = <<left.major, left.minor, left.patch, IF left.release THEN 1 ELSE 0>>
        /\ r = <<right.major, right.minor, right.patch, IF right.release THEN 1 ELSE 0>>
    BY DEF Order
  <1>2. DOMAIN l = {1, 2, 3, 4} /\ 1..(1 - 1) = {} /\ 1..(2 - 1) = {1}
           /\ 1..(3 - 1) = {1, 2} /\ 1..(4 - 1) = {1, 2, 3}
    BY <1>1
  <1>3. /\ l[1] = left.major /\ l[2] = left.minor /\ l[3] = left.patch
        /\ r[1] = right.major /\ r[2] = right.minor /\ r[3] = right.patch
        /\ l[4] < r[4] <=> ~left.release /\ right.release
    BY <1>1 DEF Versions
  <1> HIDE DEF l, r
  <1>4. Precedes(l, r) <=> \/ l[1] < r[1]
                           \/ l[1] = r[1] /\ l[2] < r[2]
                           \/ l[1] = r[1] /\ l[2] = r[2] /\ l[3] < r[3]
                           \/ l[1] = r[1] /\ l[2] = r[2] /\ l[3] = r[3] /\ l[4] < r[4]
    BY <1>2 DEF Precedes
  <1> QED
    BY <1>3, <1>4 DEF Below, l, r

\* The order of versions is strict and total.
LEMMA BelowOrders ==
    ASSUME NEW x \in Versions, NEW y \in Versions, NEW z \in Versions
    PROVE  /\ ~Below(x, x)
           /\ Below(x, y) /\ Below(y, z) => Below(x, z)
           /\ Below(x, y) \/ Below(y, x) \/ x = y
  <1>1. /\ x = [major |-> x.major, minor |-> x.minor, patch |-> x.patch, release |-> x.release]
        /\ y = [major |-> y.major, minor |-> y.minor, patch |-> y.patch, release |-> y.release]
        /\ x.release \in BOOLEAN /\ y.release \in BOOLEAN
    BY DEF Versions
  <1>2. /\ x.major \in Nat /\ x.minor \in Nat /\ x.patch \in Nat
        /\ y.major \in Nat /\ y.minor \in Nat /\ y.patch \in Nat
        /\ z.major \in Nat /\ z.minor \in Nat /\ z.patch \in Nat
    BY DEF Versions
  <1>3. ~Below(x, x)
    BY <1>2, BelowMeans
  <1>4. Below(x, y) /\ Below(y, z) => Below(x, z)
    BY <1>2, BelowMeans
  <1>5. Below(x, y) \/ Below(y, x) \/ x = y
    <2>1. SUFFICES ASSUME ~Below(x, y), ~Below(y, x) PROVE x = y
      OBVIOUS
    <2>2. x.major = y.major /\ x.minor = y.minor /\ x.patch = y.patch
      BY <1>2, <2>1, BelowMeans
    <2>3. x.release = y.release
      BY <1>1, <2>1, <2>2, BelowMeans
    <2> QED
      BY <1>1, <2>2, <2>3
  <1> QED
    BY <1>3, <1>4, <1>5

\* The highest of some versions is one of them and above all others.
LEMMA HighestIs ==
    ASSUME NEW versions, versions \subseteq Versions, IsFiniteSet(versions)
    PROVE  /\ versions = {} <=> Highest(versions) = NoSdk
           /\ versions # {} => /\ Highest(versions) \in versions
                               /\ \A other \in versions : ~Below(Highest(versions), other)
  <1>1. CASE versions = {}
    BY <1>1 DEF Highest
  <1>2. CASE versions # {}
    <2> DEFINE R == {pair \in versions \X versions : Below(pair[1], pair[2])}
    <2>1. \A x \in versions : <<x, x>> \notin R
      BY BelowOrders
    <2>2. \A x, y, z \in versions : <<x, y>> \in R /\ <<y, z>> \in R => <<x, z>> \in R
      BY BelowOrders
    <2>3. \E x \in versions : \A y \in versions : <<x, y>> \notin R
      <3> HIDE DEF R
      <3> QED
        BY <1>2, <2>1, <2>2, TopmostExists
    <2>4. \E x \in versions : \A y \in versions : ~Below(x, y)
      BY <2>3
    <2> QED
      BY <1>2, <2>4, VersionsAssumption DEF Highest
  <1> QED
    BY <1>1, <1>2

\* What global.json asks of a version, or nothing.
Requests == [version : Versions \cup {NoVersion}, policy : RollForwardPolicies, prerelease : BOOLEAN]

\* What a policy lets a command select from what is installed in a root.
Allowing(installed, request) == {version \in installed : Allowed(version, request)}

\* No version precedes itself.
LEMMA BelowItself ==
    ASSUME NEW x \in Versions
    PROVE  ~Below(x, x)
  BY BelowOrders

\* What a policy does with what it allows.
LEMMA SelectionByPolicy ==
    ASSUME NEW installed, installed \subseteq Versions, NEW request \in Requests
    PROVE  LET allowed == Allowing(installed, request)
               selected == SelectFromRoot(installed, request)
           IN  /\ \/ request.version = NoVersion
                  \/ request.policy \in {"disable", "latestPatch", "latestFeature", "latestMinor", "latestMajor"}
                  => selected = Highest(allowed)
               /\ request.version # NoVersion /\ request.policy = "patch" =>
                     selected = IF request.version \in allowed
                                THEN request.version
                                ELSE Highest(allowed)
               /\ request.version # NoVersion /\ request.policy = "feature" =>
                     selected = SelectNearestGroup(allowed, FeatureGroup)
               /\ request.version # NoVersion /\ request.policy = "minor" =>
                     selected = SelectNearestGroup(allowed, MinorGroup)
               /\ request.version # NoVersion /\ request.policy = "major" =>
                     selected = SelectNearestGroup(allowed, MajorGroup)
  <1> DEFINE allowed == Allowing(installed, request)
             requested == request.version
             candidates == {version \in installed : request.prerelease \/ version.release}
             policy == request.policy
  <1>1. CASE requested = NoVersion
    <2>1. allowed = candidates
      BY <1>1 DEF Allowing, Allowed
    <2> QED
      BY <1>1, <2>1 DEF SelectFromRoot
  <1>2. CASE requested # NoVersion
    <2>0. requested \in Versions
      BY <1>2 DEF Requests
    <2>1. CASE policy = "disable"
      <3>1. allowed = candidates \cap {requested}
        BY <1>2, <2>0, <2>1, BelowItself DEF Allowing, Allowed
      <3> QED
        BY <1>2, <2>1, <3>1 DEF SelectFromRoot
    <2>2. CASE policy \in {"patch", "latestPatch"}
      <3>1. allowed = {version \in candidates : AtLeast(version, requested)
                                                /\ SameFeatureBand(version, requested)}
        BY <1>2, <2>2 DEF Allowing, Allowed, AtLeast, SameFeatureBand
      <3>2. requested \in candidates <=> requested \in allowed
        BY <2>0, <3>1, BelowItself DEF AtLeast, SameFeatureBand, SameMinor, SameMajor
      <3> QED
        BY <1>2, <2>2, <3>1, <3>2 DEF SelectFromRoot
    <2>3. CASE policy \in {"feature", "latestFeature"}
      <3>1. allowed = {version \in candidates : AtLeast(version, requested)
                                                /\ SameMinor(version, requested)}
        BY <1>2, <2>3 DEF Allowing, Allowed, AtLeast
      <3> QED
        BY <1>2, <2>3, <3>1 DEF SelectFromRoot
    <2>4. CASE policy \in {"minor", "latestMinor"}
      <3>1. allowed = {version \in candidates : AtLeast(version, requested)
                                                /\ SameMajor(version, requested)}
        BY <1>2, <2>4 DEF Allowing, Allowed, AtLeast
      <3> QED
        BY <1>2, <2>4, <3>1 DEF SelectFromRoot
    <2>5. CASE policy \in {"major", "latestMajor"}
      <3>1. allowed = {version \in candidates : AtLeast(version, requested) /\ TRUE}
        BY <1>2, <2>5 DEF Allowing, Allowed, AtLeast
      <3> QED
        BY <1>2, <2>5, <3>1 DEF SelectFromRoot
    <2> QED
      BY <2>1, <2>2, <2>3, <2>4, <2>5 DEF Requests, RollForwardPolicies
  <1> QED
    BY <1>1, <1>2

(***************************************************************************)
(* The nearest group of versions                                           *)
(***************************************************************************)

\* When one version's group is lower than another's, and when both are of one group.
LEMMA GroupsMean ==
    ASSUME NEW left \in Versions, NEW right \in Versions
    PROVE  /\ FeatureBand(left) \in Int
           /\ Precedes(FeatureGroup(left), FeatureGroup(right)) <=> FeatureBand(left) < FeatureBand(right)
           /\ Precedes(MinorGroup(left), MinorGroup(right)) <=>
                 \/ left.minor < right.minor
                 \/ left.minor = right.minor /\ FeatureBand(left) < FeatureBand(right)
           /\ Precedes(MajorGroup(left), MajorGroup(right)) <=>
                 \/ left.major < right.major
                 \/ left.major = right.major /\ left.minor < right.minor
                 \/ /\ left.major = right.major /\ left.minor = right.minor
                    /\ FeatureBand(left) < FeatureBand(right)
  <1>1. 1..(1 - 1) = {} /\ 1..(2 - 1) = {1} /\ 1..(3 - 1) = {1, 2}
    OBVIOUS
  <1>2. FeatureBand(left) \in Int
    BY DEF FeatureBand, Versions
  <1>3. Precedes(FeatureGroup(left), FeatureGroup(right)) <=> FeatureBand(left) < FeatureBand(right)
    BY <1>1 DEF Precedes, FeatureGroup
  <1>4. Precedes(MinorGroup(left), MinorGroup(right)) <=>
                 \/ left.minor < right.minor
                 \/ left.minor = right.minor /\ FeatureBand(left) < FeatureBand(right)
    BY <1>1 DEF Precedes, MinorGroup
  <1>5. Precedes(MajorGroup(left), MajorGroup(right)) <=>
                 \/ left.major < right.major
                 \/ left.major = right.major /\ left.minor < right.minor
                 \/ /\ left.major = right.major /\ left.minor = right.minor
                    /\ FeatureBand(left) < FeatureBand(right)
    BY <1>1 DEF Precedes, MajorGroup
  <1> QED
    BY <1>2, <1>3, <1>4, <1>5

\* The versions of the lowest group there is, of each kind of group.
FeatureNearest(versions) ==
    {version \in versions : \A other \in versions : ~Precedes(FeatureGroup(other), FeatureGroup(version))}
MinorNearest(versions) ==
    {version \in versions : \A other \in versions : ~Precedes(MinorGroup(other), MinorGroup(version))}
MajorNearest(versions) ==
    {version \in versions : \A other \in versions : ~Precedes(MajorGroup(other), MajorGroup(version))}

\* Of some versions there are those of the lowest group, of each kind.
LEMMA NearestExists ==
    ASSUME NEW versions, versions \subseteq Versions, IsFiniteSet(versions), versions # {}
    PROVE  FeatureNearest(versions) # {} /\ MinorNearest(versions) # {} /\ MajorNearest(versions) # {}
  <1>0. /\ \A x \in versions : x.major \in Int /\ x.minor \in Int
        /\ \A x \in versions : FeatureBand(x) \in Int
    BY GroupsMean DEF Versions
  <1>1. FeatureNearest(versions) # {}
    <2> DEFINE R == {pair \in versions \X versions : Precedes(FeatureGroup(pair[2]), FeatureGroup(pair[1]))}
    <2>1. \A x, y \in versions : <<x, y>> \in R <=> FeatureBand(y) < FeatureBand(x)
      BY GroupsMean
    <2>2. \E x \in versions : \A y \in versions : <<x, y>> \notin R
      <3> HIDE DEF R
      <3> QED
        BY <1>0, <2>1, TopmostExists
    <2> QED
      BY <2>2 DEF FeatureNearest
  <1>2. MinorNearest(versions) # {}
    <2> DEFINE R == {pair \in versions \X versions : Precedes(MinorGroup(pair[2]), MinorGroup(pair[1]))}
    <2>1. \A x, y \in versions : <<x, y>> \in R <=>
              y.minor < x.minor \/ (y.minor = x.minor /\ FeatureBand(y) < FeatureBand(x))
      BY GroupsMean
    <2>2. \E x \in versions : \A y \in versions : <<x, y>> \notin R
      <3> HIDE DEF R
      <3>1. \A x, y, z \in versions : <<x, y>> \in R /\ <<y, z>> \in R => <<x, z>> \in R
        BY <1>0, <2>1
      <3>2. \A x \in versions : <<x, x>> \notin R
        BY <1>0, <2>1
      <3> QED
        BY <3>1, <3>2, TopmostExists
    <2> QED
      BY <2>2 DEF MinorNearest
  <1>3. MajorNearest(versions) # {}
    <2> DEFINE R == {pair \in versions \X versions : Precedes(MajorGroup(pair[2]), MajorGroup(pair[1]))}
    <2>1. \A x, y \in versions : <<x, y>> \in R <=>
              \/ y.major < x.major
              \/ y.major = x.major /\ y.minor < x.minor
              \/ y.major = x.major /\ y.minor = x.minor /\ FeatureBand(y) < FeatureBand(x)
      BY GroupsMean
    <2>2. \E x \in versions : \A y \in versions : <<x, y>> \notin R
      <3> HIDE DEF R
      <3>1. \A x, y, z \in versions : <<x, y>> \in R /\ <<y, z>> \in R => <<x, z>> \in R
        BY <1>0, <2>1
      <3>2. \A x \in versions : <<x, x>> \notin R
        BY <1>0, <2>1
      <3> QED
        BY <3>1, <3>2, TopmostExists
    <2> QED
      BY <2>2 DEF MajorNearest
  <1> QED
    BY <1>1, <1>2, <1>3

\* Selecting the nearest group takes the highest version of it.
LEMMA NearestAre ==
    ASSUME NEW versions
    PROVE  /\ SelectNearestGroup(versions, FeatureGroup) = Highest(FeatureNearest(versions))
           /\ SelectNearestGroup(versions, MinorGroup) = Highest(MinorNearest(versions))
           /\ SelectNearestGroup(versions, MajorGroup) = Highest(MajorNearest(versions))
  BY DEF SelectNearestGroup, FeatureNearest, MinorNearest, MajorNearest

\* A command selects from a root something its policy allows, if there is anything.
LEMMA SelectionAllowed ==
    ASSUME NEW installed, installed \subseteq Versions, IsFiniteSet(installed), NEW request \in Requests,
           request.version = NoVersion => request.policy = "latestMajor"
    PROVE  LET allowed == Allowing(installed, request)
               selected == SelectFromRoot(installed, request)
           IN  /\ selected = NoSdk <=> allowed = {}
               /\ selected # NoSdk => selected \in allowed
  <1> DEFINE allowed == Allowing(installed, request)
             selected == SelectFromRoot(installed, request)
  <1>1. allowed \subseteq Versions /\ IsFiniteSet(allowed) /\ NoSdk \notin allowed
    BY FS_Subset, VersionsAssumption DEF Allowing
  <1>2. ASSUME NEW some, some \subseteq allowed, allowed # {} => some # {}, selected = Highest(some)
        PROVE  /\ selected = NoSdk <=> allowed = {}
               /\ selected # NoSdk => selected \in allowed
    <2>1. some \subseteq Versions /\ IsFiniteSet(some)
      BY <1>1, <1>2, FS_Subset
    <2> HIDE DEF selected, allowed
    <2> QED
      BY <1>1, <1>2, <2>1, HighestIs
  <1>3. \/ selected = Highest(allowed)
        \/ selected = request.version /\ request.version \in allowed
        \/ selected \in {Highest(FeatureNearest(allowed)), Highest(MinorNearest(allowed)),
                          Highest(MajorNearest(allowed))}
    BY SelectionByPolicy, NearestAre DEF Requests, RollForwardPolicies
  <1>4. /\ FeatureNearest(allowed) \subseteq allowed
        /\ MinorNearest(allowed) \subseteq allowed
        /\ MajorNearest(allowed) \subseteq allowed
    BY DEF FeatureNearest, MinorNearest, MajorNearest
  <1> HIDE DEF selected, allowed
  <1>5. allowed # {} => /\ FeatureNearest(allowed) # {} /\ MinorNearest(allowed) # {}
                        /\ MajorNearest(allowed) # {}
    BY <1>1, NearestExists
  <1>6. /\ selected = NoSdk <=> allowed = {}
        /\ selected # NoSdk => selected \in allowed
    BY <1>1, <1>2, <1>3, <1>4, <1>5
  <1> QED
    BY <1>6 DEF selected, allowed
\* A policy that looks further than another takes what that takes, if it takes any.
LEMMA NarrowerFirst ==
    ASSUME NEW installed, installed \subseteq Versions, IsFiniteSet(installed), NEW request \in Requests,
           request.version # NoVersion
    PROVE  LET selected == SelectFromRoot(installed, request)
               Taken(policy) == SelectFromRoot(installed, [request EXCEPT !.policy = policy])
           IN  /\ request.policy = "feature" /\ Taken("patch") # NoSdk =>
                     SameFeatureBand(selected, Taken("patch"))
               /\ request.policy = "minor" /\ Taken("feature") # NoSdk => selected = Taken("feature")
               /\ request.policy = "major" /\ Taken("minor") # NoSdk => selected = Taken("minor")
  <1> DEFINE selected == SelectFromRoot(installed, request)
             requested == request.version
             allowed == Allowing(installed, request)
             Narrowed(policy) == [request EXCEPT !.policy = policy]
             Taken(policy) == SelectFromRoot(installed, Narrowed(policy))
  <1>1. requested \in Versions
    BY DEF Requests
  <1>2. ASSUME NEW policy \in RollForwardPolicies
        PROVE  /\ Narrowed(policy) \in Requests /\ Narrowed(policy).version = requested
               /\ Narrowed(policy).policy = policy
               /\ Narrowed(policy).prerelease = request.prerelease
    BY DEF Requests
  <1>3. /\ allowed \subseteq Versions /\ IsFiniteSet(allowed)
        /\ \A version \in allowed : /\ version.major \in Int /\ version.minor \in Int
                                    /\ version.patch \in Int /\ FeatureBand(version) \in Int
        /\ requested.major \in Int /\ requested.minor \in Int
        /\ requested.patch \in Int /\ FeatureBand(requested) \in Int
    BY <1>1, FS_Subset, GroupsMean DEF Allowing, Versions
  <1>4. ASSUME NEW version \in allowed
        PROVE  ~Below(version, requested)
    BY <1>4 DEF Allowing, Allowed
  <1>5. CASE request.policy = "feature" /\ Taken("patch") # NoSdk
    <2> DEFINE narrow == Allowing(installed, Narrowed("patch"))
    <2>1. Taken("patch") \in narrow
      <3>1. Narrowed("patch") \in Requests /\ Narrowed("patch").version # NoVersion
        BY <1>2 DEF RollForwardPolicies
      <3> QED
        BY <1>5, <3>1, SelectionAllowed
    <2>2. \A version : version \in narrow <=> version \in allowed /\ FeatureBand(version) = FeatureBand(requested)
      BY <1>2, <1>5 DEF Allowing, Allowed, RollForwardPolicies
    <2>3. selected = Highest(FeatureNearest(allowed))
      BY <1>5, SelectionByPolicy, NearestAre
    <2>4. FeatureNearest(allowed) # {} /\ FeatureNearest(allowed) \subseteq allowed
      BY <1>3, <2>1, <2>2, NearestExists DEF FeatureNearest
    <2>5. selected \in FeatureNearest(allowed)
      BY <1>3, <2>3, <2>4, HighestIs, FS_Subset
    <2>6. selected \in allowed /\ ~(FeatureBand(Taken("patch")) < FeatureBand(selected))
      BY <1>3, <2>1, <2>2, <2>5, GroupsMean DEF FeatureNearest
    <2>7. SameMinor(selected, requested) /\ SameMinor(Taken("patch"), requested)
      BY <1>5, <2>1, <2>2, <2>6 DEF Allowing, Allowed
    <2>8. ~(FeatureBand(selected) < FeatureBand(requested))
      <3>1. ~(selected.patch < requested.patch)
        BY <1>1, <1>3, <1>4, <2>6, <2>7, BelowMeans DEF SameMinor, SameMajor
      <3> QED
        BY <1>3, <2>6, <3>1 DEF FeatureBand
    <2> HIDE DEF selected, Taken, allowed, narrow
    <2>9. FeatureBand(selected) = FeatureBand(Taken("patch"))
      BY <1>3, <2>1, <2>2, <2>6, <2>8
    <2>10. SameFeatureBand(selected, Taken("patch"))
      BY <2>7, <2>9 DEF SameFeatureBand, SameMinor, SameMajor
    <2> QED
      BY <1>5, <2>10 DEF selected, Taken
  <1>6. CASE request.policy = "minor" /\ Taken("feature") # NoSdk
    <2> DEFINE narrow == Allowing(installed, Narrowed("feature"))
    <2>0. Narrowed("feature") \in Requests /\ Narrowed("feature").version # NoVersion
             /\ Narrowed("feature").policy = "feature"
      BY <1>2 DEF RollForwardPolicies
    <2>1. Taken("feature") \in narrow
      BY <1>6, <2>0, SelectionAllowed
    <2>2. \A version : version \in narrow <=> version \in allowed /\ version.minor = requested.minor
      BY <1>2, <1>6 DEF Allowing, Allowed, RollForwardPolicies, SameMinor, SameMajor
    <2>3. selected = Highest(MinorNearest(allowed)) /\ Taken("feature") = Highest(FeatureNearest(narrow))
      BY <1>6, <2>0, SelectionByPolicy, NearestAre
    <2>4. \A version \in allowed : version.major = requested.major
      BY <1>6 DEF Allowing, Allowed, SameMajor
    <2>5. \A version \in allowed : version.minor >= requested.minor
      BY <1>1, <1>3, <1>4, <2>4, BelowMeans
    <2>6. MinorNearest(allowed) = FeatureNearest(narrow)
      <3> HIDE DEF selected, Taken, allowed, narrow
      <3>1. ASSUME NEW version \in MinorNearest(allowed) PROVE version \in FeatureNearest(narrow)
        <4>1. version \in allowed /\ \A other \in allowed :
                 ~(\/ other.minor < version.minor
                   \/ other.minor = version.minor /\ FeatureBand(other) < FeatureBand(version))
          BY <1>3, <3>1, GroupsMean DEF MinorNearest
        <4>2. version.minor = requested.minor
          BY <1>3, <2>1, <2>2, <2>5, <4>1
        <4> QED
          BY <1>3, <2>2, <4>1, <4>2, GroupsMean DEF FeatureNearest
      <3>2. ASSUME NEW version \in FeatureNearest(narrow) PROVE version \in MinorNearest(allowed)
        <4>1. /\ version \in allowed /\ version.minor = requested.minor
              /\ \A other \in narrow : ~(FeatureBand(other) < FeatureBand(version))
          BY <1>3, <2>2, <3>2, GroupsMean DEF FeatureNearest
        <4>2. \A other \in allowed :
                 ~(\/ other.minor < version.minor
                   \/ other.minor = version.minor /\ FeatureBand(other) < FeatureBand(version))
          BY <1>3, <2>2, <2>5, <4>1
        <4> QED
          BY <1>3, <4>1, <4>2, GroupsMean DEF MinorNearest
      <3> QED
        BY <3>1, <3>2
    <2> QED
      BY <1>6, <2>3, <2>6
  <1>7. CASE request.policy = "major" /\ Taken("minor") # NoSdk
    <2> DEFINE narrow == Allowing(installed, Narrowed("minor"))
    <2>0. Narrowed("minor") \in Requests /\ Narrowed("minor").version # NoVersion
             /\ Narrowed("minor").policy = "minor"
      BY <1>2 DEF RollForwardPolicies
    <2>1. Taken("minor") \in narrow
      BY <1>7, <2>0, SelectionAllowed
    <2>2. \A version : version \in narrow <=> version \in allowed /\ version.major = requested.major
      BY <1>2, <1>7 DEF Allowing, Allowed, RollForwardPolicies, SameMajor
    <2>3. selected = Highest(MajorNearest(allowed)) /\ Taken("minor") = Highest(MinorNearest(narrow))
      BY <1>7, <2>0, SelectionByPolicy, NearestAre
    <2>5. \A version \in allowed : version.major >= requested.major
      BY <1>1, <1>3, <1>4, BelowMeans
    <2>6. MajorNearest(allowed) = MinorNearest(narrow)
      <3> HIDE DEF selected, Taken, allowed, narrow
      <3>1. ASSUME NEW version \in MajorNearest(allowed) PROVE version \in MinorNearest(narrow)
        <4>1. version \in allowed /\ \A other \in allowed :
                 ~(\/ other.major < version.major
                   \/ other.major = version.major /\ other.minor < version.minor
                   \/ /\ other.major = version.major /\ other.minor = version.minor
                      /\ FeatureBand(other) < FeatureBand(version))
          BY <1>3, <3>1, GroupsMean DEF MajorNearest
        <4>2. version.major = requested.major
          BY <1>3, <2>1, <2>2, <2>5, <4>1
        <4> QED
          BY <1>3, <2>2, <4>1, <4>2, GroupsMean DEF MinorNearest
      <3>2. ASSUME NEW version \in MinorNearest(narrow) PROVE version \in MajorNearest(allowed)
        <4>1. /\ version \in allowed /\ version.major = requested.major
              /\ \A other \in narrow :
                    ~(\/ other.minor < version.minor
                      \/ other.minor = version.minor /\ FeatureBand(other) < FeatureBand(version))
          BY <1>3, <2>2, <3>2, GroupsMean DEF MinorNearest
        <4>2. \A other \in allowed :
                 ~(\/ other.major < version.major
                   \/ other.major = version.major /\ other.minor < version.minor
                   \/ /\ other.major = version.major /\ other.minor = version.minor
                      /\ FeatureBand(other) < FeatureBand(version))
          BY <1>3, <2>2, <2>5, <4>1
        <4> QED
          BY <1>3, <4>1, <4>2, GroupsMean DEF MajorNearest
      <3> QED
        BY <3>1, <3>2
    <2> QED
      BY <1>7, <2>3, <2>6
  <1> QED
    BY <1>5, <1>6, <1>7

(***************************************************************************)
(* The roots that are searched                                             *)
(***************************************************************************)

\* What SearchRoots folds: a path of global.json onto the roots so far.
TakenRoot(hosts, roots, path) ==
    IF Contains(roots, IF path = HostRoot THEN hosts[1] ELSE path)
    THEN roots
    ELSE Append(roots, IF path = HostRoot THEN hosts[1] ELSE path)

RootFold == INSTANCE Folding WITH Op <- TakenRoot

\* The roots are of the paths that global.json lists, $host$ standing for the first host.
LEMMA SearchRootsAre ==
    ASSUME NEW Names, NEW hosts \in Seq(Names), NEW global,
           global.paths \in Seq(Names \cup {HostRoot}),
           Contains(global.paths, HostRoot) => hosts # <<>>
    PROVE  SearchRoots(global, hosts) \in Seq(Names)
  <1> DEFINE N == Len(global.paths)
  <1>1. PICK trace : /\ RootFold!IsTrace(trace, hosts, <<>>, global.paths)
                     /\ RootFold!Folded(hosts, <<>>, global.paths) = trace[N]
    BY RootFold!FoldTrace
  <1>2. global.listed => SearchRoots(global, hosts) = trace[N]
    <2>1. global.listed => SearchRoots(global, hosts) = RootFold!Folded(hosts, <<>>, global.paths)
      BY DEF SearchRoots, TakenRoot, RootFold!Folded, FoldLeft, RootFold!FoldLeft, MapThenFoldSet,
             RootFold!MapThenFoldSet, Max, RootFold!Max
    <2> QED
      BY <1>1, <2>1
  <1> DEFINE T == {n \in 0..N : trace[n] \in Seq(Names)}
  <1>3. N \in Nat
    OBVIOUS
  <1>4. T = 0..N
    <2>1. 0 \in T
      BY <1>1, <1>3 DEF RootFold!IsTrace
    <2>2. ASSUME NEW n \in T, n + 1 \in 0..N PROVE n + 1 \in T
      <3>1. trace[n + 1] = TakenRoot(hosts, trace[n], global.paths[n + 1])
        BY <1>1, <1>3, <2>2 DEF RootFold!IsTrace
      <3>2. n + 1 \in 1..Len(global.paths)
        BY <2>2
      <3>3. (IF global.paths[n + 1] = HostRoot THEN hosts[1] ELSE global.paths[n + 1]) \in Names
        BY <3>2 DEF Contains
      <3>4. trace[n] \in Seq(Names)
        BY <2>2
      <3> HIDE DEF N
      <3>5. trace[n + 1] \in Seq(Names)
        BY <3>1, <3>3, <3>4 DEF TakenRoot
      <3> QED
        BY <2>2, <3>5
    <2>3. T \in SUBSET (0..N)
      OBVIOUS
    <2> HIDE DEF T
    <2> QED
      BY <1>3, <2>1, <2>2, <2>3, RootFold!Numbers
  <1>5. trace[N] \in Seq(Names)
    BY <1>3, <1>4
  <1> QED
    BY <1>2, <1>5 DEF SearchRoots

(***************************************************************************)
(* The SDK                                                                 *)
(***************************************************************************)

\* The SDK a command selects fits what global.json asks and what is installed.
LEMMA SdkSelected ==
    ASSUME SdkInputs(world)
    PROVE  SdkFits(Sdk)
  <1> DEFINE global == world.global
             installed == world.installed
             roots == SearchRoots(global, world.hosts)
             request == [version |-> global.version, policy |-> Policy(global),
                         prerelease |-> global.prerelease]
             Fitting(root) == Allowing(installed[root], request)
             having == {i \in DOMAIN roots : SelectFromRoot(installed[roots[i]], request) # NoSdk}
             first == CHOOSE i \in having : \A j \in having : i <= j
             failing == \/ global.version = NoVersion /\ Policy(global) # "latestMajor"
                        \/ Contains(global.paths, HostRoot) /\ world.hosts = <<>>
             sdk == Sdk
  <1>1. request \in Requests
    BY DEF SdkInputs, Requests, Policy, RollForwardPolicies
  <1>2. failing \/ having = {} => sdk = NoSdk
    BY DEF Sdk, SelectSdk
  <1>3. ~failing /\ having # {} =>
           sdk = [root |-> roots[first], version |-> SelectFromRoot(installed[roots[first]], request)]
    BY DEF Sdk, SelectSdk
  <1>4. global.version = NoVersion /\ Policy(global) # "latestMajor" =>
           global.policy \notin {"none", "latestMajor"}
    BY DEF SdkInputs, Policy
  <1>5. CASE failing
    BY <1>2, <1>4, <1>5 DEF SdkFits
  <1>6. CASE ~failing
    <2>1. roots \in Seq(DOMAIN installed)
      BY <1>6, SearchRootsAre DEF SdkInputs
    <2>2. ASSUME NEW i \in DOMAIN roots
          PROVE  /\ installed[roots[i]] \subseteq Versions /\ IsFiniteSet(installed[roots[i]])
                 /\ SelectFromRoot(installed[roots[i]], request) = NoSdk <=> Fitting(roots[i]) = {}
                 /\ SelectFromRoot(installed[roots[i]], request) # NoSdk =>
                       SelectFromRoot(installed[roots[i]], request) \in Fitting(roots[i])
      <3>1. installed[roots[i]] \subseteq Versions /\ IsFiniteSet(installed[roots[i]])
        BY <2>1 DEF SdkInputs
      <3> QED
        BY <1>1, <1>6, <3>1, SelectionAllowed
    <2>3. CASE having = {}
      BY <1>2, <2>2, <2>3 DEF SdkFits, Allowing
    <2>4. CASE having # {}
      <3>1. first \in having /\ \A j \in having : first <= j
        <4>1. having \in SUBSET Nat
          BY <2>1
        <4> HIDE DEF having
        <4>2. \E i \in having : \A j \in having : i <= j
          BY <2>4, <4>1, RootFold!LeastNumber
        <4> QED
          BY <4>2
      <3> DEFINE chosen == SelectFromRoot(installed[roots[first]], request)
                 Taken(policy) == SelectFromRoot(installed[roots[first]],
                                                 [request EXCEPT !.policy = policy])
      <3>3. first \in DOMAIN roots /\ chosen # NoSdk
        BY <3>1
      <3>4. chosen \in Fitting(roots[first])
        BY <2>2, <3>3
      <3>2. sdk.root = roots[first] /\ sdk.version = chosen /\ sdk # NoSdk
        <4>1. sdk = [root |-> roots[first], version |-> chosen]
          BY <1>3, <1>6, <2>4
        <4>2. roots[first] \in DOMAIN installed
          <5> HIDE DEF first, roots, installed
          <5> QED
            BY <2>1, <3>3
        <4>3. chosen \in Versions
          <5>1. Fitting(roots[first]) \subseteq Versions
            BY <2>2, <3>3 DEF Allowing
          <5> HIDE DEF chosen, Fitting, first, roots
          <5> QED
            BY <3>4, <5>1
        <4>4. NoSdk \notin [root : DOMAIN installed, version : Versions]
          BY DEF SdkInputs
        <4> HIDE DEF sdk, chosen, first, roots, installed
        <4> QED
          BY <4>1, <4>2, <4>3, <4>4
      <3>5. ASSUME NEW j \in 1..(first - 1) PROVE Fitting(roots[j]) = {}
        <4>1. j \in DOMAIN roots /\ ~(first <= j)
          <5>1. DOMAIN roots = 1..Len(roots) /\ Len(roots) \in Nat
            BY <2>1
          <5> HIDE DEF first, roots
          <5> QED
            BY <3>3, <5>1
        <4> QED
          BY <2>2, <3>1, <4>1
      <3>6. request.policy \in {"latestPatch", "latestFeature", "latestMinor", "latestMajor"} =>
               \A version \in Fitting(roots[first]) : ~Below(chosen, version)
        <4>1. Fitting(roots[first]) \subseteq Versions /\ IsFiniteSet(Fitting(roots[first]))
          BY <2>2, <3>3, FS_Subset DEF Allowing
        <4>2. request.policy \in {"latestPatch", "latestFeature", "latestMinor", "latestMajor"} =>
                 chosen = Highest(Fitting(roots[first]))
          BY <1>1, <2>2, <3>3, SelectionByPolicy
        <4> HIDE DEF chosen, Fitting, first, roots, request
        <4> QED
          BY <3>4, <4>1, <4>2, HighestIs
      <3>7. request.policy = "patch" /\ global.version \in Fitting(roots[first]) => chosen = global.version
        <4>1. request.policy = "patch" => request.version # NoVersion
          BY <1>6
        <4> QED
          BY <1>1, <2>2, <3>3, <4>1, SelectionByPolicy
      <3>8. ASSUME NEW pair \in Narrower, request.policy = pair[2], Taken(pair[1]) # NoSdk
            PROVE  IF pair[1] = "patch"
                   THEN SameFeatureBand(chosen, Taken("patch"))
                   ELSE chosen = Taken(pair[1])
        <4>1. request.version # NoVersion
          <5>1. pair[2] # "latestMajor"
            BY DEF Narrower
          <5>2. request.policy = Policy(global) /\ request.version = global.version
            OBVIOUS
          <5> HIDE DEF request
          <5> QED
            BY <1>6, <3>8, <5>1, <5>2
        <4>2. /\ request.policy = "feature" /\ Taken("patch") # NoSdk =>
                    SameFeatureBand(chosen, Taken("patch"))
              /\ request.policy = "minor" /\ Taken("feature") # NoSdk => chosen = Taken("feature")
              /\ request.policy = "major" /\ Taken("minor") # NoSdk => chosen = Taken("minor")
          BY <1>1, <2>2, <3>3, <4>1, NarrowerFirst
        <4> HIDE DEF chosen, Taken, request
        <4> QED
          BY <3>8, <4>2 DEF Narrower
      <3> HIDE DEF first, roots
      <3> QED
        BY <3>2, <3>3, <3>4, <3>5, <3>6, <3>7, <3>8 DEF SdkFits, roots, Allowing
    <2> QED
      BY <2>3, <2>4
  <1> QED
    BY <1>5, <1>6


(***************************************************************************)
(* Compatible runtime identifiers                                          *)
(***************************************************************************)

\* No element comes twice.
Distinct(sequence) == \A i, j \in 1..Len(sequence) : sequence[i] = sequence[j] => i = j

\* A graph has finitely many identifiers, and imports only what it has.
IsGraph(graph) ==
    /\ IsFiniteSet(DOMAIN graph)
    /\ \A rid \in DOMAIN graph : graph[rid] \in Seq(DOMAIN graph)

\* What Enqueued folds: an import onto the queue, unless it is there.
Visited(context, so_far, rid) == IF Contains(so_far, rid) THEN so_far ELSE Append(so_far, rid)

VisitFold == INSTANCE Folding WITH Op <- Visited

\* What a queue is to the one it was, after the first n of some imports.
Continues(result, queue, imports, n) ==
    /\ Len(result) >= Len(queue)
    /\ \A i \in 1..Len(queue) : result[i] = queue[i]
    /\ Distinct(result)
    /\ \A k \in 1..n : \E i \in 1..Len(result) : result[i] = imports[k]
    /\ \A i \in (Len(queue) + 1)..Len(result) : \E k \in 1..n : result[i] = imports[k]

\* Enqueueing keeps the queue, and appends the imports it does not hold, each once.
LEMMA EnqueuedIs ==
    ASSUME NEW V, NEW queue \in Seq(V), Distinct(queue), NEW cursor, NEW imports \in Seq(V)
    PROVE  /\ Enqueued(queue, cursor, imports) \in Seq(V)
           /\ Continues(Enqueued(queue, cursor, imports), queue, imports, Len(imports))
  <1> DEFINE N == Len(imports)
  <1>1. PICK trace : /\ VisitFold!IsTrace(trace, {}, queue, imports)
                     /\ VisitFold!Folded({}, queue, imports) = trace[N]
    BY VisitFold!FoldTrace
  <1>2. Enqueued(queue, cursor, imports) = trace[N]
    <2>1. Enqueued(queue, cursor, imports) = VisitFold!Folded({}, queue, imports)
      BY DEF Enqueued, Visited, VisitFold!Folded, FoldLeft, VisitFold!FoldLeft, MapThenFoldSet,
             VisitFold!MapThenFoldSet, Max, VisitFold!Max
    <2> QED
      BY <1>1, <2>1
  <1> DEFINE T == {n \in 0..N : trace[n] \in Seq(V) /\ Continues(trace[n], queue, imports, n)}
  <1>3. N \in Nat
    OBVIOUS
  <1>4. T = 0..N
    <2>1. 0 \in T
      <3>1. trace[0] = queue
        BY <1>1, <1>3 DEF VisitFold!IsTrace
      <3>2. Continues(queue, queue, imports, 0)
        BY DEF Continues
      <3> QED
        BY <1>3, <3>1, <3>2
    <2>2. ASSUME NEW n \in T, n + 1 \in 0..N PROVE n + 1 \in T
      <3>1. trace[n + 1] = Visited({}, trace[n], imports[n + 1])
        BY <1>1, <1>3, <2>2 DEF VisitFold!IsTrace
      <3>2. n \in Nat /\ n + 1 \in 1..Len(imports) /\ imports[n + 1] \in V
        BY <2>2
      <3>3. trace[n] \in Seq(V) /\ Continues(trace[n], queue, imports, n)
        BY <2>2
      <3> DEFINE before == trace[n]
                 rid == imports[n + 1]
      <3>4. before \in Seq(V) /\ rid \in V /\ trace[n + 1] = Visited({}, before, rid)
        BY <3>1, <3>2, <3>3
      <3>5. Continues(before, queue, imports, n)
        BY <3>3
      <3>6. rid = imports[n + 1]
        OBVIOUS
      <3> HIDE DEF before, rid, T
      <3>7. CASE Contains(before, rid)
        <4>1. trace[n + 1] = before
          BY <3>4, <3>7 DEF Visited
        <4>2. Continues(before, queue, imports, n + 1)
          BY <3>2, <3>4, <3>5, <3>6, <3>7 DEF Continues, Contains
        <4> QED
          BY <2>2, <3>4, <4>1, <4>2 DEF T
      <3>8. CASE ~Contains(before, rid)
        <4> DEFINE after == Append(before, rid)
        <4>1. trace[n + 1] = after
          BY <3>4, <3>8 DEF Visited
        <4>2. /\ after \in Seq(V) /\ Len(after) = Len(before) + 1
              /\ after[Len(before) + 1] = rid
              /\ \A i \in 1..Len(before) : after[i] = before[i]
              /\ Len(before) \in Nat /\ Len(queue) \in Nat
          BY <3>4
        <4> HIDE DEF after
        <4>3. Distinct(after)
          BY <4>2, <3>5, <3>8 DEF Continues, Distinct, Contains
        <4>4. \A k \in 1..(n + 1) : \E i \in 1..Len(after) : after[i] = imports[k]
          <5> TAKE k \in 1..(n + 1)
          <5>1. CASE k = n + 1
            BY <4>2, <5>1, <3>6
          <5>2. CASE k # n + 1
            <6>1. k \in 1..n
              BY <5>2, <3>2
            <6>2. PICK i \in 1..Len(before) : before[i] = imports[k]
              BY <6>1, <3>5 DEF Continues
            <6> QED
              BY <6>2, <4>2
          <5> QED
            BY <5>1, <5>2
        <4>5. \A i \in (Len(queue) + 1)..Len(after) : \E k \in 1..(n + 1) : after[i] = imports[k]
          <5> TAKE i \in (Len(queue) + 1)..Len(after)
          <5>1. CASE i = Len(before) + 1
            BY <4>2, <5>1, <3>6, <3>2
          <5>2. CASE i # Len(before) + 1
            <6>1. i \in (Len(queue) + 1)..Len(before) /\ i \in 1..Len(before)
              BY <5>2, <4>2
            <6>2. PICK k \in 1..n : before[i] = imports[k]
              BY <6>1, <3>5 DEF Continues
            <6> QED
              BY <6>1, <6>2, <4>2, <3>2
          <5> QED
            BY <5>1, <5>2
        <4>6. Len(after) >= Len(queue) /\ \A i \in 1..Len(queue) : after[i] = queue[i]
          BY <4>2, <3>5 DEF Continues
        <4>7. Continues(after, queue, imports, n + 1)
          BY <4>3, <4>4, <4>5, <4>6 DEF Continues
        <4> QED
          BY <2>2, <4>1, <4>2, <4>7 DEF T
      <3> QED
        BY <3>7, <3>8
    <2>3. T \in SUBSET (0..N)
      OBVIOUS
    <2> HIDE DEF T
    <2> QED
      BY <1>3, <2>1, <2>2, <2>3, VisitFold!Numbers
  <1>5. trace[N] \in Seq(V) /\ Continues(trace[N], queue, imports, N)
    BY <1>3, <1>4
  <1> QED
    BY <1>2, <1>5

-------------------------------------------------------------------------------

\* The queue after its nth identifier has been expanded, if it has one.
Round(graph, queue, n) == IF n > Len(queue) THEN queue ELSE Enqueued(queue, n, graph[queue[n]])

RoundFold == INSTANCE Folding WITH Op <- Round

\* The queues of Compatibilities, by how many identifiers have been expanded.
Rounds(graph, start) ==
    CHOOSE queue : queue = [n \in 0..Cardinality(DOMAIN graph) |->
                               IF n = 0 THEN <<start>>
                               ELSE IF n > Len(queue[n - 1])
                                    THEN queue[n - 1]
                                    ELSE Enqueued(queue[n - 1], n, graph[queue[n - 1][n]])]

\* Compatibilities ends with the last of them, each of which is a round from the one before.
LEMMA RoundsAre ==
    ASSUME NEW graph, IsGraph(graph), NEW start
    PROVE  LET N == Cardinality(DOMAIN graph) rounds == Rounds(graph, start)
           IN  /\ Compatibilities(graph, start) = rounds[N]
               /\ rounds[0] = <<start>>
               /\ \A n \in 0..N : n + 1 \in 0..N =>
                     rounds[n + 1] = Round(graph, rounds[n], n + 1)
  <1> DEFINE N == Cardinality(DOMAIN graph)
             rounds == Rounds(graph, start)
             IsRounds(queue) ==
                queue = [n \in 0..N |-> IF n = 0 THEN <<start>> ELSE Round(graph, queue[n - 1], n)]
  <1>1. N \in Nat
    BY FS_CardinalityType DEF IsGraph
  <1>2. Compatibilities(graph, start) = rounds[N]
    BY DEF Compatibilities, Rounds
  <1>3. \E queue : IsRounds(queue)
    <2> DEFINE places == [i \in 1..N |-> i]
    <2>1. places \in Seq(Nat) /\ Len(places) = N /\ \A i \in 1..N : places[i] = i
      BY <1>1
    <2> HIDE DEF places, N
    <2>2. PICK trace : RoundFold!IsTrace(trace, graph, <<start>>, places)
      BY <2>1, RoundFold!FoldTrace
    <2>3. trace = [n \in 0..N |-> IF n = 0 THEN <<start>>
                                  ELSE Round(graph, trace[n - 1], places[n])]
      BY <2>1, <2>2 DEF RoundFold!IsTrace
    <2>4. \A n \in 0..N : n # 0 => places[n] = n
      BY <2>1, <1>1
    <2>5. IsRounds(trace)
      BY <2>3, <2>4
    <2> QED
      BY <2>5
  <1>4. IsRounds(rounds)
    BY <1>3 DEF Rounds, Round
  <1> HIDE DEF rounds, N
  <1>5. rounds[0] = <<start>>
    BY <1>1, <1>4
  <1>6. ASSUME NEW n \in 0..N, n + 1 \in 0..N PROVE rounds[n + 1] = Round(graph, rounds[n], n + 1)
    <2>1. n + 1 # 0 /\ (n + 1) - 1 = n
      BY <1>1, <1>6
    <2> QED
      BY <1>4, <1>6, <2>1
  <1> QED
    BY <1>2, <1>5, <1>6 DEF rounds, N

\* What holds of a queue of which the first n identifiers have been expanded.
IsExpanded(graph, start, queue, n) ==
    /\ queue \in Seq(DOMAIN graph) /\ queue # <<>> /\ queue[1] = start
    /\ Distinct(queue)
    /\ \A p \in 1..Len(queue) :
          p <= n => \A rid \in ToSet(graph[queue[p]]) : \E i \in 1..Len(queue) : queue[i] = rid
    /\ \A i \in 2..Len(queue) : \E p \in 1..n : p < i /\ queue[i] \in ToSet(graph[queue[p]])
    /\ \A j \in 2..Len(queue), p \in 1..Len(queue) :
          p <= n /\ queue[j] \in ToSet(graph[queue[p]]) =>
             \A i \in 2..(j - 1) : \E o \in 1..p : queue[i] \in ToSet(graph[queue[o]])

\* A round expands the next identifier.
LEMMA RoundExpands ==
    ASSUME NEW graph, IsGraph(graph), NEW start, NEW n \in Nat,
           NEW queue, IsExpanded(graph, start, queue, n)
    PROVE  IsExpanded(graph, start, Round(graph, queue, n + 1), n + 1)
  <1>0. queue \in Seq(DOMAIN graph) /\ Len(queue) \in Nat /\ Len(queue) >= 1
    BY DEF IsExpanded
  <1>1. CASE n + 1 > Len(queue)
    <2>1. Round(graph, queue, n + 1) = queue
      BY <1>1 DEF Round
    <2>2. \A p \in 1..Len(queue) : p <= n
      BY <1>0, <1>1
    <2>3. 1..n \subseteq 1..(n + 1)
      OBVIOUS
    <2>4. \A i \in 2..Len(queue) : \E p \in 1..(n + 1) : p < i /\ queue[i] \in ToSet(graph[queue[p]])
      BY <2>3 DEF IsExpanded
    <2> QED
      BY <2>1, <2>2, <2>4 DEF IsExpanded
  <1>2. CASE ~(n + 1 > Len(queue))
    <2> DEFINE imports == graph[queue[n + 1]]
               after == Enqueued(queue, n + 1, imports)
    <2>1. n + 1 \in 1..Len(queue) /\ queue[n + 1] \in DOMAIN graph /\ imports \in Seq(DOMAIN graph)
      BY <1>0, <1>2 DEF IsGraph
    <2>2. Distinct(queue)
      BY DEF IsExpanded
    <2>3. after \in Seq(DOMAIN graph) /\ Continues(after, queue, imports, Len(imports))
      <3> HIDE DEF imports
      <3> QED
        BY <1>0, <2>1, <2>2, EnqueuedIs
    <2>4. Round(graph, queue, n + 1) = after
      BY <1>2 DEF Round
    <2>5. \A rid : rid \in ToSet(imports) <=> \E k \in 1..Len(imports) : imports[k] = rid
      BY <2>1 DEF ToSet
    <2>6. graph[queue[n + 1]] = imports
      OBVIOUS
    <2> HIDE DEF imports, after
    <2>7. /\ Len(after) \in Nat /\ Len(after) >= Len(queue)
          /\ \A i \in 1..Len(queue) : after[i] = queue[i]
          /\ Distinct(after)
      BY <2>3 DEF Continues
    <2>8. \A rid \in ToSet(imports) : \E i \in 1..Len(after) : after[i] = rid
      BY <2>3, <2>5 DEF Continues
    <2>9. \A i \in (Len(queue) + 1)..Len(after) : after[i] \in ToSet(imports)
      BY <2>3, <2>5 DEF Continues
    <2>10. \A p \in 1..Len(after) :
              p <= n + 1 => \A rid \in ToSet(graph[after[p]]) : \E i \in 1..Len(after) : after[i] = rid
      <3> TAKE p \in 1..Len(after)
      <3> SUFFICES ASSUME p <= n + 1, NEW rid \in ToSet(graph[after[p]])
                   PROVE  \E i \in 1..Len(after) : after[i] = rid
        OBVIOUS
      <3>1. p \in 1..Len(queue) /\ after[p] = queue[p]
        BY <2>1, <2>7
      <3>2. CASE p = n + 1
        BY <3>1, <3>2, <2>6, <2>8
      <3>3. CASE p # n + 1
        <4>0. p \in 1..Len(queue) /\ p <= n /\ rid \in ToSet(graph[queue[p]])
          BY <3>1, <3>3, <1>0
        <4>1. PICK i \in 1..Len(queue) : queue[i] = rid
          BY <4>0 DEF IsExpanded
        <4> QED
          BY <4>1, <2>7, <1>0
      <3> QED
        BY <3>2, <3>3
    <2>11. \A i \in 2..Len(after) : \E p \in 1..(n + 1) : p < i /\ after[i] \in ToSet(graph[after[p]])
      <3> TAKE i \in 2..Len(after)
      <3>1. CASE i <= Len(queue)
        <4>1. i \in 2..Len(queue) /\ i \in 1..Len(queue)
          BY <3>1, <1>0
        <4>2. PICK p \in 1..n : p < i /\ queue[i] \in ToSet(graph[queue[p]])
          BY <4>1 DEF IsExpanded
        <4>3. p \in 1..(n + 1) /\ p \in 1..Len(queue)
          BY <4>1, <4>2
        <4> QED
          BY <4>1, <4>2, <4>3, <2>7
      <3>2. CASE i > Len(queue)
        <4>1. after[i] \in ToSet(imports) /\ n + 1 < i /\ n + 1 \in 1..(n + 1)
          BY <3>2, <1>0, <2>1, <2>7, <2>9
        <4> QED
          BY <4>1, <2>1, <2>6, <2>7
      <3> QED
        BY <3>1, <3>2, <1>0
    <2>12. ASSUME NEW j \in 2..Len(after), NEW p \in 1..Len(after), p <= n + 1,
                  after[j] \in ToSet(graph[after[p]]), NEW i \in 2..(j - 1)
           PROVE  \E o \in 1..p : after[i] \in ToSet(graph[after[o]])
      <3>1. p \in 1..Len(queue) /\ after[p] = queue[p] /\ i \in 2..Len(after)
        BY <2>1, <2>7, <2>12
      <3>2. CASE p = n + 1
        BY <2>11, <3>1, <3>2
      <3>3. CASE p # n + 1
        <4>0. p <= n
          BY <2>12, <3>3
        <4>1. PICK k \in 1..Len(queue) : queue[k] = after[j]
          BY <3>1, <4>0, <2>12 DEF IsExpanded
        <4>2. k \in 1..Len(after) /\ j \in 1..Len(after) /\ after[k] = after[j]
          BY <4>1, <2>7, <1>0
        <4>3. k = j
          BY <4>2, <2>7 DEF Distinct
        <4>4. j \in 2..Len(queue) /\ i \in 1..Len(queue)
          BY <4>1, <4>3
        <4>5. after[j] = queue[j] /\ after[i] = queue[i]
          BY <4>4, <2>7, <4>1, <4>3
        <4>6. PICK o \in 1..p : queue[i] \in ToSet(graph[queue[o]])
          BY <4>0, <4>4, <4>5, <3>1, <2>12 DEF IsExpanded
        <4>7. o \in 1..Len(queue)
          BY <3>1
        <4> QED
          BY <4>5, <4>6, <4>7, <2>7
      <3> QED
        BY <3>2, <3>3
    <2>13. after # <<>> /\ after[1] = start
      <3>1. 1 \in 1..Len(queue) /\ queue[1] = start
        BY <1>0 DEF IsExpanded
      <3>2. Len(after) # 0
        BY <1>0, <2>7
      <3> QED
        BY <3>1, <3>2, <2>7
    <2> QED
      BY <2>3, <2>4, <2>7, <2>10, <2>11, <2>12, <2>13 DEF IsExpanded
  <1> QED
    BY <1>1, <1>2

\* The queue when all of it has been expanded.
LEMMA CompatibilitiesAre ==
    ASSUME NEW graph, IsGraph(graph), NEW start \in DOMAIN graph
    PROVE  LET N == Cardinality(DOMAIN graph) queue == Compatibilities(graph, start)
           IN  IsExpanded(graph, start, queue, N) /\ Len(queue) <= N
  <1> DEFINE N == Cardinality(DOMAIN graph)
             rounds == Rounds(graph, start)
             queue == Compatibilities(graph, start)
             T == {n \in 0..N : IsExpanded(graph, start, rounds[n], n)}
  <1>1. N \in Nat
    BY FS_CardinalityType DEF IsGraph
  <1>2. /\ queue = rounds[N] /\ rounds[0] = <<start>>
        /\ \A n \in 0..N : n + 1 \in 0..N => rounds[n + 1] = Round(graph, rounds[n], n + 1)
    BY RoundsAre
  <1>3. T = 0..N
    <2> HIDE DEF N, rounds
    <2>1. 0 \in T
      <3>1. IsExpanded(graph, start, <<start>>, 0)
        BY DEF IsExpanded, Distinct
      <3> QED
        BY <1>1, <1>2, <3>1
    <2>2. ASSUME NEW n \in T, n + 1 \in 0..N PROVE n + 1 \in T
      <3>1. n \in Nat /\ IsExpanded(graph, start, rounds[n], n)
            /\ rounds[n + 1] = Round(graph, rounds[n], n + 1)
        BY <1>2, <2>2
      <3>2. IsExpanded(graph, start, Round(graph, rounds[n], n + 1), n + 1)
        BY <3>1, RoundExpands
      <3> QED
        BY <2>2, <3>1, <3>2
    <2>3. T \in SUBSET (0..N)
      OBVIOUS
    <2> HIDE DEF T
    <2> QED
      BY <1>1, <2>1, <2>2, <2>3, VisitFold!Numbers
  <1>4. IsExpanded(graph, start, queue, N)
    BY <1>1, <1>2, <1>3
  <1>5. Len(queue) <= N
    <2> HIDE DEF queue
    <2>1. queue \in Seq(DOMAIN graph) /\ Distinct(queue)
      BY <1>4 DEF IsExpanded
    <2>2. queue \in Injection(1..Len(queue), DOMAIN graph)
      BY <2>1 DEF Injection, IsInjective, Distinct
    <2>3. Cardinality(1..Len(queue)) = Len(queue)
      <3>1. 1 \in Int /\ Len(queue) \in Int /\ Len(queue) \in Nat
        BY <2>1
      <3>2. Cardinality(1..Len(queue)) = IF 1 > Len(queue) THEN 0 ELSE Len(queue) - 1 + 1
        BY <3>1, FS_Interval
      <3> QED
        BY <3>1, <3>2
    <2>4. IsFiniteSet(DOMAIN graph)
      BY DEF IsGraph
    <2>5. Cardinality(1..Len(queue)) <= Cardinality(DOMAIN graph)
      BY <2>2, <2>4, FS_Injection
    <2> QED
      BY <2>3, <2>5
  <1> QED
    BY <1>4, <1>5

\* The identifiers within one import more.
Reach(graph, reached, n) ==
    reached \cup UNION {ToSet(graph[other]) : other \in reached \cap DOMAIN graph}

ReachFold == INSTANCE Folding WITH Op <- Reach

\* The identifiers within some imports of one, from none to as many as there are identifiers.
LEMMA WithinIs ==
    ASSUME NEW graph, IsGraph(graph), NEW rid
    PROVE  LET N == Cardinality(DOMAIN graph) within == Within(graph, rid)
           IN  /\ DOMAIN within = 0..N
               /\ within[0] = {rid}
               /\ \A n \in 0..N : n + 1 \in 0..N =>
                     within[n + 1] = Reach(graph, within[n], n + 1)
  <1> DEFINE N == Cardinality(DOMAIN graph)
             within == Within(graph, rid)
             IsWithin(reached) ==
                reached = [n \in 0..N |-> IF n = 0 THEN {rid} ELSE Reach(graph, reached[n - 1], n)]
  <1>1. N \in Nat
    BY FS_CardinalityType DEF IsGraph
  <1>3. \E reached : IsWithin(reached)
    <2> DEFINE places == [i \in 1..N |-> i]
    <2>1. places \in Seq(Nat) /\ Len(places) = N /\ \A i \in 1..N : places[i] = i
      BY <1>1
    <2> HIDE DEF places, N
    <2>2. PICK trace : ReachFold!IsTrace(trace, graph, {rid}, places)
      BY <2>1, ReachFold!FoldTrace
    <2>3. trace = [n \in 0..N |-> IF n = 0 THEN {rid} ELSE Reach(graph, trace[n - 1], places[n])]
      BY <2>1, <2>2 DEF ReachFold!IsTrace
    <2>4. \A n \in 0..N : n # 0 => places[n] = n
      BY <2>1, <1>1
    <2>5. IsWithin(trace)
      BY <2>3, <2>4
    <2> QED
      BY <2>5
  <1>4. IsWithin(within)
    BY <1>3 DEF Within, Reach
  <1> HIDE DEF within, N
  <1>5. within[0] = {rid} /\ DOMAIN within = 0..N
    BY <1>1, <1>4
  <1>6. ASSUME NEW n \in 0..N, n + 1 \in 0..N PROVE within[n + 1] = Reach(graph, within[n], n + 1)
    <2>1. n + 1 # 0 /\ (n + 1) - 1 = n
      BY <1>1, <1>6
    <2> QED
      BY <1>4, <1>6, <2>1
  <1> QED
    BY <1>5, <1>6 DEF within, N

\* A sequence is of the identifiers of a graph that lead from one, each once, and none
\* comes before another that is within fewer imports.
Nearest(graph, rid, sequence) ==
    LET N == Cardinality(DOMAIN graph) within == Within(graph, rid)
    IN  /\ sequence \in Seq(DOMAIN graph \cup {rid}) /\ Distinct(sequence)
        /\ ToSet(sequence) = within[N]
        /\ \A m \in 0..N : \A j \in 1..Len(sequence) :
              sequence[j] \in within[m] => \A i \in 1..(j - 1) : sequence[i] \in within[m]

\* What is known of the sets of the first m imports, of an expanded queue.
Follows(graph, queue, reached, m) ==
    /\ queue[1] \in reached /\ reached \subseteq ToSet(queue)
    /\ \A i \in 1..Len(queue) : i <= m + 1 => queue[i] \in reached
    /\ \A j \in 1..Len(queue) :
          queue[j] \in reached => \A i \in 1..(j - 1) : queue[i] \in reached

\* If they are the front of the queue, so are those within one import more.
LEMMA ReachFollows ==
    ASSUME NEW graph, IsGraph(graph), NEW start, NEW queue, NEW N \in Nat, Len(queue) <= N,
           IsExpanded(graph, start, queue, N),
           NEW m \in Nat, NEW reached, Follows(graph, queue, reached, m)
    PROVE  Follows(graph, queue, Reach(graph, reached, m + 1), m + 1)
  <1> DEFINE after == Reach(graph, reached, m + 1)
             Imports(o) == ToSet(graph[queue[o]])
  <1>0. /\ queue \in Seq(DOMAIN graph) /\ Len(queue) \in Nat /\ Len(queue) >= 1
        /\ \A p \in 1..Len(queue) : p <= N
        /\ 1 \in 1..Len(queue)
    BY DEF IsExpanded
  <1>1. reached \subseteq after
    BY DEF Reach
  <1>2. \A rid : rid \in ToSet(queue) <=> \E i \in 1..Len(queue) : queue[i] = rid
    BY <1>0 DEF ToSet
  <1>3. \A rid : rid \in after <=>
           rid \in reached \/ \E o \in 1..Len(queue) : queue[o] \in reached /\ rid \in Imports(o)
    <2> TAKE rid
    <2>1. ASSUME rid \in after, rid \notin reached
          PROVE  \E o \in 1..Len(queue) : queue[o] \in reached /\ rid \in Imports(o)
      <3>1. PICK other \in reached : rid \in ToSet(graph[other])
        BY <2>1 DEF Reach
      <3>2. PICK o \in 1..Len(queue) : queue[o] = other
        BY <3>1, <1>2 DEF Follows
      <3> QED
        BY <3>1, <3>2
    <2>2. ASSUME NEW o \in 1..Len(queue), queue[o] \in reached, rid \in Imports(o)
          PROVE  rid \in after
      <3>1. queue[o] \in DOMAIN graph
        BY <1>0
      <3> QED
        BY <2>2, <3>1 DEF Reach
    <2> HIDE DEF after, Imports
    <2> QED
      BY <1>1, <2>1, <2>2
  <1> HIDE DEF after
  <1>4. after \subseteq ToSet(queue)
    <2> SUFFICES ASSUME NEW rid \in after PROVE \E i \in 1..Len(queue) : queue[i] = rid
      BY <1>2
    <2>1. CASE rid \in reached
      BY <2>1, <1>2 DEF Follows
    <2>2. ASSUME NEW o \in 1..Len(queue), rid \in Imports(o)
          PROVE  \E i \in 1..Len(queue) : queue[i] = rid
      <3>1. o <= N
        BY <1>0
      <3> QED
        BY <2>2, <3>1 DEF IsExpanded
    <2> HIDE DEF Imports
    <2> QED
      BY <2>1, <2>2, <1>3
  <1>5. \A i \in 1..Len(queue) : i <= (m + 1) + 1 => queue[i] \in after
    <2> SUFFICES ASSUME NEW i \in 1..Len(queue), i <= m + 2 PROVE queue[i] \in after
      OBVIOUS
    <2>1. CASE i <= m + 1
      BY <2>1, <1>1 DEF Follows
    <2>2. CASE i > m + 1
      <3>1. i \in 2..Len(queue)
        BY <2>2
      <3>2. PICK p \in 1..N : p < i /\ queue[i] \in Imports(p)
        BY <3>1 DEF IsExpanded
      <3>3. p \in 1..Len(queue) /\ p <= m + 1
        BY <3>2
      <3>4. queue[p] \in reached
        BY <3>3 DEF Follows
      <3> HIDE DEF Imports
      <3> QED
        BY <3>2, <3>3, <3>4, <1>3
    <2> QED
      BY <2>1, <2>2
  <1>6. ASSUME NEW j \in 1..Len(queue), queue[j] \in after, NEW i \in 1..(j - 1)
        PROVE  queue[i] \in after
    <2>1. CASE queue[j] \in reached
      BY <2>1, <1>1 DEF Follows
    <2>2. CASE queue[j] \notin reached
      <3>1. PICK p \in 1..Len(queue) : queue[p] \in reached /\ queue[j] \in Imports(p)
        <4> HIDE DEF Imports
        <4> QED
          BY <1>3, <1>6, <2>2
      <3>2. CASE i = 1
        BY <3>2, <1>1 DEF Follows
      <3>3. CASE i # 1
        <4>1. i \in 2..(j - 1) /\ j \in 2..Len(queue) /\ p <= N
          BY <3>3, <1>0
        <4>2. PICK o \in 1..p : queue[i] \in Imports(o)
          BY <4>1, <3>1 DEF IsExpanded
        <4>3. o \in 1..Len(queue) /\ queue[o] \in reached
          <5>1. CASE o = p
            BY <3>1, <5>1
          <5>2. CASE o # p
            <6>1. o \in 1..(p - 1) /\ o \in 1..Len(queue)
              BY <5>2
            <6> QED
              BY <6>1, <3>1 DEF Follows
          <5> QED
            BY <5>1, <5>2
        <4> HIDE DEF Imports
        <4> QED
          BY <4>2, <4>3, <1>3
      <3> QED
        BY <3>2, <3>3
    <2> QED
      BY <2>1, <2>2
  <1>7. queue[1] \in after
    BY <1>1 DEF Follows
  <1>8. Follows(graph, queue, after, m + 1)
    BY <1>4, <1>5, <1>6, <1>7 DEF Follows
  <1> QED
    BY <1>8 DEF after

\* The compatible identifiers of one are those it leads to, nearest first.
LEMMA CompatibleAre ==
    ASSUME NEW graph, IsGraph(graph), NEW rid
    PROVE  Nearest(graph, rid, CompatibleRids(graph, rid))
  <1> DEFINE N == Cardinality(DOMAIN graph)
             within == Within(graph, rid)
             queue == Compatibilities(graph, rid)
             sequence == CompatibleRids(graph, rid)
  <1>1. N \in Nat
    BY FS_CardinalityType DEF IsGraph
  <1>2. /\ within[0] = {rid}
        /\ \A n \in 0..N : n + 1 \in 0..N => within[n + 1] = Reach(graph, within[n], n + 1)
    BY WithinIs
  <1>3. CASE rid \in DOMAIN graph
    <2> DEFINE T == {n \in 0..N : Follows(graph, queue, within[n], n)}
    <2>1. IsExpanded(graph, rid, queue, N) /\ Len(queue) <= N
      BY <1>3, CompatibilitiesAre
    <2>2. queue \in Seq(DOMAIN graph) /\ queue # <<>> /\ queue[1] = rid /\ Distinct(queue)
      BY <2>1 DEF IsExpanded
    <2>3. sequence = queue
      <3>1. sequence = <<rid>> \o Tail(queue)
        BY <1>3 DEF CompatibleRids
      <3> HIDE DEF queue, sequence
      <3> QED
        BY <2>2, <3>1
    <2> HIDE DEF N, within, queue
    <2>4. T = 0..N
      <3>1. 0 \in T
        <4>1. Follows(graph, queue, {rid}, 0)
          <5>1. \A i \in 1..Len(queue) : i <= 0 + 1 => queue[i] \in {rid}
            BY <2>2
          <5>2. \A j \in 1..Len(queue) : queue[j] \in {rid} => \A i \in 1..(j - 1) : queue[i] \in {rid}
            <6>1. \A j \in 1..Len(queue) : queue[j] = rid => j = 1
              BY <2>2 DEF Distinct
            <6> QED
              BY <6>1
          <5>3. {rid} \subseteq ToSet(queue)
            BY <2>2 DEF ToSet
          <5> QED
            BY <2>2, <5>1, <5>2, <5>3 DEF Follows
        <4> QED
          BY <1>1, <1>2, <4>1
      <3>2. ASSUME NEW n \in T, n + 1 \in 0..N PROVE n + 1 \in T
        <4>1. n \in Nat /\ n \in 0..N /\ Follows(graph, queue, within[n], n)
          BY <3>2
        <4>2. Follows(graph, queue, Reach(graph, within[n], n + 1), n + 1)
          BY <4>1, <2>1, <1>1, ReachFollows
        <4> QED
          BY <1>2, <3>2, <4>1, <4>2
      <3>3. T \in SUBSET (0..N)
        OBVIOUS
      <3> HIDE DEF T
      <3> QED
        BY <1>1, <3>1, <3>2, <3>3, VisitFold!Numbers
    <2>5. \A m \in 0..N : Follows(graph, queue, within[m], m)
      BY <2>4
    <2>6. ToSet(queue) = within[N]
      <3>1. Follows(graph, queue, within[N], N)
        BY <2>5, <1>1
      <3>2. \A i \in 1..Len(queue) : i <= N + 1
        BY <2>1, <2>2, <1>1
      <3> QED
        BY <3>1, <3>2, <2>2 DEF Follows, ToSet
    <2>7. \A m \in 0..N : \A j \in 1..Len(queue) :
              queue[j] \in within[m] => \A i \in 1..(j - 1) : queue[i] \in within[m]
      BY <2>5 DEF Follows
    <2>8. queue \in Seq(DOMAIN graph \cup {rid})
      BY <2>2
    <2> QED
      BY <2>2, <2>3, <2>6, <2>7, <2>8 DEF Nearest, N, within
  <1>4. CASE rid \notin DOMAIN graph
    <2> DEFINE T == {n \in 0..N : within[n] = {rid}}
    <2>1. sequence = <<rid>>
      BY <1>4 DEF CompatibleRids
    <2> HIDE DEF N, within
    <2>2. T = 0..N
      <3>1. 0 \in T
        BY <1>1, <1>2
      <3>2. ASSUME NEW n \in T, n + 1 \in 0..N PROVE n + 1 \in T
        BY <1>2, <1>4, <3>2 DEF Reach
      <3>3. T \in SUBSET (0..N)
        OBVIOUS
      <3> HIDE DEF T
      <3> QED
        BY <1>1, <3>1, <3>2, <3>3, VisitFold!Numbers
    <2>3. \A m \in 0..N : within[m] = {rid}
      BY <2>2
    <2>4. ToSet(<<rid>>) = {rid} /\ <<rid>> \in Seq(DOMAIN graph \cup {rid}) /\ Distinct(<<rid>>)
      BY DEF ToSet, Distinct
    <2>5. within[N] = {rid}
      BY <2>3, <1>1
    <2>6. \A j \in 1..Len(<<rid>>) : \A i \in 1..(j - 1) : FALSE
      OBVIOUS
    <2> HIDE DEF sequence
    <2>7. \A m \in 0..N : \A j \in 1..Len(sequence) :
              sequence[j] \in within[m] => \A i \in 1..(j - 1) : sequence[i] \in within[m]
      BY <2>1, <2>6
    <2>8. Nearest(graph, rid, sequence)
      BY <2>1, <2>4, <2>5, <2>7 DEF Nearest, N, within
    <2> QED
      BY <2>8 DEF sequence
  <1> QED
    BY <1>3, <1>4

\* The identifier of a pack is the nearest that is supported.
LEMMA RidSelected ==
    ASSUME NEW graph, IsGraph(graph), NEW supported,
           NoRid \notin DOMAIN graph \cup {world.requested}
    PROVE  RidFits(SelectPackRuntimeIdentifier(graph, world.requested, supported), graph, supported)
  <1> DEFINE requested == world.requested
  <1>0. NoRid \notin DOMAIN graph \cup {requested}
    OBVIOUS
  <1> HIDE DEF requested
  <1> DEFINE N == Cardinality(DOMAIN graph)
             within == Within(graph, requested)
             reached == within[N]
             Distance(other) == CHOOSE n \in DOMAIN within :
                                   /\ other \in within[n]
                                   /\ \A m \in 0..(n - 1) : other \notin within[m]
             compatible == CompatibleRids(graph, requested)
             rid == SelectPackRuntimeIdentifier(graph, requested, supported)
             places == {i \in 1..Len(compatible) : compatible[i] \in supported}
  <1>1. N \in Nat /\ DOMAIN within = 0..N
    BY FS_CardinalityType, WithinIs DEF IsGraph
  <1>2. Nearest(graph, requested, compatible)
    BY CompatibleAre
  <1>3. /\ compatible \in Seq(DOMAIN graph \cup {requested}) /\ Distinct(compatible)
        /\ ToSet(compatible) = reached
        /\ \A m \in 0..N : \A j \in 1..Len(compatible) :
              compatible[j] \in within[m] => \A i \in 1..(j - 1) : compatible[i] \in within[m]
    BY <1>2 DEF Nearest
  <1>4. AreCompatible(graph, requested, requested)
    BY DEF AreCompatible
  <1>5. \A other \in DOMAIN graph : AreCompatible(graph, requested, other) <=> other \in reached
    <2> TAKE other \in DOMAIN graph
    <2>1. other \in reached <=> \E i \in 1..Len(compatible) : compatible[i] = other
      BY <1>3 DEF ToSet
    <2>2. CASE requested \in DOMAIN graph
      <3>1. compatible = <<requested>> \o Tail(Compatibilities(graph, requested))
        BY <2>2 DEF CompatibleRids
      <3>2. LET queue == Compatibilities(graph, requested)
            IN  queue \in Seq(DOMAIN graph) /\ queue # <<>> /\ queue[1] = requested
        BY <2>2, CompatibilitiesAre DEF IsExpanded
      <3>3. compatible = Compatibilities(graph, requested)
        <4> DEFINE queue == Compatibilities(graph, requested)
        <4>1. queue \in Seq(DOMAIN graph) /\ queue # <<>> /\ queue[1] = requested
          BY <3>2
        <4> HIDE DEF queue
        <4>2. <<requested>> \o Tail(queue) = queue
          BY <4>1
        <4> QED
          BY <3>1, <4>2 DEF queue
      <3>4. 1 \in 1..Len(compatible) /\ compatible[1] = requested
        <4> HIDE DEF compatible
        <4> QED
          BY <3>2, <3>3
      <3> HIDE DEF compatible, reached
      <3> QED
        BY <2>1, <2>2, <3>3, <3>4 DEF AreCompatible, Contains
    <2>3. CASE requested \notin DOMAIN graph
      <3>1. compatible = <<requested>>
        BY <2>3 DEF CompatibleRids
      <3> HIDE DEF compatible, reached
      <3> QED
        BY <2>1, <2>3, <3>1 DEF AreCompatible
    <2> QED
      BY <2>2, <2>3
  <1>6. rid = IF places # {} THEN compatible[Min(places)] ELSE NoRid
    <2>1. rid = IF SelectInSeq(compatible, LAMBDA other : other \in supported) = 0
                THEN NoRid
                ELSE compatible[SelectInSeq(compatible, LAMBDA other : other \in supported)]
      BY DEF SelectPackRuntimeIdentifier
    <2>2. SelectInSeq(compatible, LAMBDA other : other \in supported) =
             IF places # {} THEN Min(places) ELSE 0
      BY DEF SelectInSeq
    <2>3. places # {} => Min(places) # 0
      <3> HIDE DEF compatible
      <3>1. places \in SUBSET Nat /\ \A i \in places : i # 0
        BY <1>3
      <3> HIDE DEF places
      <3>2. places # {} => \E i \in places : \A j \in places : i <= j
        BY <3>1, VisitFold!LeastNumber
      <3> QED
        BY <3>1, <3>2 DEF Min
    <2> HIDE DEF places, compatible, rid
    <2> QED
      BY <2>1, <2>2, <2>3
  <1> HIDE DEF N, within, compatible, rid
  <1>7. places # {} => Min(places) \in places /\ \A i \in places : Min(places) <= i
    <2>1. places \in SUBSET Nat
      BY <1>3
    <2> HIDE DEF places
    <2>2. places # {} => \E i \in places : \A j \in places : i <= j
      BY <2>1, VisitFold!LeastNumber
    <2> QED
      BY <2>2 DEF Min
  <1>8. \A other \in reached :
           /\ Distance(other) \in 0..N /\ other \in within[Distance(other)]
           /\ \A m \in 0..N : other \in within[m] => Distance(other) <= m
    <2> TAKE other \in reached
    <2> DEFINE having == {m \in 0..N : other \in within[m]}
    <2>1. having \in SUBSET Nat /\ N \in having
      BY <1>1
    <2>2. PICK n \in having : \A m \in having : n <= m
      <3> HIDE DEF having
      <3> QED
        BY <2>1, VisitFold!LeastNumber
    <2>3. n \in DOMAIN within /\ other \in within[n] /\ \A m \in 0..(n - 1) : other \notin within[m]
      <3> SUFFICES ASSUME NEW m \in 0..(n - 1), other \in within[m] PROVE FALSE
        BY <1>1, <2>2
      <3>1. m \in having
        BY <1>1, <2>2
      <3> HIDE DEF having
      <3> QED
        BY <2>2, <3>1
    <2> DEFINE d == Distance(other)
    <2>4. d \in DOMAIN within /\ other \in within[d] /\ \A m \in 0..(d - 1) : other \notin within[m]
      BY <2>3
    <2>5. d \in 0..N
      BY <1>1, <2>4
    <2>6. ASSUME NEW m \in 0..N, other \in within[m] PROVE d <= m
      <3> HIDE DEF d
      <3> QED
        BY <1>1, <2>4, <2>5, <2>6
    <2> QED
      BY <2>4, <2>5, <2>6
  <1> HIDE DEF Distance, reached
  <1>9. \A i, j \in 1..Len(compatible) : i <= j => Distance(compatible[i]) <= Distance(compatible[j])
    <2> SUFFICES ASSUME NEW i \in 1..Len(compatible), NEW j \in 1..Len(compatible), i <= j
                 PROVE  Distance(compatible[i]) <= Distance(compatible[j])
      OBVIOUS
    <2>1. compatible[i] \in reached /\ compatible[j] \in reached
      BY <1>3 DEF ToSet
    <2> DEFINE d == Distance(compatible[j])
    <2>2. d \in 0..N /\ compatible[j] \in within[d]
      BY <1>8, <2>1
    <2>3. compatible[i] \in within[d]
      <3>1. CASE i = j
        BY <2>2, <3>1
      <3>2. CASE i # j
        <4>1. i \in 1..(j - 1)
          BY <3>2
        <4> HIDE DEF d
        <4> QED
          BY <4>1, <1>3, <2>2
      <3> QED
        BY <3>1, <3>2
    <2> QED
      BY <1>8, <2>1, <2>2, <2>3
  <1>10. Len(compatible) = Cardinality(reached)
    <2>1. compatible \in Bijection(1..Len(compatible), reached)
      <3>1. compatible \in [1..Len(compatible) -> reached]
        BY <1>3 DEF ToSet
      <3>2. \A t \in reached : \E i \in 1..Len(compatible) : compatible[i] = t
        BY <1>3 DEF ToSet
      <3> QED
        BY <3>1, <3>2, <1>3 DEF Bijection, Injection, Surjection, IsInjective, Distinct
    <2>2. Len(compatible) \in Nat /\ Len(compatible) \in Int /\ 1 \in Int
      BY <1>3
    <2>3. IsFiniteSet(1..Len(compatible)) /\ Cardinality(1..Len(compatible)) = Len(compatible)
      <3> DEFINE n == Len(compatible)
      <3>1. n \in Nat /\ n \in Int /\ 1 \in Int
        BY <2>2
      <3> HIDE DEF n
      <3>2. IsFiniteSet(1..n) /\ Cardinality(1..n) = IF 1 > n THEN 0 ELSE n - 1 + 1
        BY <3>1, FS_Interval
      <3>3. Cardinality(1..n) = n
        BY <3>1, <3>2
      <3> QED
        BY <3>2, <3>3 DEF n
    <2>4. ExistsBijection(1..Len(compatible), reached)
      BY <2>1 DEF ExistsBijection
    <2>5. Cardinality(reached) = Cardinality(1..Len(compatible))
      BY <2>3, <2>4, FS_Bijection
    <2> QED
      BY <2>3, <2>5
  <1>11. IF rid = NoRid
         THEN reached \cap supported = {}
         ELSE /\ rid \in reached \cap supported
              /\ \A other \in reached \cap supported : Distance(rid) <= Distance(other)
    <2>1. CASE places = {}
      <3>1. rid = NoRid
        BY <1>6, <2>1
      <3>2. \A other \in reached : other \notin supported
        BY <1>3, <2>1 DEF ToSet
      <3> QED
        BY <3>1, <3>2
    <2>2. CASE places # {}
      <3> DEFINE first == Min(places)
      <3>1. first \in places /\ \A i \in places : first <= i
        BY <1>7, <2>2
      <3>2. rid = compatible[first]
        BY <1>6, <2>2
      <3> HIDE DEF first
      <3>3. rid # NoRid /\ rid \in reached /\ rid \in supported
        BY <1>0, <1>3, <3>1, <3>2 DEF ToSet
      <3>4. ASSUME NEW other \in reached, other \in supported PROVE Distance(rid) <= Distance(other)
        <4>1. PICK i \in 1..Len(compatible) : compatible[i] = other
          BY <1>3 DEF ToSet
        <4>2. i \in places
          BY <3>4, <4>1
        <4>3. first <= i /\ first \in 1..Len(compatible)
          BY <3>1, <4>2
        <4> QED
          BY <1>9, <3>2, <4>1, <4>3
      <3> QED
        BY <3>3, <3>4
    <2> QED
      BY <2>1, <2>2
  <1>12. DOMAIN compatible = 1..Len(compatible)
    BY <1>3
  <1>13. \A i, j \in DOMAIN compatible : i < j => Distance(compatible[i]) <= Distance(compatible[j])
    BY <1>9, <1>12
  <1> QED
    BY <1>3, <1>5, <1>10, <1>11, <1>13 DEF RidFits, requested, N, within, reached, Distance, compatible, rid

\* A document whose identifiers are few: what is loaded of it is a graph.
LEMMA LoadedIsGraph ==
    ASSUME NEW document, NEW Rids, IsFiniteSet(Rids), DOMAIN document \subseteq Rids,
           \A rid \in DOMAIN document : document[rid] \in Seq(Rids)
    PROVE  IsGraph(Loaded(document)) /\ DOMAIN Loaded(document) \subseteq Rids
  <1> DEFINE imported == UNION {ToSet(document[rid]) : rid \in DOMAIN document}
             known == DOMAIN document \cup imported
             graph == Loaded(document)
  <1>1. graph = [rid \in known |-> IF rid \in DOMAIN document THEN document[rid] ELSE <<>>]
    BY DEF Loaded
  <1>2. \A rid \in DOMAIN document : \A i \in 1..Len(document[rid]) :
           document[rid][i] \in ToSet(document[rid])
    BY DEF ToSet
  <1>3. imported \subseteq Rids
    BY DEF ToSet
  <1>4. known \in SUBSET Rids
    BY <1>3
  <1>5. IsFiniteSet(known)
    <2> HIDE DEF known
    <2> QED
      BY <1>4, FS_Subset
  <1>6. ASSUME NEW rid \in DOMAIN document PROVE document[rid] \in Seq(known)
    <2>1. \A i \in 1..Len(document[rid]) : document[rid][i] \in known
      BY <1>2, <1>6
    <2> HIDE DEF known
    <2> QED
      BY <1>6, <2>1
  <1> HIDE DEF known, graph
  <1>7. DOMAIN graph = known
    BY <1>1
  <1>8. \A rid \in known : graph[rid] \in Seq(known)
    BY <1>1, <1>6
  <1> QED
    BY <1>4, <1>5, <1>7, <1>8 DEF IsGraph, graph


(***************************************************************************)
(* Frameworks                                                              *)
(***************************************************************************)

\* The versions of the lowest major and minor there is.
RuntimeNearest(versions) ==
    {version \in versions : \A other \in versions : ~Precedes(RuntimeBand(other), RuntimeBand(version))}

\* The order of the bands of runtimes, one field at a time.
LEMMA RuntimeBandsMean ==
    ASSUME NEW left \in Versions, NEW right \in Versions
    PROVE  /\ Precedes(RuntimeBand(left), RuntimeBand(right)) <=>
                 \/ left.major < right.major
                 \/ left.major = right.major /\ left.minor < right.minor
           /\ RuntimeBand(left) = RuntimeBand(right) <=>
                 left.major = right.major /\ left.minor = right.minor
  <1> DEFINE l == RuntimeBand(left)
             r == RuntimeBand(right)
  <1>1. /\ l = <<left.major, left.minor>> /\ r = <<right.major, right.minor>>
        /\ DOMAIN l = {1, 2} /\ 1..(1 - 1) = {} /\ 1..(2 - 1) = {1}
    BY DEF RuntimeBand
  <1>2. Precedes(l, r) <=> \/ left.major < right.major
                           \/ left.major = right.major /\ left.minor < right.minor
    <2> HIDE DEF l, r
    <2>1. l[1] = left.major /\ l[2] = left.minor /\ r[1] = right.major /\ r[2] = right.minor
      BY <1>1
    <2>2. Precedes(l, r) <=> \/ l[1] < r[1] /\ \A j \in {} : l[j] = r[j]
                             \/ l[2] < r[2] /\ \A j \in {1} : l[j] = r[j]
      BY <1>1, Zenon DEF Precedes
    <2> QED
      BY <2>1, <2>2
  <1>3. RuntimeBand(left) = RuntimeBand(right) <=>
           left.major = right.major /\ left.minor = right.minor
    BY DEF RuntimeBand
  <1> QED
    BY <1>2, <1>3

\* What a policy takes of some versions.
PickedBy(policy, versions) ==
    IF policy \in {"minor", "major"} THEN Highest(RuntimeNearest(versions)) ELSE Highest(versions)

\* It is one of them, if there are any, and above all others of the band it is of.
LEMMA PickedIs ==
    ASSUME NEW versions, versions \subseteq Versions, IsFiniteSet(versions), NEW policy
    PROVE  LET picked == PickedBy(policy, versions)
           IN  /\ picked = NoSdk <=> versions = {}
               /\ picked # NoSdk => picked \in versions
               /\ picked # NoSdk /\ policy \notin {"minor", "major"} =>
                     \A version \in versions : ~Below(picked, version)
               /\ picked # NoSdk /\ policy \in {"minor", "major"} =>
                     \A version \in versions :
                        /\ ~Precedes(RuntimeBand(version), RuntimeBand(picked))
                        /\ RuntimeBand(version) = RuntimeBand(picked) => ~Below(picked, version)
  <1> DEFINE picked == PickedBy(policy, versions)
             nearest == RuntimeNearest(versions)
  <1>1. nearest \in SUBSET versions
    BY DEF RuntimeNearest
  <1>2. nearest \subseteq Versions /\ IsFiniteSet(nearest)
    <2> HIDE DEF nearest
    <2> QED
      BY <1>1, FS_Subset
  <1>3. versions # {} => nearest # {}
    <2> SUFFICES ASSUME versions # {} PROVE nearest # {}
      OBVIOUS
    <2> DEFINE R == {pair \in versions \X versions : Precedes(RuntimeBand(pair[2]), RuntimeBand(pair[1]))}
    <2>0. \A x \in versions : x.major \in Int /\ x.minor \in Int
      BY DEF Versions
    <2>1. \A x, y \in versions : <<x, y>> \in R <=>
              y.major < x.major \/ (y.major = x.major /\ y.minor < x.minor)
      BY RuntimeBandsMean
    <2>2. \E x \in versions : \A y \in versions : <<x, y>> \notin R
      <3> HIDE DEF R
      <3>1. \A x, y, z \in versions : <<x, y>> \in R /\ <<y, z>> \in R => <<x, z>> \in R
        BY <2>0, <2>1
      <3>2. \A x \in versions : <<x, x>> \notin R
        BY <2>0, <2>1
      <3> QED
        BY <3>1, <3>2, TopmostExists
    <2> QED
      BY <2>2 DEF RuntimeNearest
  <1>4. CASE policy \in {"minor", "major"}
    <2>1. picked = Highest(nearest)
      BY <1>4 DEF PickedBy
    <2>2. /\ nearest = {} <=> picked = NoSdk
          /\ nearest # {} => picked \in nearest /\ \A other \in nearest : ~Below(picked, other)
      <3> HIDE DEF nearest, picked
      <3> QED
        BY <1>2, <2>1, HighestIs
    <2> HIDE DEF picked
    <2>3. ASSUME picked # NoSdk, NEW version \in versions,
                 RuntimeBand(version) = RuntimeBand(picked)
          PROVE  ~Below(picked, version)
      <3>1. version \in nearest
        BY <2>2, <2>3 DEF RuntimeNearest
      <3> QED
        BY <2>2, <2>3, <3>1
    <2>4. picked # NoSdk => picked \in versions /\ \A version \in versions :
              ~Precedes(RuntimeBand(version), RuntimeBand(picked))
      BY <2>2 DEF RuntimeNearest
    <2>5. picked = NoSdk <=> versions = {}
      BY <1>1, <1>3, <2>2
    <2> QED
      BY <1>4, <2>3, <2>4, <2>5 DEF picked
  <1>5. CASE policy \notin {"minor", "major"}
    <2>1. picked = Highest(versions)
      BY <1>5 DEF PickedBy
    <2> HIDE DEF picked
    <2>2. /\ versions = {} <=> picked = NoSdk
          /\ versions # {} => picked \in versions /\ \A other \in versions : ~Below(picked, other)
      BY <2>1, HighestIs
    <2> QED
      BY <1>5, <2>2 DEF picked
  <1> QED
    BY <1>4, <1>5

\* What a policy allows of the installed runtimes.
Fitted(installed, requested, policy) == {version \in installed : Satisfies(version, requested, policy)}

\* Of what it allows, the releases alone where a release is requested and one is allowed.
Pool(installed, requested, policy) ==
    LET fitted == Fitted(installed, requested, policy)
        releases == {version \in fitted : version.release}
    IN  IF requested.release /\ releases # {} THEN releases ELSE fitted

\* The runtime that is selected is picked from that.
LEMMA SelectedIsPicked ==
    ASSUME NEW installed, installed \subseteq Versions, IsFiniteSet(installed),
           NEW requested \in Versions, NEW policy \in RuntimePolicies
    PROVE  /\ Pool(installed, requested, policy) \in SUBSET installed
           /\ SelectInstalledRuntime(installed, requested, policy) =
                 PickedBy(policy, Pool(installed, requested, policy))
  <1> DEFINE fitted == Fitted(installed, requested, policy)
             releases == {version \in fitted : version.release}
             stable == SelectByPolicy(installed, requested, policy, TRUE)
             any == SelectByPolicy(installed, requested, policy, FALSE)
  <1>1. fitted \in SUBSET installed /\ releases \in SUBSET installed
    BY DEF Fitted
  <1>2. stable = PickedBy(policy, releases)
    <2>1. {version \in installed : /\ Satisfies(version, requested, policy)
                                   /\ TRUE => version.release} = releases
      BY DEF Fitted
    <2> QED
      BY <2>1 DEF SelectByPolicy, PickedBy, SelectNearestGroup, RuntimeNearest
  <1>3. any = PickedBy(policy, fitted)
    <2>1. {version \in installed : /\ Satisfies(version, requested, policy)
                                   /\ FALSE => version.release} = fitted
      BY DEF Fitted
    <2> QED
      BY <2>1 DEF SelectByPolicy, PickedBy, SelectNearestGroup, RuntimeNearest
  <1>4. stable = NoSdk <=> releases = {}
    <2> HIDE DEF releases, stable
    <2>1. releases \subseteq Versions /\ IsFiniteSet(releases)
      BY <1>1, FS_Subset
    <2> QED
      BY <1>2, <2>1, PickedIs
  <1>5. SelectInstalledRuntime(installed, requested, policy) =
           IF requested.release /\ stable # NoSdk THEN stable ELSE any
    BY DEF SelectInstalledRuntime
  <1>6. Pool(installed, requested, policy) = IF requested.release /\ releases # {} THEN releases ELSE fitted
    BY DEF Pool
  <1> HIDE DEF fitted, releases, stable, any
  <1> QED
    BY <1>1, <1>2, <1>3, <1>4, <1>5, <1>6

\* What the wider policy takes is what the narrower does, where that took something.
LEMMA NarrowerRuntimeFirst ==
    ASSUME NEW installed, installed \subseteq Versions, IsFiniteSet(installed),
           NEW requested \in Versions, NEW narrow, NEW wide,
           <<narrow, wide>> \in {<<"latestPatch", "minor">>, <<"minor", "major">>},
           LET taken == SelectInstalledRuntime(installed, requested, narrow)
           IN  taken # NoSdk /\ (taken.release \/ ~requested.release)
    PROVE  SelectInstalledRuntime(installed, requested, wide) =
              SelectInstalledRuntime(installed, requested, narrow)
  <1> DEFINE taken == SelectInstalledRuntime(installed, requested, narrow)
             selected == SelectInstalledRuntime(installed, requested, wide)
             near == Pool(installed, requested, narrow)
             far == Pool(installed, requested, wide)
  <1>0. narrow \in RuntimePolicies /\ wide \in RuntimePolicies /\ wide \in {"minor", "major"}
    BY DEF RuntimePolicies
  <1>1. /\ near \in SUBSET installed /\ taken = PickedBy(narrow, near)
        /\ far \in SUBSET installed /\ selected = PickedBy(wide, far)
    BY <1>0, SelectedIsPicked
  <1>2. near \subseteq Versions /\ IsFiniteSet(near) /\ far \subseteq Versions /\ IsFiniteSet(far)
    <2> HIDE DEF near, far
    <2> QED
      BY <1>1, FS_Subset
  <1>3. taken # NoSdk /\ (taken.release \/ ~requested.release)
    OBVIOUS
  <1>4. taken \in near
    <2> HIDE DEF near, taken
    <2> QED
      BY <1>1, <1>2, <1>3, PickedIs
  <1>5. \A version \in installed :
           Satisfies(version, requested, narrow) =>
              Satisfies(version, requested, wide) /\ AtLeast(version, requested)
    BY DEF Satisfies, SameMinor, SameMajor
  <1>6. taken \in installed /\ Satisfies(taken, requested, narrow) /\ Satisfies(taken, requested, wide)
    BY <1>1, <1>4, <1>5 DEF Pool, Fitted
  <1>7. \A version : version \in far <=>
           /\ version \in installed /\ Satisfies(version, requested, wide)
           /\ requested.release => version.release
    <2>1. requested.release => {v \in Fitted(installed, requested, wide) : v.release} # {}
      BY <1>3, <1>6 DEF Fitted
    <2> QED
      BY <2>1 DEF Pool, Fitted
  <1>8. \A version : version \in near <=>
           /\ version \in installed /\ Satisfies(version, requested, narrow)
           /\ requested.release => version.release
    <2>1. requested.release => {v \in Fitted(installed, requested, narrow) : v.release} # {}
      BY <1>3, <1>6 DEF Fitted
    <2> QED
      BY <2>1 DEF Pool, Fitted
  <1>9. taken \in far
    BY <1>3, <1>6, <1>7
  <1> HIDE DEF taken, selected, near, far
  <1>10. /\ selected # NoSdk /\ selected \in far
         /\ \A version \in far :
               /\ ~Precedes(RuntimeBand(version), RuntimeBand(selected))
               /\ RuntimeBand(version) = RuntimeBand(selected) => ~Below(selected, version)
    <2>1. far # {}
      BY <1>9
    <2> QED
      BY <1>0, <1>1, <1>2, <2>1, PickedIs
  <1>11. selected \in Versions /\ taken \in Versions
    BY <1>2, <1>9, <1>10
  <1>12. /\ selected.major \in Int /\ selected.minor \in Int
         /\ taken.major \in Int /\ taken.minor \in Int
         /\ requested.major \in Int /\ requested.minor \in Int
    BY <1>11 DEF Versions
  <1>13. ~(taken.major < selected.major)
         /\ (taken.major = selected.major => ~(taken.minor < selected.minor))
    BY <1>9, <1>10, <1>11, RuntimeBandsMean
  <1>14. AtLeast(selected, requested)
    BY <1>0, <1>7, <1>10 DEF Satisfies
  <1>15. ~(selected.major < requested.major)
         /\ (selected.major = requested.major => ~(selected.minor < requested.minor))
    BY <1>11, <1>14, BelowMeans DEF AtLeast
  <1>16. RuntimeBand(selected) = RuntimeBand(taken) /\ ~Below(taken, selected)
    <2>1. CASE narrow = "latestPatch"
      <3>1. taken.major = requested.major /\ taken.minor = requested.minor
        BY <1>6, <2>1 DEF Satisfies, SameMinor, SameMajor
      <3>2. selected.major = requested.major /\ selected.minor = requested.minor
        BY <1>12, <1>13, <1>15, <3>1
      <3>3. selected \in near
        BY <1>7, <1>8, <1>10, <1>14, <2>1, <3>2 DEF Satisfies, SameMinor, SameMajor
      <3>4. ~Below(taken, selected)
        BY <1>1, <1>2, <1>3, <2>1, <3>3, PickedIs
      <3> QED
        BY <3>1, <3>2, <3>4 DEF RuntimeBand
    <2>2. CASE narrow = "minor"
      <3>1. taken.major = requested.major
        BY <1>6, <2>2 DEF Satisfies, SameMajor
      <3>2. selected.major = requested.major
        BY <1>12, <1>13, <1>15, <3>1
      <3>3. selected \in near
        BY <1>7, <1>8, <1>10, <1>14, <2>2, <3>2 DEF Satisfies, SameMajor
      <3>4. /\ ~Precedes(RuntimeBand(selected), RuntimeBand(taken))
            /\ RuntimeBand(selected) = RuntimeBand(taken) => ~Below(taken, selected)
        BY <1>1, <1>2, <1>3, <2>2, <3>3, PickedIs
      <3>5. selected.minor = taken.minor
        <4>1. ~(selected.minor < taken.minor)
          BY <1>11, <3>1, <3>2, <3>4, RuntimeBandsMean
        <4> QED
          BY <1>12, <1>13, <3>1, <3>2, <4>1
      <3>6. RuntimeBand(selected) = RuntimeBand(taken)
        BY <3>1, <3>2, <3>5 DEF RuntimeBand
      <3> QED
        BY <3>4, <3>6
    <2> QED
      BY <2>1, <2>2
  <1>17. ~Below(selected, taken)
    BY <1>9, <1>10, <1>16
  <1>18. selected = taken
    BY <1>11, <1>16, <1>17, BelowOrders
  <1> QED
    BY <1>18 DEF selected, taken

\* The runtime that is selected fits what is requested.
LEMMA RuntimeSelected ==
    ASSUME NEW installed, installed \subseteq Versions, IsFiniteSet(installed),
           world.project.rollForward \in RuntimePolicies,
           NEW row, row.requested \in Versions,
           row.selected = SelectInstalledRuntime(installed, row.requested, world.project.rollForward)
    PROVE  RuntimeFits(installed, row)
  <1> DEFINE policy == world.project.rollForward
             requested == row.requested
             selected == row.selected
             pool == Pool(installed, requested, policy)
             Fitting(wide) == {version \in installed : Satisfies(version, requested, wide)}
  <1>1. pool \in SUBSET installed /\ selected = PickedBy(policy, pool)
    BY SelectedIsPicked
  <1>2. pool \subseteq Versions /\ IsFiniteSet(pool)
    <2> HIDE DEF pool
    <2> QED
      BY <1>1, FS_Subset
  <1>3. pool = IF requested.release /\ {version \in Fitting(policy) : version.release} # {}
               THEN {version \in Fitting(policy) : version.release}
               ELSE Fitting(policy)
    BY DEF Pool, Fitted
  <1>4. /\ selected = NoSdk <=> pool = {}
        /\ selected # NoSdk => selected \in pool
        /\ selected # NoSdk /\ policy \notin {"minor", "major"} =>
              \A version \in pool : ~Below(selected, version)
        /\ selected # NoSdk /\ policy \in {"minor", "major"} =>
              \A version \in pool :
                 /\ ~Precedes(RuntimeBand(version), RuntimeBand(selected))
                 /\ RuntimeBand(version) = RuntimeBand(selected) => ~Below(selected, version)
    <2> HIDE DEF pool, selected
    <2> QED
      BY <1>1, <1>2, PickedIs
  <1>5. selected = NoSdk => Fitting(policy) = {}
    BY <1>3, <1>4
  <1>6. ASSUME NEW pair \in NarrowerRuntime,
               LET taken == SelectInstalledRuntime(installed, requested, pair[1])
               IN  policy = pair[2] /\ pair[1] # "disable" /\ taken # NoSdk
                      /\ (taken.release \/ ~requested.release)
        PROVE  selected = SelectInstalledRuntime(installed, requested, pair[1])
    <2>1. <<pair[1], policy>> \in {<<"latestPatch", "minor">>, <<"minor", "major">>}
      BY <1>6 DEF NarrowerRuntime
    <2> QED
      BY <1>6, <2>1, NarrowerRuntimeFirst
  <1>7. CASE selected = NoSdk
    BY <1>5, <1>7 DEF RuntimeFits
  <1>8. CASE selected # NoSdk
    <2> HIDE DEF pool
    <2> QED
      BY <1>3, <1>4, <1>6, <1>8 DEF RuntimeFits
  <1> QED
    BY <1>7, <1>8

\* A sequence with an element before it.
LEMMA Prepended ==
    ASSUME NEW S, NEW x \in S, NEW s \in Seq(S)
    PROVE  LET whole == <<x>> \o s
           IN  /\ whole \in Seq(S) /\ Len(whole) = Len(s) + 1 /\ whole[1] = x
               /\ \A i \in 2..Len(whole) : whole[i] = s[i - 1]
  OBVIOUS

\* The core framework first and once, and every reference.
LEMMA RequestedAre ==
    ASSUME FrameworkInputs(world)
    PROVE  LET references == world.project.references
               requested == RequestedFrameworks(world.project)
           IN  /\ requested \in Seq(ToSet(references) \cup {Implicit})
               /\ requested # <<>> /\ requested[1].name = Core
               /\ \A i, j \in DOMAIN requested : requested[i].name = requested[j].name => i = j
               /\ {requested[i].name : i \in DOMAIN requested} =
                     {Core} \cup {reference.name : reference \in ToSet(references)}
  <1> DEFINE references == world.project.references
             requested == RequestedFrameworks(world.project)
             cores == {i \in 1..Len(references) : IsCore(references[i])}
             core == SelectInSeq(references, IsCore)
             Elements == ToSet(references) \cup {Implicit}
  <1>1. /\ references \in Seq(ToSet(references)) /\ Len(references) \in Nat
        /\ DOMAIN references = 1..Len(references)
        /\ \A i, j \in 1..Len(references) : references[i].name = references[j].name => i = j
        /\ \A i \in 1..Len(references) : references[i] \in Elements
    BY DEF FrameworkInputs, ToSet
  <1>2. requested = IF core = 0
                    THEN <<Implicit>> \o references
                    ELSE <<references[core]>> \o RemoveAt(references, core)
    BY DEF RequestedFrameworks
  <1>3. core = IF cores # {} THEN Min(cores) ELSE 0
    BY DEF SelectInSeq
  <1>4. cores # {} => core \in cores
    <2>1. cores \in SUBSET Nat
      OBVIOUS
    <2>2. cores # {} => \E i \in cores : \A j \in cores : i <= j
      <3> HIDE DEF cores
      <3> QED
        BY <2>1, RootFold!LeastNumber
    <2> HIDE DEF cores, core
    <2> QED
      BY <1>3, <2>2 DEF Min
  <1>5. \A reference : reference \in ToSet(references) <=>
           \E i \in 1..Len(references) : references[i] = reference
    BY <1>1 DEF ToSet
  <1> HIDE DEF references, requested, core
  <1>6. CASE core = 0
    <2>1. cores = {}
      BY <1>4, <1>6
    <2>2. \A i \in 1..Len(references) : references[i].name # Core
      BY <2>1 DEF IsCore
    <2>3. requested = <<Implicit>> \o references
      BY <1>2, <1>6
    <2>4. requested \in Seq(Elements)
      BY <1>1, <2>3
    <2>5. /\ Len(requested) = Len(references) + 1 /\ requested[1] = Implicit
          /\ \A i \in 2..Len(requested) : requested[i] = references[i - 1]
          /\ DOMAIN requested = 1..Len(requested)
      BY <1>1, <2>3
    <2>6. Implicit.name = Core
      BY DEF Implicit
    <2>7. \A i \in 2..Len(requested) : i - 1 \in 1..Len(references)
      BY <2>5, <1>1
    <2>8. \A i, j \in 1..Len(requested) : requested[i].name = requested[j].name => i = j
      <3> SUFFICES ASSUME NEW i \in 1..Len(requested), NEW j \in 1..Len(requested),
                          requested[i].name = requested[j].name
                   PROVE  i = j
        OBVIOUS
      <3>1. CASE i = 1 /\ j # 1
        <4>1. j \in 2..Len(requested)
          BY <3>1
        <4> QED
          BY <3>1, <4>1, <2>2, <2>5, <2>6, <2>7
      <3>2. CASE i # 1 /\ j = 1
        <4>1. i \in 2..Len(requested)
          BY <3>2
        <4> QED
          BY <3>2, <4>1, <2>2, <2>5, <2>6, <2>7
      <3>3. CASE i # 1 /\ j # 1
        <4>1. i \in 2..Len(requested) /\ j \in 2..Len(requested)
          BY <3>3
        <4>2. i - 1 = j - 1
          BY <4>1, <1>1, <2>5, <2>7
        <4> QED
          BY <4>2
      <3> QED
        BY <3>1, <3>2, <3>3
    <2>9. {requested[i].name : i \in 1..Len(requested)} =
             {Core} \cup {reference.name : reference \in ToSet(references)}
      <3>1. ASSUME NEW i \in 1..Len(requested)
            PROVE  requested[i].name \in {Core} \cup {reference.name : reference \in ToSet(references)}
        <4>1. CASE i = 1
          BY <4>1, <2>5, <2>6
        <4>2. CASE i # 1
          <5>1. i \in 2..Len(requested)
            BY <4>2
          <5>2. requested[i] \in ToSet(references)
            BY <5>1, <2>5, <2>7, <1>5
          <5> QED
            BY <5>2
        <4> QED
          BY <4>1, <4>2
      <3>2. ASSUME NEW reference \in ToSet(references)
            PROVE  \E i \in 1..Len(requested) : requested[i].name = reference.name
        <4>1. PICK k \in 1..Len(references) : references[k] = reference
          BY <1>5
        <4>2. k + 1 \in 2..Len(requested) /\ (k + 1) - 1 = k /\ k + 1 \in 1..Len(requested)
          BY <1>1, <2>5
        <4>3. requested[k + 1] = references[k]
          BY <2>5, <4>2
        <4> QED
          BY <4>1, <4>2, <4>3
      <3>3. 1 \in 1..Len(requested) /\ requested[1].name = Core
        BY <1>1, <2>5, <2>6
      <3> QED
        BY <3>1, <3>2, <3>3
    <2>10. requested # <<>>
      BY <2>5, <1>1
    <2> QED
      BY <2>4, <2>5, <2>6, <2>8, <2>9, <2>10 DEF references, requested
  <1>7. CASE core # 0
    <2>1. core \in 1..Len(references) /\ references[core].name = Core
      BY <1>3, <1>4, <1>7 DEF IsCore
    <2> DEFINE rest == RemoveAt(references, core)
               place == [i \in 1..Len(references) |->
                            IF i = 1 THEN core ELSE IF i <= core THEN i - 1 ELSE i]
    <2>2. requested = <<references[core]>> \o rest
      BY <1>2, <1>7
    <2>3. rest = SubSeq(references, 1, core - 1) \o SubSeq(references, core + 1, Len(references))
      BY DEF RemoveAt
    <2> HIDE DEF rest
    <2>4. references \in Seq(Elements)
      BY <1>1
    <2>5. /\ rest \in Seq(Elements) /\ Len(rest) = Len(references) - 1
          /\ \A i \in 1..Len(rest) : rest[i] = IF i < core THEN references[i] ELSE references[i + 1]
      <3> DEFINE n == Len(references)
                 left == SubSeq(references, 1, core - 1)
                 right == SubSeq(references, core + 1, n)
      <3>0. n \in Nat /\ core \in 1..n
        BY <1>1, <2>1
      <3>1. /\ left \in Seq(Elements) /\ Len(left) = core - 1
            /\ \A i \in 1..(core - 1) : left[i] = references[i]
        BY <2>4, <3>0
      <3>2. /\ right \in Seq(Elements) /\ Len(right) = n - core
            /\ \A i \in 1..(n - core) : right[i] = references[i + core]
        BY <2>4, <3>0
      <3>3. rest = left \o right
        BY <2>3
      <3> HIDE DEF left, right, n
      <3>4. rest \in Seq(Elements) /\ Len(rest) = n - 1
        BY <3>0, <3>1, <3>2, <3>3
      <3>5. \A i \in 1..Len(rest) : rest[i] = IF i < core THEN references[i] ELSE references[i + 1]
        <4> TAKE i \in 1..Len(rest)
        <4>1. CASE i < core
          BY <3>0, <3>1, <3>2, <3>3, <4>1
        <4>2. CASE ~(i < core)
          <5>1. i - (core - 1) \in 1..(n - core) /\ (i - (core - 1)) + core = i + 1
            BY <3>0, <3>4, <4>2
          <5>2. rest[i] = right[i - (core - 1)]
            BY <3>0, <3>1, <3>2, <3>3, <3>4, <4>2, <5>1
          <5> QED
            BY <3>2, <4>2, <5>1, <5>2
        <4> QED
          BY <4>1, <4>2
      <3> QED
        BY <3>4, <3>5 DEF n
    <2>6. /\ requested \in Seq(Elements) /\ Len(requested) = Len(references)
          /\ requested[1] = references[core]
          /\ \A i \in 2..Len(requested) : requested[i] = rest[i - 1]
          /\ DOMAIN requested = 1..Len(requested)
      <3>1. references[core] \in Elements
        BY <1>1, <2>1
      <3> DEFINE whole == <<references[core]>> \o rest
      <3>2. /\ whole \in Seq(Elements) /\ Len(whole) = Len(rest) + 1 /\ whole[1] = references[core]
            /\ \A i \in 2..Len(whole) : whole[i] = rest[i - 1]
        <4> HIDE DEF Elements
        <4> QED
          BY <2>5, <3>1, Prepended
      <3>3. requested = whole
        BY <2>2
      <3> HIDE DEF whole, Elements
      <3>4. DOMAIN whole = 1..Len(whole)
        BY <3>2
      <3> QED
        BY <1>1, <2>5, <3>2, <3>3, <3>4
    <2>7. \A i \in 1..Len(references) :
             place[i] \in 1..Len(references) /\ requested[i] = references[place[i]]
      <3> TAKE i \in 1..Len(references)
      <3>1. CASE i = 1
        BY <3>1, <2>1, <2>6
      <3>2. CASE i # 1
        <4>1. i \in 2..Len(requested) /\ i - 1 \in 1..Len(rest) /\ (i - 1) + 1 = i
          BY <3>2, <1>1, <2>5, <2>6
        <4>2. requested[i] = IF i - 1 < core THEN references[i - 1] ELSE references[i]
          BY <2>5, <2>6, <4>1
        <4>3. i - 1 < core <=> i <= core
          BY <2>1, <4>1
        <4> QED
          BY <1>1, <2>1, <3>2, <4>1, <4>2, <4>3
      <3> QED
        BY <3>1, <3>2
    <2>8. \A i, j \in 1..Len(references) : place[i] = place[j] => i = j
      BY <1>1, <2>1
    <2>9. \A k \in 1..Len(references) : \E i \in 1..Len(references) : place[i] = k
      <3> TAKE k \in 1..Len(references)
      <3>1. CASE k = core
        <4>1. 1 \in 1..Len(references) /\ place[1] = k
          BY <1>1, <3>1
        <4> QED
          BY <4>1
      <3>2. CASE k < core
        <4>1. k + 1 \in 1..Len(references) /\ place[k + 1] = k
          BY <1>1, <2>1, <3>2
        <4> QED
          BY <4>1
      <3>3. CASE k > core
        <4>1. place[k] = k
          BY <1>1, <2>1, <3>3
        <4> QED
          BY <4>1
      <3> QED
        BY <1>1, <2>1, <3>1, <3>2, <3>3
    <2> HIDE DEF place
    <2>10. \A i, j \in 1..Len(requested) : requested[i].name = requested[j].name => i = j
      <3> SUFFICES ASSUME NEW i \in 1..Len(requested), NEW j \in 1..Len(requested),
                          requested[i].name = requested[j].name
                   PROVE  i = j
        OBVIOUS
      <3>1. /\ place[i] \in 1..Len(references) /\ requested[i] = references[place[i]]
            /\ place[j] \in 1..Len(references) /\ requested[j] = references[place[j]]
        BY <2>6, <2>7
      <3>2. place[i] = place[j]
        BY <1>1, <3>1
      <3> QED
        BY <2>6, <2>8, <3>2
    <2>11. {requested[i].name : i \in 1..Len(requested)} =
             {Core} \cup {reference.name : reference \in ToSet(references)}
      <3>1. \A i \in 1..Len(requested) : requested[i] \in ToSet(references)
        BY <1>5, <2>6, <2>7
      <3>2. ASSUME NEW reference \in ToSet(references)
            PROVE  \E i \in 1..Len(requested) : requested[i].name = reference.name
        <4>1. PICK k \in 1..Len(references) : references[k] = reference
          BY <1>5
        <4>2. PICK i \in 1..Len(references) : place[i] = k
          BY <2>9
        <4> QED
          BY <2>6, <2>7, <4>1, <4>2
      <3>3. Core = references[core].name /\ references[core] \in ToSet(references)
        BY <1>5, <2>1
      <3> QED
        BY <3>1, <3>2, <3>3
    <2>12. requested # <<>>
      BY <1>1, <2>1, <2>6
    <2> QED
      BY <2>1, <2>6, <2>10, <2>11, <2>12 DEF references, requested
  <1> QED
    BY <1>6, <1>7

\* A row of a plan, where nothing failed.
LEMMA RowIs ==
    ASSUME FrameworkInputs(world),
           NEW reference, reference.runtime \in Versions \cup {NoVersion},
           LET row == PlanFramework(world.project, world.definitions, world.frameworks, reference)
           IN  row.error = "none"
    PROVE  LET project == world.project
               row == PlanFramework(project, world.definitions, world.frameworks, reference)
               shared == world.frameworks.shared
           IN  /\ reference.name \in DOMAIN world.definitions
               /\ row.name = reference.name
               /\ row.runtimeName = world.definitions[reference.name].runtimeName
               /\ IF project.selfContained
                  THEN row.selected = NoSdk
                  ELSE row.selected # NoSdk
                       /\ RuntimeFits(shared[row.runtimeName], row)
  <1> DEFINE project == world.project
             definitions == world.definitions
             installed == world.frameworks
             row == PlanFramework(project, definitions, installed, reference)
             definition == definitions[reference.name]
             requested == RequestedRuntimeVersion(project, reference, definition)
             packVersion == IF reference.pack # NoVersion THEN reference.pack ELSE definition.packVersion
             pack == LocateTargetingPack(installed, definition.pack, packVersion)
             selected == SelectInstalledRuntime(installed.shared[definition.runtimeName], requested,
                                                project.rollForward)
             Row(version) == [name |-> reference.name, runtimeName |-> definition.runtimeName,
                              requested |-> requested, selected |-> version, pack |-> pack,
                              error |-> "none"]
  <1>1. reference.name \in DOMAIN definitions
    <2>1. reference.name \notin DOMAIN definitions => row = [error |-> "unknown"]
      BY DEF PlanFramework
    <2> HIDE DEF row
    <2>2. row.error = "none"
      BY DEF row
    <2> QED
      BY <2>1, <2>2
  <1>2. pack \in {"none", "installed", "cached"}
    BY DEF LocateTargetingPack
  <1>3. row = CASE pack = "none" -> [error |-> "pack"]
                [] pack # "none" /\ project.selfContained -> Row(NoSdk)
                [] pack # "none" /\ ~project.selfContained ->
                     IF selected = NoSdk THEN [error |-> "runtime"] ELSE Row(selected)
    BY <1>1 DEF PlanFramework
  <1>4. requested \in Versions
    <2>1. /\ reference.runtime \in Versions \cup {NoVersion}
          /\ project.runtime \in Versions \cup {NoVersion}
          /\ definition.default \in Versions /\ definition.latest \in Versions
      BY <1>1 DEF FrameworkInputs
    <2> HIDE DEF project, definition
    <2> QED
      BY <2>1 DEF RequestedRuntimeVersion
  <1>5. /\ installed.shared[definition.runtimeName] \subseteq Versions
        /\ IsFiniteSet(installed.shared[definition.runtimeName])
        /\ project.rollForward \in RuntimePolicies /\ project.selfContained \in BOOLEAN
    BY <1>1 DEF FrameworkInputs
  <1>6. row.error = "none"
    OBVIOUS
  <1> HIDE DEF pack, requested, selected, row, definition, project
  <1>7. pack # "none"
    BY <1>3, <1>6
  <1>8. CASE project.selfContained
    <2>1. row = Row(NoSdk)
      BY <1>3, <1>7, <1>8
    <2> QED
      BY <1>1, <1>8, <2>1 DEF row, project, definition
  <1>9. CASE ~project.selfContained
    <2>1. selected # NoSdk
      BY <1>3, <1>6, <1>7, <1>9
    <2>2. row = Row(selected)
      BY <1>3, <1>7, <1>9, <2>1
    <2>3. /\ row.name = reference.name /\ row.runtimeName = definition.runtimeName
          /\ row.requested = requested /\ row.selected = selected
      BY <2>2
    <2>4. /\ row.selected = SelectInstalledRuntime(installed.shared[row.runtimeName], row.requested,
                                                   world.project.rollForward)
          /\ world.project.rollForward \in RuntimePolicies
      BY <1>5, <2>3 DEF selected, project
    <2>5. RuntimeFits(installed.shared[row.runtimeName], row)
      BY <1>4, <1>5, <2>3, <2>4, RuntimeSelected
    <2> QED
      BY <1>1, <1>9, <2>1, <2>3, <2>5 DEF row, project, definition
  <1> QED
    BY <1>8, <1>9

\* The batch of a project whose frameworks are all known.
LEMMA BatchIs ==
    ASSUME FrameworkInputs(world), world.project.family \in {"net", "netcoreapp"},
           LET requested == RequestedFrameworks(world.project)
           IN  \A i \in DOMAIN requested : requested[i].name \in DOMAIN world.definitions
    PROVE  LET pruned == PruningFrameworkBatch(world.project, world.definitions)
               requested == RequestedFrameworks(world.project)
           IN  /\ pruned.error = "none"
               /\ \A name : name \in pruned.batch <=>
                     /\ name \in Prunable
                     /\ \E i \in DOMAIN requested :
                           name = world.definitions[requested[i].name].runtimeName
  <1> DEFINE project == world.project
             definitions == world.definitions
             requested == RequestedFrameworks(project)
             names == {reference.name : reference \in ToSet(project.references)}
             pruned == PruningFrameworkBatch(project, definitions)
             mapped == PackagePruningRuntimeNames(project, definitions)
             runtimes == {definitions[requested[i].name].runtimeName : i \in DOMAIN requested}
  <1>1. /\ {requested[i].name : i \in DOMAIN requested} = {Core} \cup names
        /\ requested # <<>> /\ requested[1].name = Core /\ 1 \in DOMAIN requested
        /\ requested \in Seq(ToSet(project.references) \cup {Implicit})
    <2>1. /\ {requested[i].name : i \in DOMAIN requested} = {Core} \cup names
          /\ requested # <<>> /\ requested[1].name = Core
          /\ requested \in Seq(ToSet(project.references) \cup {Implicit})
      BY RequestedAre
    <2>2. Len(requested) \in Nat /\ Len(requested) # 0 /\ DOMAIN requested = 1..Len(requested)
      BY <2>1
    <2>3. 1 \in DOMAIN requested
      BY <2>2
    <2> QED
      BY <2>1, <2>3
  <1>2. \A name \in {Core} \cup names : /\ name \in DOMAIN definitions
                                        /\ name \in Prunable => definitions[name].runtimeName = name
    BY <1>1 DEF FrameworkInputs
  <1>3. runtimes = {definitions[name].runtimeName : name \in {Core} \cup names}
    <2>1. ASSUME NEW i \in DOMAIN requested
          PROVE  requested[i].name \in {Core} \cup names
      BY <1>1
    <2>2. ASSUME NEW name \in {Core} \cup names
          PROVE  \E i \in DOMAIN requested : requested[i].name = name
      BY <1>1
    <2> HIDE DEF names
    <2> QED
      BY <2>1, <2>2
  <1>4. ASSUME NEW batch \in SUBSET Prunable
        PROVE  Kept(batch) = [error |-> "none", batch |-> batch]
    <2>1. Cardinality(batch) <= Cardinality(Prunable) /\ IsFiniteSet(batch)
      BY <1>4, PrunableAssumption, FS_Subset
    <2>2. Cardinality(batch) \in Nat /\ Cardinality(Prunable) \in Nat
      BY <2>1, PrunableAssumption, FS_CardinalityType
    <2>3. Cardinality(batch) <= 3
      BY <2>1, <2>2, PrunableAssumption
    <2> QED
      BY <2>3 DEF Kept
  <1>5. CASE names \subseteq Prunable
    <2>1. pruned = Kept({Core} \cup names)
      BY <1>5 DEF PruningFrameworkBatch
    <2>2. {Core} \cup names \in SUBSET Prunable
      BY <1>5, PrunableAssumption
    <2>3. runtimes = {Core} \cup names
      <3> DEFINE all == {Core} \cup names
      <3>1. runtimes = {definitions[name].runtimeName : name \in all}
        BY <1>3
      <3>2. \A name \in all : definitions[name].runtimeName = name
        BY <1>2, <2>2
      <3> HIDE DEF all, runtimes
      <3>3. runtimes = all
        BY <3>1, <3>2
      <3> QED
        BY <3>3 DEF all
    <2> HIDE DEF names, pruned, runtimes
    <2>4. pruned.error = "none" /\ pruned.batch = Prunable \cap runtimes
      BY <1>4, <2>1, <2>2, <2>3
    <2>5. \A name : name \in pruned.batch <=> name \in Prunable /\ name \in runtimes
      BY <2>4
    <2> QED
      BY <2>4, <2>5 DEF pruned, runtimes
  <1>6. CASE ~(names \subseteq Prunable)
    <2>1. mapped = [error |-> "none", names |-> runtimes]
      <3> DEFINE set == PackagePruningRequestedFrameworks(project)
      <3>1. set = ToSet(requested)
        BY DEF PackagePruningRequestedFrameworks
      <3>2. set = {requested[i] : i \in DOMAIN requested}
        BY <3>1 DEF ToSet
      <3>3. \A reference \in set : reference.name \in DOMAIN definitions
        BY <3>2
      <3>4. {definitions[reference.name].runtimeName : reference \in set} = runtimes
        BY <3>2
      <3>5. mapped = IF \A reference \in set : reference.name \in DOMAIN definitions
                     THEN [error |-> "none",
                           names |-> {definitions[reference.name].runtimeName : reference \in set}]
                     ELSE [error |-> "unknown"]
        BY DEF PackagePruningRuntimeNames
      <3> HIDE DEF set, mapped, runtimes
      <3> QED
        BY <3>3, <3>4, <3>5
    <2>2. pruned = IF mapped.error = "none"
                   THEN Kept({Core} \cup ((names \cup mapped.names) \cap Prunable))
                   ELSE mapped
      BY <1>6 DEF PruningFrameworkBatch
    <2> HIDE DEF mapped, names, pruned
    <2>3. pruned = Kept({Core} \cup ((names \cup runtimes) \cap Prunable))
      <3> HIDE DEF runtimes
      <3> QED
        BY <2>1, <2>2
    <2>4. {Core} \cup ((names \cup runtimes) \cap Prunable) = Prunable \cap runtimes
      <3>1. Core \in Prunable /\ Core \in runtimes
        BY <1>2, <1>3, PrunableAssumption
      <3>2. names \cap Prunable \subseteq runtimes
        BY <1>2, <1>3
      <3> HIDE DEF runtimes
      <3> QED
        BY <3>1, <3>2
    <2> HIDE DEF runtimes
    <2>5. pruned.error = "none" /\ pruned.batch = Prunable \cap runtimes
      <3>1. Prunable \cap runtimes \in SUBSET Prunable
        OBVIOUS
      <3>2. pruned = Kept(Prunable \cap runtimes)
        BY <2>3, <2>4
      <3>3. pruned = [error |-> "none", batch |-> Prunable \cap runtimes]
        BY <1>4, <3>1, <3>2
      <3> QED
        BY <3>3
    <2>6. \A name : name \in pruned.batch <=> name \in Prunable /\ name \in runtimes
      BY <2>5
    <2> QED
      BY <2>5, <2>6 DEF pruned, runtimes
  <1> QED
    BY <1>5, <1>6

\* What is planned of the frameworks of a project fits it, if nothing failed.
LEMMA FrameworksPlanned ==
    ASSUME FrameworkInputs(world)
    PROVE  LET plan == PlanFrameworks(world.project, world.definitions, world.frameworks)
           IN  plan.error = "none" => PlanFits(plan.rows)
  <1> DEFINE project == world.project
             definitions == world.definitions
             installed == world.frameworks
             plan == PlanFrameworks(project, definitions, installed)
             requested == RequestedFrameworks(project)
             rows == [i \in DOMAIN requested |-> PlanFramework(project, definitions, installed, requested[i])]
             failing == {i \in DOMAIN rows : rows[i].error # "none"}
  <1> SUFFICES ASSUME plan.error = "none" PROVE PlanFits(plan.rows)
    OBVIOUS
  <1>1. /\ requested \in Seq(ToSet(project.references) \cup {Implicit}) /\ requested # <<>>
        /\ requested[1].name = Core
        /\ \A i, j \in DOMAIN requested : requested[i].name = requested[j].name => i = j
        /\ {requested[i].name : i \in DOMAIN requested} =
              {Core} \cup {reference.name : reference \in ToSet(project.references)}
    BY RequestedAre
  <1>2. plan = IF failing = {}
               THEN [rows |-> rows, error |-> "none"]
               ELSE [rows |-> <<>>, error |-> rows[CHOOSE i \in failing : \A j \in failing : i <= j].error]
    BY DEF PlanFrameworks
  <1>3. failing = {}
    <2> SUFFICES ASSUME failing # {} PROVE FALSE
      OBVIOUS
    <2>1. failing \in SUBSET Nat
      BY <1>1
    <2>2. \E i \in failing : \A j \in failing : i <= j
      <3> HIDE DEF failing
      <3> QED
        BY <2>1, RootFold!LeastNumber
    <2> DEFINE first == CHOOSE i \in failing : \A j \in failing : i <= j
    <2>3. first \in failing
      BY <2>2
    <2>4. rows[first].error # "none"
      BY <2>3
    <2>5. plan.error = rows[first].error
      <3> HIDE DEF plan, rows, failing
      <3> QED
        BY <1>2 DEF first
    <2> HIDE DEF plan, rows, first
    <2>6. plan.error = "none"
      BY DEF plan
    <2> QED
      BY <2>4, <2>5, <2>6
  <1>4. plan.rows = rows
    BY <1>2, <1>3
  <1>5. \A i \in DOMAIN requested :
           LET row == PlanFramework(project, definitions, installed, requested[i])
           IN  row.error = "none"
    BY <1>3
  <1>6. \A i \in DOMAIN requested : requested[i].runtime \in Versions \cup {NoVersion}
    <2>1. Implicit.runtime = NoVersion
      BY DEF Implicit
    <2>2. \A i \in DOMAIN requested : requested[i] \in ToSet(project.references) \cup {Implicit}
      <3> HIDE DEF requested
      <3> QED
        BY <1>1
    <2> QED
      BY <2>1, <2>2 DEF FrameworkInputs
  <1>7. \A i \in DOMAIN requested :
           /\ requested[i].name \in DOMAIN definitions
           /\ rows[i].name = requested[i].name
           /\ rows[i].runtimeName = definitions[requested[i].name].runtimeName
           /\ IF project.selfContained
              THEN rows[i].selected = NoSdk
              ELSE rows[i].selected # NoSdk
                   /\ RuntimeFits(installed.shared[rows[i].runtimeName], rows[i])
    <2> TAKE i \in DOMAIN requested
    <2> DEFINE reference == requested[i]
    <2>1. reference.runtime \in Versions \cup {NoVersion}
      BY <1>6
    <2>2. LET row == PlanFramework(project, definitions, installed, reference) IN row.error = "none"
      BY <1>5
    <2>3. rows[i] = PlanFramework(project, definitions, installed, reference)
      OBVIOUS
    <2> HIDE DEF reference, rows
    <2> QED
      BY <2>1, <2>2, <2>3, RowIs DEF reference
  <1>8. DOMAIN rows = DOMAIN requested
    OBVIOUS
  <1>9. {rows[i].name : i \in DOMAIN rows} = {requested[i].name : i \in DOMAIN requested}
    BY <1>7
  <1>10. {rows[i].runtimeName : i \in DOMAIN rows} =
            {definitions[requested[i].name].runtimeName : i \in DOMAIN requested}
    BY <1>7
  <1>11. 1 \in DOMAIN requested /\ Len(requested) \in Nat /\ DOMAIN requested = 1..Len(requested)
    <2> HIDE DEF requested
    <2>1. Len(requested) \in Nat /\ Len(requested) # 0 /\ DOMAIN requested = 1..Len(requested)
      BY <1>1
    <2> QED
      BY <2>1
  <1>12. project.family \in {"net", "netcoreapp"} =>
            LET pruned == PruningFrameworkBatch(project, definitions)
            IN  /\ pruned.error = "none"
                /\ pruned.batch = Prunable \cap {rows[i].runtimeName : i \in DOMAIN rows}
    <2>1. \A i \in DOMAIN requested : requested[i].name \in DOMAIN definitions
      BY <1>7
    <2>2. ASSUME project.family \in {"net", "netcoreapp"}
          PROVE  LET pruned == PruningFrameworkBatch(project, definitions)
                 IN  /\ pruned.error = "none"
                     /\ \A name : name \in pruned.batch <=>
                           /\ name \in Prunable
                           /\ \E i \in DOMAIN requested :
                                 name = definitions[requested[i].name].runtimeName
      BY <2>1, <2>2, BatchIs
    <2> HIDE DEF rows, requested
    <2>3. \A name : name \in {rows[i].runtimeName : i \in DOMAIN rows} <=>
             \E i \in DOMAIN requested : name = definitions[requested[i].name].runtimeName
      BY <1>10
    <2> QED
      BY <2>2, <2>3
  <1>13. Len(rows) = Cardinality({rows[i].name : i \in DOMAIN rows})
    <2> DEFINE n == Len(requested)
               names == {requested[i].name : i \in DOMAIN requested}
               naming == [i \in 1..n |-> requested[i].name]
    <2>0. n \in Nat /\ n \in Int /\ 1 \in Int /\ DOMAIN requested = 1..n
      BY <1>11
    <2>1. Len(rows) = n
      <3> HIDE DEF requested, n
      <3> QED
        BY <2>0
    <2>2. naming \in Bijection(1..n, names)
      <3>1. naming \in [1..n -> names]
        BY <2>0
      <3>2. \A i, j \in 1..n : naming[i] = naming[j] => i = j
        BY <1>1, <2>0
      <3>3. \A name \in names : \E i \in 1..n : naming[i] = name
        BY <2>0
      <3> HIDE DEF naming, names
      <3> QED
        BY <3>1, <3>2, <3>3 DEF Bijection, Injection, Surjection, IsInjective
    <2> HIDE DEF n, names, naming
    <2>3. IsFiniteSet(1..n) /\ Cardinality(1..n) = IF 1 > n THEN 0 ELSE n - 1 + 1
      BY <2>0, FS_Interval
    <2>4. ExistsBijection(1..n, names)
      BY <2>2 DEF ExistsBijection
    <2>5. Cardinality(names) = Cardinality(1..n)
      BY <2>3, <2>4, FS_Bijection
    <2>6. Cardinality(1..n) = n
      BY <2>0, <2>3
    <2> QED
      BY <1>9, <2>1, <2>5, <2>6 DEF names
  <1>14. rows[1].name = Core
    BY <1>1, <1>7, <1>11
  <1>15. \A i \in DOMAIN rows :
            IF project.selfContained
            THEN rows[i].selected = NoSdk
            ELSE rows[i].selected # NoSdk
                 /\ RuntimeFits(installed.shared[rows[i].runtimeName], rows[i])
    BY <1>7, <1>8
  <1>16. {rows[i].name : i \in DOMAIN rows} =
            {Core} \cup {reference.name : reference \in ToSet(project.references)}
    BY <1>1, <1>9
  <1> HIDE DEF rows, requested, plan
  <1> QED
    BY <1>4, <1>12, <1>13, <1>14, <1>15, <1>16, Zenon DEF PlanFits

(***************************************************************************)
(* The configuration                                                       *)
(***************************************************************************)

\* What Retained folds: a row onto those so far, if it is kept.
Keep(kept, so_far, row) == IF row \in kept THEN Append(so_far, row) ELSE so_far

\* The loop of Retained.
KeepFold == INSTANCE Folding WITH Op <- Keep

\* Some rows are those of the first n that are kept, in their order.
IsKept(result, rows, kept, n) ==
    \E place \in [1..Len(result) -> 1..n] :
       /\ \A i, j \in 1..Len(result) : i < j => place[i] < place[j]
       /\ \A i \in 1..Len(result) : result[i] = rows[place[i]] /\ result[i] \in kept
       /\ \A p \in 1..n : rows[p] \in kept => \E i \in 1..Len(result) : place[i] = p

\* Folding one more row keeps what is kept of one more.
LEMMA KeepIs ==
    ASSUME NEW V, NEW rows \in Seq(V), NEW kept, NEW n \in Nat, n + 1 \in 1..Len(rows),
           NEW result \in Seq(V), IsKept(result, rows, kept, n)
    PROVE  LET after == Keep(kept, result, rows[n + 1])
           IN  after \in Seq(V) /\ IsKept(after, rows, kept, n + 1)
  <1> DEFINE row == rows[n + 1]
             after == Keep(kept, result, row)
  <1>1. PICK place \in [1..Len(result) -> 1..n] :
           /\ \A i, j \in 1..Len(result) : i < j => place[i] < place[j]
           /\ \A i \in 1..Len(result) : result[i] = rows[place[i]] /\ result[i] \in kept
           /\ \A p \in 1..n : rows[p] \in kept => \E i \in 1..Len(result) : place[i] = p
    BY DEF IsKept
  <1>2. row \in V /\ Len(result) \in Nat
    OBVIOUS
  <1>3. \A i \in 1..Len(result) : place[i] \in 1..n
    BY <1>1
  <1>4. CASE row \in kept
    <2> DEFINE longer == [i \in 1..(Len(result) + 1) |-> IF i = Len(result) + 1 THEN n + 1 ELSE place[i]]
    <2>1. /\ after \in Seq(V) /\ Len(after) = Len(result) + 1 /\ after[Len(result) + 1] = row
          /\ \A i \in 1..Len(result) : after[i] = result[i]
      BY <1>2, <1>4 DEF Keep
    <2> HIDE DEF after, row
    <2>2. longer \in [1..Len(after) -> 1..(n + 1)]
      BY <1>2, <1>3, <2>1
    <2>3. ASSUME NEW i \in 1..Len(after), NEW j \in 1..Len(after), i < j PROVE longer[i] < longer[j]
      BY <1>1, <1>2, <1>3, <2>1, <2>3
    <2>4. ASSUME NEW i \in 1..Len(after) PROVE after[i] = rows[longer[i]] /\ after[i] \in kept
      <3>1. CASE i = Len(result) + 1
        <4>1. longer[i] = n + 1
          BY <2>1, <3>1
        <4> HIDE DEF longer
        <4> QED
          BY <1>4, <2>1, <3>1, <4>1 DEF row
      <3>2. CASE i # Len(result) + 1
        <4>1. i \in 1..Len(result)
          BY <1>2, <2>1, <3>2
        <4>2. longer[i] = place[i]
          BY <2>1, <3>2
        <4> HIDE DEF longer
        <4> QED
          BY <1>1, <2>1, <4>1, <4>2
      <3> QED
        BY <3>1, <3>2
    <2>5. ASSUME NEW p \in 1..(n + 1), rows[p] \in kept
          PROVE  \E i \in 1..Len(after) : longer[i] = p
      <3>1. CASE p = n + 1
        <4>1. Len(after) \in 1..Len(after) /\ longer[Len(after)] = p
          BY <1>2, <2>1, <3>1
        <4> HIDE DEF longer
        <4> QED
          BY <4>1
      <3>2. CASE p # n + 1
        <4>1. p \in 1..n
          BY <3>2
        <4>2. PICK i \in 1..Len(result) : place[i] = p
          BY <1>1, <2>5, <4>1
        <4>3. i \in 1..Len(after) /\ longer[i] = p
          BY <1>2, <2>1, <4>2
        <4> HIDE DEF longer
        <4> QED
          BY <4>3
      <3> QED
        BY <3>1, <3>2
    <2> HIDE DEF longer
    <2>6. IsKept(after, rows, kept, n + 1)
      BY <2>2, <2>3, <2>4, <2>5 DEF IsKept
    <2> QED
      BY <2>1, <2>6 DEF after, row
  <1>5. CASE row \notin kept
    <2>1. after = result
      BY <1>5 DEF Keep
    <2>2. place \in [1..Len(result) -> 1..(n + 1)]
      BY <1>1, <1>3
    <2>3. \A p \in 1..(n + 1) : rows[p] \in kept => p \in 1..n
      BY <1>5
    <2>4. IsKept(result, rows, kept, n + 1)
      BY <1>1, <2>2, <2>3 DEF IsKept
    <2> QED
      BY <2>1, <2>4
  <1> QED
    BY <1>4, <1>5

\* What is retained are the rows that are kept.
LEMMA RetainedIs ==
    ASSUME NEW V, NEW rows \in Seq(V), NEW kept
    PROVE  /\ Retained(rows, kept) \in Seq(V)
           /\ IsKept(Retained(rows, kept), rows, kept, Len(rows))
  <1> DEFINE N == Len(rows)
  <1>1. PICK trace : /\ KeepFold!IsTrace(trace, kept, <<>>, rows)
                     /\ KeepFold!Folded(kept, <<>>, rows) = trace[N]
    BY KeepFold!FoldTrace
  <1>2. Retained(rows, kept) = trace[N]
    <2>1. Retained(rows, kept) = KeepFold!Folded(kept, <<>>, rows)
      BY DEF Retained, Keep, KeepFold!Folded, FoldLeft, KeepFold!FoldLeft, MapThenFoldSet,
             KeepFold!MapThenFoldSet, Max, KeepFold!Max
    <2> QED
      BY <1>1, <2>1
  <1>3. N \in Nat
    OBVIOUS
  <1> DEFINE T == {n \in 0..N : trace[n] \in Seq(V) /\ IsKept(trace[n], rows, kept, n)}
  <1>4. T = 0..N
    <2>1. 0 \in T
      <3>1. trace[0] = <<>>
        BY <1>1, <1>3 DEF KeepFold!IsTrace
      <3>2. IsKept(<<>>, rows, kept, 0)
        <4>1. <<>> \in [1..Len(<<>>) -> 1..0] /\ 1..Len(<<>>) = {} /\ 1..0 = {}
          OBVIOUS
        <4> QED
          BY <4>1 DEF IsKept
      <3>3. trace[0] \in Seq(V) /\ IsKept(trace[0], rows, kept, 0)
        BY <3>1, <3>2
      <3> QED
        BY <1>3, <3>3
    <2>2. ASSUME NEW n \in T, n + 1 \in 0..N PROVE n + 1 \in T
      <3>1. trace[n + 1] = Keep(kept, trace[n], rows[n + 1])
        BY <1>1, <1>3, <2>2 DEF KeepFold!IsTrace
      <3>2. n \in Nat /\ n + 1 \in 1..Len(rows) /\ trace[n] \in Seq(V) /\ IsKept(trace[n], rows, kept, n)
        BY <2>2
      <3> HIDE DEF T
      <3>3. trace[n + 1] \in Seq(V) /\ IsKept(trace[n + 1], rows, kept, n + 1)
        BY <3>1, <3>2, KeepIs
      <3> QED
        BY <2>2, <3>3 DEF T
    <2>3. T \in SUBSET (0..N)
      OBVIOUS
    <2> HIDE DEF T
    <2> QED
      BY <1>3, <2>1, <2>2, <2>3, KeepFold!Numbers
  <1>5. N \in T
    BY <1>3, <1>4
  <1> QED
    BY <1>2, <1>5

\* What is known of the places of elements, from what the files are.
LEMMA WordFacts ==
    ASSUME ConfigInputs(world)
    PROVE  /\ Len(world.files) \in Nat /\ DOMAIN world.files = 1..Len(world.files)
           /\ \A k \in 1..Len(world.files) :
                 /\ Len(world.files[k]) \in Nat
                 /\ world.files[k] \in Seq(UNION {ToSet(file) : file \in ToSet(world.files)})
                 /\ DOMAIN world.files[k] = 1..Len(world.files[k])
                 /\ \A i \in 1..Len(world.files[k]) : <<k, i>> \in Words
           /\ \A place \in Words :
                 /\ place = <<place[1], place[2]>>
                 /\ place[1] \in 1..Len(world.files) /\ place[2] \in 1..Len(world.files[place[1]])
                 /\ Word(place).section \in Sections /\ Word(place).op \in {"add", "remove", "clear"}
                 /\ Word(place).section = "config" /\ Word(place).key = "globalPackagesFolder" =>
                       Word(place).value \in Folders \cup {Unset}
  <1> DEFINE files == world.files
             E == UNION {ToSet(file) : file \in ToSet(world.files)}
  <1>1. files \in Seq(Seq(E))
    BY DEF ConfigInputs
  <1> HIDE DEF E
  <1>2. Len(files) \in Nat /\ DOMAIN files = 1..Len(files) /\ \A k \in 1..Len(files) : files[k] \in Seq(E)
    BY <1>1
  <1>3. \A k \in 1..Len(files) : files[k] \in ToSet(files)
    BY <1>2 DEF ToSet
  <1>4. \A k \in 1..Len(files) : Len(files[k]) \in Nat /\ DOMAIN files[k] = 1..Len(files[k])
    <2> SUFFICES ASSUME NEW k \in 1..Len(files)
                 PROVE  Len(files[k]) \in Nat /\ DOMAIN files[k] = 1..Len(files[k])
      OBVIOUS
    <2>1. files[k] \in Seq(E)
      BY <1>2
    <2> QED
      BY <2>1
  <1> DEFINE file(k) == files[k]
  <1>5. ASSUME NEW place \in Words
        PROVE  /\ place = <<place[1], place[2]>>
               /\ place[1] \in 1..Len(files) /\ place[2] \in 1..Len(files[place[1]])
    <2>1. PICK k \in DOMAIN files : place \in {k} \X DOMAIN files[k]
      BY DEF Words
    <2> QED
      BY <1>2, <1>4, <2>1
  <1>6. ASSUME NEW place \in Words
        PROVE  /\ Word(place).section \in Sections /\ Word(place).op \in {"add", "remove", "clear"}
               /\ Word(place).section = "config" /\ Word(place).key = "globalPackagesFolder" =>
                     Word(place).value \in Folders \cup {Unset}
    <2>1. files[place[1]] \in ToSet(files)
      BY <1>3, <1>5
    <2>2. Word(place) \in ToSet(files[place[1]])
      BY <1>4, <1>5 DEF Word, ToSet
    <2> QED
      BY <2>1, <2>2 DEF ConfigInputs
  <1>7. ASSUME NEW k \in 1..Len(files), NEW i \in 1..Len(files[k]) PROVE <<k, i>> \in Words
    BY <1>2, <1>4 DEF Words
  <1> QED
    BY <1>2, <1>4, <1>5, <1>6, <1>7 DEF E

\* Places are totally ordered.
LEMMA SoonerOrders ==
    ASSUME ConfigInputs(world)
    PROVE  /\ \A p \in Words : ~Sooner(p, p)
           /\ \A p, q \in Words : Sooner(p, q) => ~Sooner(q, p)
           /\ \A p, q, r \in Words : Sooner(p, q) /\ Sooner(q, r) => Sooner(p, r)
           /\ \A p, q \in Words : p = q \/ Sooner(p, q) \/ Sooner(q, p)
  <1>1. \A p \in Words : p[1] \in Int /\ p[2] \in Int /\ p = <<p[1], p[2]>>
    <2> SUFFICES ASSUME NEW p \in Words PROVE p[1] \in Int /\ p[2] \in Int /\ p = <<p[1], p[2]>>
      OBVIOUS
    <2>1. p[1] \in 1..Len(world.files) /\ p[2] \in 1..Len(world.files[p[1]]) /\ p = <<p[1], p[2]>>
      BY WordFacts
    <2> QED
      BY <2>1
  <1>2. ASSUME NEW p \in Words, NEW q \in Words PROVE p = q \/ Sooner(p, q) \/ Sooner(q, p)
    <2>1. p[1] = q[1] /\ p[2] = q[2] => p = q
      BY <1>1
    <2> QED
      BY <1>1, <2>1 DEF Sooner
  <1>3. ASSUME NEW p \in Words, NEW q \in Words, NEW r \in Words, Sooner(p, q), Sooner(q, r)
        PROVE  Sooner(p, r)
    BY <1>1, <1>3 DEF Sooner
  <1>4. ASSUME NEW p \in Words, NEW q \in Words, Sooner(p, q) PROVE ~Sooner(q, p)
    BY <1>1, <1>4 DEF Sooner
  <1>5. ASSUME NEW p \in Words PROVE ~Sooner(p, p)
    BY <1>1 DEF Sooner
  <1> QED
    BY <1>2, <1>3, <1>4, <1>5

\* A word after all of these.
ComesAfter(words, word) == word \in Words /\ \A place \in words : Sooner(place, word)

\* How a further word changes what is said of a key.
LEMMA SaidGrows ==
    ASSUME ConfigInputs(world), NEW words \in SUBSET Words, NEW word, ComesAfter(words, word),
           NEW section, NEW key
    PROVE  LET element == Word(word)
               before == Said(words, section, key)
               after == Said(words \cup {word}, section, key)
           IN  /\ element.section # section => after = before
               /\ element.section = section =>
                     /\ element.op = "clear" => after = {}
                     /\ element.op = "remove" => after = IF element.key = key THEN {} ELSE before
                     /\ element.op = "add" =>
                           after = IF element.key = key THEN before \cup {word} ELSE before
               /\ before \in SUBSET words
  <1> DEFINE element == Word(word)
             more == words \cup {word}
             Stays(place, some) ==
                \A later \in some :
                   Sooner(place, later) /\ Word(later).section = section =>
                      /\ Word(later).op # "clear"
                      /\ Word(later).op = "remove" => Word(later).key # key
             Adds(place) == Word(place).section = section /\ Word(place).op = "add" /\ Word(place).key = key
  <1>1. \A some, place : place \in Said(some, section, key) <=> place \in some /\ Adds(place) /\ Stays(place, some)
    BY DEF Said
  <1>2. word \in Words /\ \A place \in words : place \in Words /\ Sooner(place, word)
    BY DEF ComesAfter
  <1>3. ~Sooner(word, word) /\ \A place \in words : ~Sooner(word, place)
    BY <1>2, SoonerOrders
  <1>4. Stays(word, more)
    BY <1>3
  <1>5. \A place \in words : Stays(place, more) <=>
           /\ Stays(place, words)
           /\ element.section = section => /\ element.op # "clear"
                                           /\ element.op = "remove" => element.key # key
    BY <1>2
  <1>6. /\ "add" # "clear" /\ "add" # "remove" /\ "clear" # "remove"
    OBVIOUS
  <1> HIDE DEF Stays
  <1>7. element.section # section => Said(more, section, key) = Said(words, section, key)
    <2> SUFFICES ASSUME element.section # section
                 PROVE  \A place : place \in Said(more, section, key) <=> place \in Said(words, section, key)
      OBVIOUS
    <2>1. ~Adds(word)
      OBVIOUS
    <2>2. \A place \in words : Stays(place, more) <=> Stays(place, words)
      BY <1>5
    <2>3. more = words \cup {word}
      OBVIOUS
    <2> HIDE DEF Adds, element, more
    <2>4. TAKE place
    <2>5. CASE place \in words
      BY <1>1, <2>2, <2>3, <2>5
    <2>6. CASE place \notin words
      BY <1>1, <2>1, <2>3, <2>6
    <2> QED
      BY <2>5, <2>6
  <1>8. element.section = section /\ element.op = "clear" => Said(more, section, key) = {}
    BY <1>1, <1>5
  <1>9. element.section = section /\ element.op = "remove" =>
           Said(more, section, key) = IF element.key = key THEN {} ELSE Said(words, section, key)
    <2> SUFFICES ASSUME element.section = section, element.op = "remove"
                 PROVE  \A place : place \in Said(more, section, key) <=>
                                      place \in Said(words, section, key) /\ element.key # key
      OBVIOUS
    <2>1. ~Adds(word)
      OBVIOUS
    <2>2. \A place \in words : Stays(place, more) <=> Stays(place, words) /\ element.key # key
      BY <1>5
    <2>3. more = words \cup {word}
      OBVIOUS
    <2> HIDE DEF Adds, element, more
    <2>4. TAKE place
    <2>5. CASE place \in words
      BY <1>1, <2>2, <2>3, <2>5
    <2>6. CASE place \notin words
      BY <1>1, <2>1, <2>3, <2>6
    <2> QED
      BY <2>5, <2>6
  <1>10. element.section = section /\ element.op = "add" =>
            Said(more, section, key) = IF element.key = key
                                       THEN Said(words, section, key) \cup {word}
                                       ELSE Said(words, section, key)
    <2> SUFFICES ASSUME element.section = section, element.op = "add"
                 PROVE  Said(more, section, key) = IF element.key = key
                                                   THEN Said(words, section, key) \cup {word}
                                                   ELSE Said(words, section, key)
      OBVIOUS
    <2>1. \A place \in words : Stays(place, more) <=> Stays(place, words)
      BY <1>5
    <2>2. Adds(word) <=> element.key = key
      OBVIOUS
    <2> HIDE DEF Adds
    <2>3. \A place : place \in Said(more, section, key) <=>
             place \in Said(words, section, key) \/ (place = word /\ element.key = key)
      BY <1>1, <1>4, <2>1, <2>2
    <2> HIDE DEF more
    <2> QED
      BY <2>3
  <1>11. Said(words, section, key) \subseteq words
    BY DEF Said
  <1> QED
    BY <1>7, <1>8, <1>9, <1>10, <1>11

\* What Earliest and Latest choose, where there is one.
IsEarliest(first, places) == first \in places /\ \A place \in places : ~Sooner(place, first)
IsLatest(last, places) == last \in places /\ \A place \in places : ~Sooner(last, place)

\* There is one earliest place at most, and one latest.
LEMMA EarliestIs ==
    ASSUME ConfigInputs(world), NEW places \in SUBSET Words, NEW place
    PROVE  /\ IsEarliest(place, places) => Earliest(places) = place
           /\ IsLatest(place, places) => Latest(places) = place
  <1>1. ASSUME IsEarliest(place, places) PROVE Earliest(places) = place
    <2>1. \A other \in places : (\A third \in places : ~Sooner(third, other)) => other = place
      BY <1>1, SoonerOrders DEF IsEarliest
    <2> QED
      BY <1>1, <2>1 DEF Earliest, IsEarliest
  <1>2. ASSUME IsLatest(place, places) PROVE Latest(places) = place
    <2>1. \A other \in places : (\A third \in places : ~Sooner(other, third)) => other = place
      BY <1>2, SoonerOrders DEF IsLatest
    <2> QED
      BY <1>2, <2>1 DEF Latest, IsLatest
  <1> QED
    BY <1>1, <1>2

\* A further place is the latest; what was the earliest still is.
LEMMA EarliestGrows ==
    ASSUME ConfigInputs(world), NEW words \in SUBSET Words, NEW word, ComesAfter(words, word),
           NEW places \in SUBSET words
    PROVE  LET after == places \cup {word}
           IN  /\ IsLatest(word, after) /\ Latest(after) = word
               /\ places = {} => IsEarliest(word, after) /\ Earliest(after) = word
               /\ IsEarliest(Earliest(places), places) =>
                     IsEarliest(Earliest(places), after) /\ Earliest(after) = Earliest(places)
  <1> DEFINE after == places \cup {word}
  <1>1. word \in Words /\ \A place \in words : place \in Words /\ Sooner(place, word)
    BY DEF ComesAfter
  <1>2. ~Sooner(word, word) /\ \A place \in words : ~Sooner(word, place)
    BY <1>1, SoonerOrders
  <1>3. IsLatest(word, after)
    BY <1>2 DEF IsLatest
  <1>4. places = {} => IsEarliest(word, after)
    BY <1>2 DEF IsEarliest
  <1>5. IsEarliest(Earliest(places), places) => IsEarliest(Earliest(places), after)
    BY <1>2 DEF IsEarliest
  <1>6. after \in SUBSET Words
    BY <1>1
  <1> HIDE DEF after
  <1> QED
    BY <1>3, <1>4, <1>5, <1>6, EarliestIs DEF after

\* The rows of a configuration: a key and a value of some word, under the place of a file.
Rows == [key : {Word(place).key : place \in Words}, value : {Word(place).value : place \in Words},
         priority : 1..Len(world.files)]

\* A row is what some words say of its key.
IsSaid(row, section, words) ==
    LET said == Said(words, section, row.key)
    IN  /\ IsEarliest(Earliest(said), said) /\ IsLatest(Latest(said), said)
        /\ row.value = Word(Latest(said)).value /\ row.priority = Latest(said)[1]

\* A key was first said before another one was.
CameBefore(words, section, left, right) ==
    Sooner(Earliest(Said(words, section, left)), Earliest(Said(words, section, right)))

\* The rows of a section are what some words say of its keys, in the order in which they
\* came to be.
AreSaid(rows, section, words) ==
    /\ rows \in Seq(Rows)
    /\ \A i \in 1..Len(rows) : IsSaid(rows[i], section, words)
    /\ \A i, j \in 1..Len(rows) : i < j => CameBefore(words, section, rows[i].key, rows[j].key)
    /\ \A key : Said(words, section, key) # {} => \E i \in 1..Len(rows) : rows[i].key = key

\* What is merged so far is what these words say: the invariant of both loops.
Reflects(merged, words) ==
    /\ merged \in [Sections -> Seq(Rows)]
    /\ \A section \in Sections : AreSaid(merged[section], section, words)

\* The same for a word that adds a key.
LEMMA AdditionGrows ==
    ASSUME ConfigInputs(world), NEW words \in SUBSET Words, NEW word, ComesAfter(words, word),
           Word(word).op = "add", NEW key
    PROVE  Said(words \cup {word}, Word(word).section, key) =
              IF key = Word(word).key
              THEN Said(words, Word(word).section, key) \cup {word}
              ELSE Said(words, Word(word).section, key)
  BY SaidGrows, ZenonT(60)

\* No two rows have the same key.
LEMMA KeysDiffer ==
    ASSUME ConfigInputs(world), NEW section, NEW words \in SUBSET Words, NEW rows, AreSaid(rows, section, words),
           NEW i \in 1..Len(rows), NEW j \in 1..Len(rows), rows[i].key = rows[j].key
    PROVE  i = j
  <1>1. Len(rows) \in Nat
    BY DEF AreSaid
  <1>2. Earliest(Said(words, section, rows[i].key)) \in Words
    BY DEF AreSaid, IsSaid, IsEarliest, Said
  <1>3. ~CameBefore(words, section, rows[i].key, rows[j].key) /\ ~CameBefore(words, section, rows[j].key, rows[i].key)
    BY <1>2, SoonerOrders DEF CameBefore
  <1>4. ~(i < j) /\ ~(j < i)
    BY <1>3 DEF AreSaid
  <1> QED
    BY <1>1, <1>4

\* A word that adds a key is what adding its row comes to.
LEMMA AddReflects ==
    ASSUME ConfigInputs(world), NEW words \in SUBSET Words, NEW word, ComesAfter(words, word),
           NEW rows, AreSaid(rows, Word(word).section, words), Word(word).op = "add"
    PROVE  LET element == Word(word)
               row == [key |-> element.key, value |-> element.value, priority |-> word[1]]
           IN  AreSaid(Added(rows, row), element.section, words \cup {word})
  <1> DEFINE element == Word(word)
             section == element.section
             row == [key |-> element.key, value |-> element.value, priority |-> word[1]]
             more == words \cup {word}
             after == Added(rows, row)
             before(key) == Said(words, section, key)
             now(key) == Said(more, section, key)
  <1>1. \A key : now(key) = IF key = element.key THEN before(key) \cup {word} ELSE before(key)
    BY AdditionGrows, Zenon
  <1>2. word \in Words /\ word[1] \in 1..Len(world.files)
    BY WordFacts DEF ComesAfter
  <1>3. row \in Rows
    BY <1>2 DEF Rows
  <1>4. \A key : before(key) \in SUBSET words
    BY DEF Said
  <1>5. /\ rows \in Seq(Rows) /\ Len(rows) \in Nat
        /\ \A i \in 1..Len(rows) : rows[i] \in Rows /\ IsSaid(rows[i], section, words)
        /\ \A i, j \in 1..Len(rows) : i < j => CameBefore(words, section, rows[i].key, rows[j].key)
        /\ \A key : before(key) # {} => \E i \in 1..Len(rows) : rows[i].key = key
    BY DEF AreSaid
  <1>6. \A i, j \in 1..Len(rows) : rows[i].key = rows[j].key => i = j
    BY KeysDiffer
  <1>7. IsSaid(row, section, more)
    <2>1. /\ IsLatest(word, now(element.key)) /\ Latest(now(element.key)) = word
          /\ IsEarliest(Earliest(now(element.key)), now(element.key))
      <3>1. now(element.key) = before(element.key) \cup {word}
        BY <1>1
      <3>2. CASE before(element.key) = {}
        BY <1>4, <3>1, <3>2, EarliestGrows
      <3>3. CASE before(element.key) # {}
        <4>1. PICK i \in 1..Len(rows) : rows[i].key = element.key
          BY <1>5, <3>3
        <4>2. IsEarliest(Earliest(before(element.key)), before(element.key))
          BY <1>5, <4>1 DEF IsSaid
        <4>3. before(element.key) \in SUBSET words
          BY <1>4
        <4> DEFINE places == before(element.key)
        <4>4. IsEarliest(Earliest(places), places) /\ places \in SUBSET words
          BY <4>2, <4>3
        <4> HIDE DEF places, before, now, after, row, more
        <4>5. /\ IsLatest(word, places \cup {word}) /\ Latest(places \cup {word}) = word
              /\ IsEarliest(Earliest(places), places \cup {word})
              /\ Earliest(places \cup {word}) = Earliest(places)
          BY <4>4, EarliestGrows, ZenonT(60)
        <4>6. now(element.key) = places \cup {word}
          BY <3>1 DEF places
        <4> HIDE DEF now
        <4> QED
          BY <4>5, <4>6
      <3> QED
        BY <3>2, <3>3
    <2>2. row.key = element.key /\ row.value = element.value /\ row.priority = word[1]
      OBVIOUS
    <2> HIDE DEF row
    <2> QED
      BY <2>1, <2>2 DEF IsSaid
  <1>8. ASSUME NEW other \in Rows, IsSaid(other, section, words)
        PROVE  /\ other.key # element.key => IsSaid(other, section, more)
               /\ Earliest(now(other.key)) = Earliest(before(other.key))
    <2>1. other.key # element.key => now(other.key) = before(other.key)
      BY <1>1
    <2>2. other.key # element.key => IsSaid(other, section, more)
      BY <1>8, <2>1 DEF IsSaid
    <2>3. IsEarliest(Earliest(before(other.key)), before(other.key))
      BY <1>8 DEF IsSaid
    <2>4. before(other.key) \in SUBSET words
      BY <1>4
    <2>5. other.key = element.key => now(other.key) = before(other.key) \cup {word}
      BY <1>1
    <2> HIDE DEF now, before
    <2>6. other.key = element.key => Earliest(now(other.key)) = Earliest(before(other.key))
      BY <2>3, <2>4, <2>5, EarliestGrows
    <2> QED
      BY <2>1, <2>2, <2>6
  <1>9. ASSUME NEW i \in 1..Len(rows), NEW j \in 1..Len(rows), i < j
        PROVE  CameBefore(more, section, rows[i].key, rows[j].key)
    <2>1. CameBefore(words, section, rows[i].key, rows[j].key)
      BY <1>5, <1>9
    <2>2. /\ Earliest(now(rows[i].key)) = Earliest(before(rows[i].key))
          /\ Earliest(now(rows[j].key)) = Earliest(before(rows[j].key))
      BY <1>5, <1>8
    <2> QED
      BY <2>1, <2>2 DEF CameBefore
  <1> HIDE DEF now, before, more, row, section
  <1>10. row.key = element.key
    BY DEF row
  <1>11. CASE \E i \in 1..Len(rows) : rows[i].key = element.key
    <2>1. after = [i \in 1..Len(rows) |-> IF rows[i].key = element.key THEN row ELSE rows[i]]
      <3>1. DOMAIN rows = 1..Len(rows)
        BY <1>5
      <3> QED
        BY <1>10, <1>11, <3>1 DEF Added
    <2> HIDE DEF after, element
    <2>2. after \in Seq(Rows) /\ Len(after) = Len(rows)
      BY <1>3, <1>5, <2>1
    <2>3. \A i \in 1..Len(rows) : after[i] = IF rows[i].key = element.key THEN row ELSE rows[i]
      BY <2>1
    <2>4. \A i \in 1..Len(rows) : after[i].key = rows[i].key
      BY <1>10, <2>3
    <2>5. \A i \in 1..Len(rows) : IsSaid(after[i], section, more)
      BY <1>5, <1>7, <1>8, <2>3
    <2>6. \A i, j \in 1..Len(rows) : i < j => CameBefore(more, section, after[i].key, after[j].key)
      BY <1>9, <2>4
    <2>7. ASSUME NEW key, now(key) # {} PROVE \E i \in 1..Len(rows) : after[i].key = key
      <3>1. CASE key = element.key
        BY <1>11, <2>4, <3>1
      <3>2. CASE key # element.key
        <4>1. now(key) = before(key)
          BY <1>1, <3>2
        <4> QED
          BY <1>5, <2>4, <2>7, <4>1
      <3> QED
        BY <3>1, <3>2
    <2>8. AreSaid(after, section, more)
      BY <2>2, <2>5, <2>6, <2>7 DEF AreSaid, now
    <2> QED
      BY <2>8 DEF after, more, section, row, element
  <1>12. CASE ~\E i \in 1..Len(rows) : rows[i].key = element.key
    <2>1. after = Append(rows, row)
      <3>1. DOMAIN rows = 1..Len(rows)
        BY <1>5
      <3> QED
        BY <1>10, <1>12, <3>1 DEF Added
    <2> HIDE DEF after, element
    <2>2. /\ after \in Seq(Rows) /\ Len(after) = Len(rows) + 1
          /\ after[Len(rows) + 1] = row /\ \A i \in 1..Len(rows) : after[i] = rows[i]
      BY <1>3, <1>5, <2>1
    <2>3. \A i \in 1..Len(after) : i \in 1..Len(rows) \/ i = Len(rows) + 1
      BY <1>5, <2>2
    <2>4. ASSUME NEW i \in 1..Len(after) PROVE IsSaid(after[i], section, more)
      <3>1. CASE i \in 1..Len(rows)
        BY <1>5, <1>8, <1>12, <2>2, <3>1
      <3>2. CASE i = Len(rows) + 1
        BY <1>7, <2>2, <3>2
      <3> QED
        BY <2>3, <3>1, <3>2
    <2>5. ASSUME NEW i \in 1..Len(rows) PROVE CameBefore(more, section, rows[i].key, element.key)
      <3>1. before(element.key) = {}
        BY <1>5, <1>12
      <3>2. now(element.key) = before(element.key) \cup {word}
        BY <1>1
      <3>3. Earliest(now(element.key)) = word
        BY <1>4, <3>1, <3>2, EarliestGrows
      <3>4. Earliest(now(rows[i].key)) = Earliest(before(rows[i].key))
        BY <1>5, <1>8
      <3>5. Earliest(before(rows[i].key)) \in words
        BY <1>4, <1>5 DEF IsSaid, IsEarliest, before
      <3>6. Sooner(Earliest(before(rows[i].key)), word)
        BY <3>5 DEF ComesAfter
      <3> QED
        BY <3>3, <3>4, <3>6 DEF CameBefore, now
    <2>6. ASSUME NEW i \in 1..Len(after), NEW j \in 1..Len(after), i < j
          PROVE  CameBefore(more, section, after[i].key, after[j].key)
      <3>1. i \in 1..Len(rows)
        BY <1>5, <2>2, <2>6
      <3>2. CASE j \in 1..Len(rows)
        BY <1>9, <2>2, <2>6, <3>1, <3>2
      <3>3. CASE j = Len(rows) + 1
        BY <1>10, <2>2, <2>5, <3>1, <3>3
      <3> QED
        BY <2>3, <3>2, <3>3
    <2>7. ASSUME NEW key, now(key) # {} PROVE \E i \in 1..Len(after) : after[i].key = key
      <3>1. CASE key = element.key
        <4>1. Len(rows) + 1 \in 1..Len(after)
          BY <1>5, <2>2
        <4> QED
          BY <1>10, <2>2, <3>1, <4>1
      <3>2. CASE key # element.key
        <4>1. now(key) = before(key)
          BY <1>1, <3>2
        <4>2. PICK i \in 1..Len(rows) : rows[i].key = key
          BY <1>5, <2>7, <4>1
        <4>3. i \in 1..Len(after)
          BY <1>5, <2>2
        <4> QED
          BY <2>2, <4>2, <4>3
      <3> QED
        BY <3>1, <3>2
    <2>8. AreSaid(after, section, more)
      BY <2>2, <2>4, <2>6, <2>7 DEF AreSaid, now
    <2> QED
      BY <2>8 DEF after, more, section, row, element
  <1> QED
    BY <1>11, <1>12

\* Keeping some rows keeps what they are and their order.
LEMMA RetainedKeeps ==
    ASSUME NEW V, NEW rows \in Seq(V), NEW kept
    PROVE  LET after == Retained(rows, kept)
           IN  /\ after \in Seq(V) /\ Len(rows) \in Nat /\ Len(after) \in Nat
               /\ \E place \in [1..Len(after) -> 1..Len(rows)] :
                     /\ \A i, j \in 1..Len(after) : i < j => place[i] < place[j]
                     /\ \A i \in 1..Len(after) : after[i] = rows[place[i]] /\ after[i] \in kept
               /\ \A p \in 1..Len(rows) : rows[p] \in kept =>
                     \E i \in 1..Len(after) : after[i] = rows[p]
  <1> DEFINE after == Retained(rows, kept)
  <1>1. after \in Seq(V) /\ IsKept(after, rows, kept, Len(rows))
    BY RetainedIs
  <1>2. Len(rows) \in Nat /\ Len(after) \in Nat
    BY <1>1
  <1> HIDE DEF after
  <1>3. PICK place \in [1..Len(after) -> 1..Len(rows)] :
              /\ \A i, j \in 1..Len(after) : i < j => place[i] < place[j]
              /\ \A i \in 1..Len(after) : after[i] = rows[place[i]] /\ after[i] \in kept
              /\ \A p \in 1..Len(rows) : rows[p] \in kept => \E i \in 1..Len(after) : place[i] = p
    <2>1. IsKept(after, rows, kept, Len(rows))
      BY <1>1
    <2> QED
      BY <2>1, SMTT(30) DEF IsKept
  <1>4. ASSUME NEW p \in 1..Len(rows), rows[p] \in kept PROVE \E i \in 1..Len(after) : after[i] = rows[p]
    BY <1>3, <1>4, Zenon
  <1> QED
    BY <1>1, <1>2, <1>3, <1>4, Zenon DEF after

\* A word that removes a key is what dropping its row comes to.
LEMMA WithoutReflects ==
    ASSUME ConfigInputs(world), NEW words \in SUBSET Words, NEW word, ComesAfter(words, word),
           NEW rows, AreSaid(rows, Word(word).section, words), Word(word).op = "remove"
    PROVE  AreSaid(Without(rows, Word(word).key), Word(word).section, words \cup {word})
  <1> DEFINE element == Word(word)
             section == element.section
             more == words \cup {word}
             kept == {row \in ToSet(rows) : row.key # element.key}
             after == Retained(rows, kept)
             before(key) == Said(words, section, key)
             now(key) == Said(more, section, key)
  <1>1. \A key : now(key) = IF element.key = key THEN {} ELSE before(key)
    <2> SUFFICES ASSUME NEW key PROVE now(key) = IF element.key = key THEN {} ELSE before(key)
      OBVIOUS
    <2> QED
      BY SaidGrows
  <1>2. /\ rows \in Seq(Rows) /\ Len(rows) \in Nat
        /\ \A i \in 1..Len(rows) : IsSaid(rows[i], section, words) /\ rows[i] \in ToSet(rows)
        /\ \A i, j \in 1..Len(rows) : i < j => CameBefore(words, section, rows[i].key, rows[j].key)
        /\ \A key : before(key) # {} => \E i \in 1..Len(rows) : rows[i].key = key
    BY DEF AreSaid, ToSet
  <1>3. /\ after \in Seq(Rows)
        /\ \A p \in 1..Len(rows) : rows[p] \in kept => \E i \in 1..Len(after) : after[i] = rows[p]
    <2> HIDE DEF kept
    <2> QED
      BY <1>2, RetainedKeeps
  <1>4. PICK place \in [1..Len(after) -> 1..Len(rows)] :
           /\ \A i, j \in 1..Len(after) : i < j => place[i] < place[j]
           /\ \A i \in 1..Len(after) : after[i] = rows[place[i]] /\ after[i] \in kept
    <2> HIDE DEF kept
    <2> QED
      BY <1>2, RetainedKeeps
  <1> HIDE DEF after
  <1>5. \A i \in 1..Len(after) : /\ place[i] \in 1..Len(rows) /\ after[i] = rows[place[i]]
                                 /\ after[i].key # element.key /\ now(after[i].key) = before(after[i].key)
    BY <1>1, <1>4
  <1> HIDE DEF now, before, more, section, kept
  <1>6. \A i \in 1..Len(after) : IsSaid(after[i], section, more)
    BY <1>2, <1>5 DEF IsSaid, now, before
  <1>7. \A i, j \in 1..Len(after) : i < j => CameBefore(more, section, after[i].key, after[j].key)
    <2> SUFFICES ASSUME NEW i \in 1..Len(after), NEW j \in 1..Len(after), i < j
                 PROVE  CameBefore(more, section, after[i].key, after[j].key)
      OBVIOUS
    <2>1. CameBefore(words, section, rows[place[i]].key, rows[place[j]].key)
      BY <1>2, <1>4
    <2> QED
      BY <1>5, <2>1 DEF CameBefore, now, before
  <1>8. ASSUME NEW key, now(key) # {} PROVE \E i \in 1..Len(after) : after[i].key = key
    <2>1. element.key # key /\ before(key) # {}
      BY <1>1, <1>8
    <2>2. PICK p \in 1..Len(rows) : rows[p].key = key
      BY <1>2, <2>1
    <2>3. rows[p] \in kept
      BY <1>2, <2>1, <2>2 DEF kept
    <2> QED
      BY <1>3, <2>2, <2>3
  <1>9. AreSaid(after, section, more)
    BY <1>3, <1>6, <1>7, <1>8 DEF AreSaid, now
  <1> QED
    BY <1>9 DEF after, section, more, kept, Without

\* What an element does to the configuration is what its word does to what is said.
LEMMA AppliedReflects ==
    ASSUME ConfigInputs(world), NEW words \in SUBSET Words, NEW word, ComesAfter(words, word),
           NEW merged, Reflects(merged, words)
    PROVE  Reflects(Applied(merged, Word(word), word[1]), words \cup {word})
  <1> DEFINE element == Word(word)
             more == words \cup {word}
             after == Applied(merged, element, word[1])
             row == [key |-> element.key, value |-> element.value, priority |-> word[1]]
             rows == merged[element.section]
             changed == CASE element.op = "clear" -> <<>>
                          [] element.op = "remove" -> Without(rows, element.key)
                          [] element.op = "add" -> Added(rows, row)
  <1>1. element.section \in Sections /\ element.op \in {"add", "remove", "clear"}
    BY WordFacts DEF ComesAfter
  <1>2. AreSaid(rows, element.section, words)
    BY <1>1 DEF Reflects
  <1>3. AreSaid(changed, element.section, more)
    <2>1. CASE element.op = "clear"
      <3>1. \A key : Said(more, element.section, key) = {}
        BY <2>1, SaidGrows
      <3>2. changed = <<>>
        BY <2>1
      <3>3. <<>> \in Seq(Rows) /\ 1..Len(<<>>) = {}
        OBVIOUS
      <3> HIDE DEF changed, more, element
      <3> QED
        BY <3>1, <3>2, <3>3 DEF AreSaid
    <2>2. CASE element.op = "remove"
      <3>1. changed = Without(rows, element.key)
        BY <2>2
      <3> HIDE DEF changed, rows
      <3> QED
        BY <1>2, <2>2, <3>1, WithoutReflects
    <2>3. CASE element.op = "add"
      <3>1. changed = Added(rows, row)
        BY <2>3
      <3>2. AreSaid(Added(rows, row), element.section, more)
        <4> HIDE DEF rows
        <4> QED
          BY <1>2, <2>3, AddReflects
      <3> HIDE DEF changed, rows, more, row
      <3> QED
        BY <3>1, <3>2
    <2> QED
      BY <1>1, <2>1, <2>2, <2>3
  <1>4. after = [merged EXCEPT ![element.section] = changed]
    BY DEF Applied
  <1>5. changed \in Seq(Rows)
    BY <1>3 DEF AreSaid
  <1> HIDE DEF after, changed
  <1>6. after \in [Sections -> Seq(Rows)] /\ after[element.section] = changed
        /\ \A section \in Sections : section # element.section => after[section] = merged[section]
    BY <1>1, <1>4, <1>5 DEF Reflects
  <1>7. ASSUME NEW section \in Sections, section # element.section
        PROVE  AreSaid(merged[section], section, more)
    <2>1. AreSaid(merged[section], section, words)
      BY DEF Reflects
    <2>2. ASSUME NEW key PROVE Said(more, section, key) = Said(words, section, key)
      BY <1>7, SaidGrows
    <2> HIDE DEF more
    <2> QED
      BY <2>1, <2>2 DEF AreSaid, IsSaid, CameBefore
  <1>8. ASSUME NEW section \in Sections PROVE AreSaid(after[section], section, more)
    BY <1>3, <1>6, <1>7
  <1>9. Reflects(after, more)
    BY <1>6, <1>8 DEF Reflects
  <1> QED
    BY <1>9 DEF after

\* What is said up to an element of a file.
Heard(k, i) == {place \in Words : place[1] < k \/ (place[1] = k /\ place[2] <= i)}

\* The loops of MergeConfig, over the elements of a file, and of Merged, over the files.
Apply(priority, so_far, element) == Applied(so_far, element, priority)
ElementFold == INSTANCE Folding WITH Op <- Apply

Merge(files, so_far, k) == MergeConfig(so_far, files[k], k)
FileFold == INSTANCE Folding WITH Op <- Merge

\* Each element of a file comes after those before it; after the last file all are heard.
LEMMA HeardGrows ==
    ASSUME ConfigInputs(world), NEW k \in 1..Len(world.files)
    PROVE  /\ \A i \in 0..(Len(world.files[k]) - 1) :
                 LET word == <<k, i + 1>>
                 IN  /\ ComesAfter(Heard(k, i), word) /\ Heard(k, i + 1) = Heard(k, i) \cup {word}
                     /\ Word(word) = world.files[k][i + 1]
           /\ k > 1 => Heard(k - 1, Len(world.files[k - 1])) = Heard(k, 0)
           /\ Heard(1, 0) = {}
           /\ k = Len(world.files) => Heard(k, Len(world.files[k])) = Words
  <1> DEFINE N == Len(world.files)
             L(m) == Len(world.files[m])
  <1>1. /\ N \in Nat /\ \A m \in 1..N : L(m) \in Nat /\ \A i \in 1..L(m) : <<m, i>> \in Words
        /\ \A p \in Words : p = <<p[1], p[2]>> /\ p[1] \in 1..N /\ p[2] \in 1..L(p[1])
    BY WordFacts
  <1> HIDE DEF L, N
  <1>2. \A p \in Words : p[1] \in Int /\ p[2] \in Int /\ 1 <= p[1] /\ p[1] <= N /\ 1 <= p[2] /\ p[2] <= L(p[1])
    <2> SUFFICES ASSUME NEW p \in Words
                 PROVE  p[1] \in Int /\ p[2] \in Int /\ 1 <= p[1] /\ p[1] <= N /\ 1 <= p[2] /\ p[2] <= L(p[1])
      OBVIOUS
    <2>1. p[1] \in 1..N /\ p[2] \in 1..L(p[1]) /\ L(p[1]) \in Nat
      BY <1>1
    <2> QED
      BY <1>1, <2>1
  <1>3. k \in 1..N /\ L(k) \in Nat
    BY <1>1 DEF N
  <1>4. ASSUME NEW i \in 0..(L(k) - 1)
        PROVE  LET word == <<k, i + 1>>
               IN  /\ ComesAfter(Heard(k, i), word) /\ Heard(k, i + 1) = Heard(k, i) \cup {word}
                   /\ Word(word) = world.files[k][i + 1]
    <2> DEFINE word == <<k, i + 1>>
    <2>1. i \in Nat /\ i + 1 \in 1..L(k) /\ word \in Words /\ word[1] = k /\ word[2] = i + 1
      BY <1>1, <1>3
    <2>2. Word(word) = world.files[k][i + 1]
      BY DEF Word
    <2> HIDE DEF word
    <2>3. \A p \in Heard(k, i) : Sooner(p, word)
      BY <1>2, <2>1 DEF Heard, Sooner
    <2>4. \A p \in Words : p[1] = k /\ p[2] = i + 1 => p = word
      BY <1>1, <2>1 DEF word
    <2>5. \A p \in Words : p \in Heard(k, i + 1) <=> p \in Heard(k, i) \/ p = word
      BY <1>2, <1>3, <2>1, <2>4 DEF Heard
    <2>6. Heard(k, i + 1) \subseteq Words /\ Heard(k, i) \subseteq Words
      BY DEF Heard
    <2>7. Heard(k, i + 1) = Heard(k, i) \cup {word}
      BY <2>1, <2>5, <2>6
    <2> QED
      BY <2>1, <2>2, <2>3, <2>7 DEF ComesAfter, word
  <1>5. ASSUME k > 1 PROVE Heard(k - 1, L(k - 1)) = Heard(k, 0)
    <2>1. k - 1 \in 1..N
      BY <1>1, <1>3, <1>5
    <2>2. \A p \in Words : (p[1] < k - 1 \/ (p[1] = k - 1 /\ p[2] <= L(k - 1))) <=>
                           (p[1] < k \/ (p[1] = k /\ p[2] <= 0))
      BY <1>2, <2>1
    <2> QED
      BY <2>2 DEF Heard
  <1>6. Heard(1, 0) = {}
    BY <1>2 DEF Heard
  <1>7. ASSUME k = N PROVE Heard(k, L(k)) = Words
    BY <1>2, <1>3, <1>7 DEF Heard
  <1> QED
    BY <1>4, <1>5, <1>6, <1>7 DEF L, N

\* Merging a file is hearing all of its words.
LEMMA FileReflects ==
    ASSUME ConfigInputs(world), NEW k \in 1..Len(world.files), NEW merged, Reflects(merged, Heard(k, 0))
    PROVE  Reflects(MergeConfig(merged, world.files[k], k), Heard(k, Len(world.files[k])))
  <1> DEFINE E == UNION {ToSet(other) : other \in ToSet(world.files)}
             file == world.files[k]
             L == Len(file)
             after == MergeConfig(merged, file, k)
  <1>1. file \in Seq(E) /\ L \in Nat
    BY WordFacts
  <1> HIDE DEF E, file
  <1>2. PICK trace : /\ ElementFold!IsTrace(trace, k, merged, file)
                     /\ ElementFold!Folded(k, merged, file) = trace[L]
    BY <1>1, ElementFold!FoldTrace
  <1>3. after = trace[L]
    <2>1. after = ElementFold!Folded(k, merged, file)
      BY DEF MergeConfig, Apply, ElementFold!Folded, FoldLeft, ElementFold!FoldLeft, MapThenFoldSet,
             ElementFold!MapThenFoldSet, Max, ElementFold!Max
    <2> QED
      BY <1>2, <2>1
  <1> HIDE DEF L, after
  <1>4. /\ trace[0] = merged
        /\ \A n \in 1..L : trace[n] = Applied(trace[n - 1], file[n], k)
    <2>1. ElementFold!IsTrace(trace, k, merged, file)
      BY <1>2
    <2> QED
      BY <2>1 DEF ElementFold!IsTrace, Apply, L
  <1> DEFINE T == {n \in 0..L : Reflects(trace[n], Heard(k, n))}
  <1>5. T = 0..L
    <2>1. 0 \in T
      BY <1>1, <1>4
    <2>2. ASSUME NEW n \in T, n + 1 \in 0..L PROVE n + 1 \in T
      <3> DEFINE word == <<k, n + 1>>
      <3>1. n \in 0..(L - 1) /\ n + 1 \in 1..L /\ (n + 1) - 1 = n /\ Reflects(trace[n], Heard(k, n))
        BY <1>1, <2>2
      <3>2. /\ ComesAfter(Heard(k, n), word) /\ Heard(k, n + 1) = Heard(k, n) \cup {word}
            /\ Word(word) = file[n + 1] /\ word[1] = k
        BY <3>1, HeardGrows DEF L, file
      <3>3. Heard(k, n) \in SUBSET Words
        BY DEF Heard
      <3>4. trace[n + 1] = Applied(trace[n], file[n + 1], k)
        BY <1>4, <3>1
      <3> HIDE DEF word, T
      <3>5. Reflects(Applied(trace[n], Word(word), word[1]), Heard(k, n) \cup {word})
        BY <3>1, <3>2, <3>3, AppliedReflects
      <3>6. Reflects(trace[n + 1], Heard(k, n + 1))
        BY <3>2, <3>4, <3>5
      <3> QED
        BY <2>2, <3>6 DEF T
    <2>3. T \in SUBSET (0..L)
      OBVIOUS
    <2> HIDE DEF T
    <2> QED
      BY <1>1, <2>1, <2>2, <2>3, ElementFold!Numbers DEF L
  <1>6. L \in T
    BY <1>1, <1>5 DEF L
  <1>7. Reflects(after, Heard(k, L))
    BY <1>3, <1>6
  <1> QED
    BY <1>7 DEF after, L, file

\* The configuration of all files is what all their words say.
LEMMA MergedReflects ==
    ASSUME ConfigInputs(world)
    PROVE  Reflects(Merged(world.files), Words)
  <1> DEFINE files == world.files
             N == Len(files)
             places == [k \in DOMAIN files |-> k]
             base == [section \in Sections |-> <<>>]
  <1>1. N \in Nat /\ DOMAIN files = 1..N
    BY WordFacts
  <1>2. places \in Seq(Nat) /\ Len(places) = N /\ \A k \in 1..N : places[k] = k
    BY <1>1
  <1> HIDE DEF places
  <1>3. PICK trace : /\ FileFold!IsTrace(trace, files, base, places)
                     /\ FileFold!Folded(files, base, places) = trace[Len(places)]
    BY <1>2, FileFold!FoldTrace
  <1>4. Merged(files) = trace[N]
    <2>1. Merged(files) = FileFold!Folded(files, base, places)
      BY DEF Merged, Merge, FileFold!Folded, FoldLeft, FileFold!FoldLeft, MapThenFoldSet,
             FileFold!MapThenFoldSet, Max, FileFold!Max, places
    <2> QED
      BY <1>2, <1>3, <2>1
  <1> HIDE DEF N, base
  <1>5. /\ trace[0] = base
        /\ \A n \in 1..N : trace[n] = MergeConfig(trace[n - 1], files[n], n)
    <2>1. trace = [n \in 0..N |-> IF n = 0 THEN base ELSE Merge(files, trace[n - 1], places[n])]
      BY <1>2, <1>3 DEF FileFold!IsTrace
    <2>2. N \in Nat
      BY <1>1
    <2> QED
      BY <1>2, <2>1, <2>2 DEF Merge
  <1>6. Reflects(base, {})
    <2>1. \A section, key : Said({}, section, key) = {}
      BY DEF Said
    <2>2. <<>> \in Seq(Rows) /\ 1..Len(<<>>) = {}
      OBVIOUS
    <2>3. base \in [Sections -> Seq(Rows)] /\ \A section \in Sections : base[section] = <<>>
      BY <2>2 DEF base
    <2>4. \A section \in Sections : AreSaid(<<>>, section, {})
      BY <2>1, <2>2 DEF AreSaid
    <2> QED
      BY <2>3, <2>4 DEF Reflects
  <1> DEFINE said(n) == IF n = 0 THEN {} ELSE Heard(n, Len(files[n]))
             T == {n \in 0..N : Reflects(trace[n], said(n))}
  <1>7. T = 0..N
    <2>1. 0 \in T
      BY <1>1, <1>5, <1>6 DEF N
    <2>2. ASSUME NEW n \in T, n + 1 \in 0..N PROVE n + 1 \in T
      <3>1. n \in Nat /\ n + 1 \in 1..N /\ (n + 1) - 1 = n /\ Reflects(trace[n], said(n))
        BY <1>1, <2>2 DEF N
      <3>2. said(n) = Heard(n + 1, 0)
        <4>1. CASE n = 0
          <5>1. n + 1 = 1
            BY <4>1
          <5> QED
            BY <3>1, <4>1, <5>1, HeardGrows DEF N
        <4>2. CASE n # 0
          <5>1. n + 1 > 1
            BY <3>1, <4>2
          <5>2. Heard((n + 1) - 1, Len(files[(n + 1) - 1])) = Heard(n + 1, 0)
            BY <3>1, <5>1, HeardGrows DEF N
          <5> QED
            BY <3>1, <4>2, <5>2
        <4> QED
          BY <4>1, <4>2
      <3>3. said(n + 1) = Heard(n + 1, Len(files[n + 1]))
        BY <3>1
      <3>4. trace[n + 1] = MergeConfig(trace[n], files[n + 1], n + 1)
        BY <1>5, <3>1
      <3> HIDE DEF said, T
      <3>5. Reflects(MergeConfig(trace[n], files[n + 1], n + 1), Heard(n + 1, Len(files[n + 1])))
        BY <3>1, <3>2, FileReflects DEF N
      <3>6. Reflects(trace[n + 1], said(n + 1))
        BY <3>3, <3>4, <3>5
      <3> QED
        BY <2>2, <3>6 DEF T
    <2>3. T \in SUBSET (0..N)
      OBVIOUS
    <2> HIDE DEF T
    <2> QED
      BY <1>1, <2>1, <2>2, <2>3, FileFold!Numbers DEF N
  <1>8. N \in T
    BY <1>1, <1>7 DEF N
  <1>9. said(N) = Words
    <2>1. CASE N = 0
      <3>1. DOMAIN files = {}
        BY <1>1, <2>1 DEF N
      <3>2. Words = {}
        BY <3>1 DEF Words
      <3> QED
        BY <2>1, <3>2
    <2>2. CASE N # 0
      <3>1. N \in 1..N
        BY <1>1, <2>2 DEF N
      <3> QED
        BY <2>2, <3>1, HeardGrows DEF N
    <2> QED
      BY <2>1, <2>2
  <1> QED
    BY <1>4, <1>8, <1>9

\* What the rows of a section are, when they are what all words say.
LEMMA RowsMean ==
    ASSUME ConfigInputs(world), NEW section, NEW rows, AreSaid(rows, section, Words)
    PROVE  /\ rows \in Seq(Rows) /\ Len(rows) \in Nat /\ DOMAIN rows = 1..Len(rows)
           /\ \A i \in 1..Len(rows) :
                 /\ rows[i].key \in Living(section)
                 /\ rows[i].value = LastValue(section, rows[i].key)
                 /\ rows[i].priority = LastFile(section, rows[i].key)
                 /\ rows[i].priority \in Nat
           /\ \A i, j \in 1..Len(rows) : i < j => Older(section, rows[i].key, rows[j].key)
           /\ \A i, j \in 1..Len(rows) : rows[i].key = rows[j].key => i = j
           /\ \A key \in Living(section) : \E i \in 1..Len(rows) : rows[i].key = key
           /\ \A key : HasKey(rows, key) <=> key \in Living(section)
           /\ \A key : Setting(rows, key) = IF key \in Living(section) THEN LastValue(section, key) ELSE Unset
  <1>1. rows \in Seq(Rows) /\ Len(rows) \in Nat /\ DOMAIN rows = 1..Len(rows)
    BY DEF AreSaid
  <1>2. ASSUME NEW i \in 1..Len(rows)
        PROVE  /\ rows[i].key \in Living(section)
               /\ rows[i].value = LastValue(section, rows[i].key)
               /\ rows[i].priority = LastFile(section, rows[i].key)
               /\ rows[i].priority \in Nat
    <2>1. IsSaid(rows[i], section, Words) /\ rows[i] \in Rows
      BY <1>1 DEF AreSaid
    <2>2. Said(Words, section, rows[i].key) # {}
      BY <2>1 DEF IsSaid, IsEarliest
    <2>3. rows[i].key \in {Word(place).key : place \in Words} /\ rows[i].priority \in 1..Len(world.files)
      BY <2>1 DEF Rows
    <2>4. rows[i].priority \in Nat
      BY <2>3
    <2> QED
      BY <2>1, <2>2, <2>3, <2>4 DEF IsSaid, Living, LastValue, LastFile
  <1>3. ASSUME NEW i \in 1..Len(rows), NEW j \in 1..Len(rows), i < j
        PROVE  Older(section, rows[i].key, rows[j].key)
    BY <1>3 DEF AreSaid, CameBefore, Older
  <1>4. \A i, j \in 1..Len(rows) : rows[i].key = rows[j].key => i = j
    BY KeysDiffer
  <1>5. \A key \in Living(section) : \E i \in 1..Len(rows) : rows[i].key = key
    BY DEF AreSaid, Living
  <1>6. \A key : HasKey(rows, key) <=> key \in Living(section)
    BY <1>1, <1>2, <1>5 DEF HasKey
  <1>7. ASSUME NEW key
        PROVE  Setting(rows, key) = IF key \in Living(section) THEN LastValue(section, key) ELSE Unset
    <2>1. CASE key \in Living(section)
      <3>1. PICK i \in 1..Len(rows) : rows[i].key = key
        BY <1>5, <2>1
      <3>2. \A row \in ToSet(rows) : row.key = key => row = rows[i]
        BY <1>1, <1>4, <3>1 DEF ToSet
      <3>3. rows[i] \in ToSet(rows)
        BY <1>1 DEF ToSet
      <3>4. (CHOOSE row \in ToSet(rows) : row.key = key) = rows[i]
        BY <3>1, <3>2, <3>3
      <3> QED
        BY <1>2, <1>6, <2>1, <3>1, <3>4 DEF Setting
    <2>2. CASE key \notin Living(section)
      BY <1>6, <2>2 DEF Setting
    <2> QED
      BY <2>1, <2>2
  <1> QED
    BY <1>1, <1>2, <1>3, <1>4, <1>5, <1>6, <1>7

\* A sequence of distinct elements has as many places as elements.
LEMMA PlacesCounted ==
    ASSUME NEW S, NEW sequence \in Seq(S), NEW keys,
           \A i \in 1..Len(sequence) : sequence[i] \in keys,
           \A key \in keys : \E i \in 1..Len(sequence) : sequence[i] = key,
           \A i, j \in 1..Len(sequence) : sequence[i] = sequence[j] => i = j
    PROVE  ToSet(sequence) = keys /\ Len(sequence) = Cardinality(keys)
  <1> DEFINE n == Len(sequence)
  <1>1. n \in Nat /\ DOMAIN sequence = 1..n /\ sequence \in [1..n -> S]
    OBVIOUS
  <1>2. ToSet(sequence) = keys
    BY <1>1 DEF ToSet
  <1>3. IsFiniteSet(1..n) /\ Cardinality(1..n) = n
    <2>1. IsFiniteSet(1..n) /\ Cardinality(1..n) = IF 1 > n THEN 0 ELSE n - 1 + 1
      BY <1>1, FS_Interval
    <2> HIDE DEF n
    <2>2. (IF 1 > n THEN 0 ELSE n - 1 + 1) = n
      BY <1>1
    <2> QED
      BY <2>1, <2>2
  <1>4. sequence \in Bijection(1..n, keys)
    <2>1. sequence \in [1..n -> keys]
      BY <1>1
    <2> HIDE DEF n
    <2> QED
      BY <1>1, <1>2, <2>1 DEF n, Bijection, Injection, Surjection, IsInjective
  <1>5. ExistsBijection(1..n, keys)
    BY <1>4 DEF ExistsBijection
  <1>6. Cardinality(keys) = Cardinality(1..n)
    <2> HIDE DEF n
    <2> QED
      BY <1>3, <1>5, FS_Bijection
  <1> QED
    BY <1>2, <1>3, <1>6

\* Numbers that some total order is on can be arranged in it.
LEMMA Arranged ==
    ASSUME NEW N \in Nat, NEW R \in SUBSET ((1..N) \X (1..N)),
           \A i \in 1..N : <<i, i>> \notin R,
           \A i, j, k \in 1..N : <<i, j>> \in R /\ <<j, k>> \in R => <<i, k>> \in R,
           \A i, j \in 1..N : i = j \/ <<i, j>> \in R \/ <<j, i>> \in R
    PROVE  \E order \in [1..N -> 1..N] : \A m, n \in 1..N : m < n => <<order[m], order[n]>> \in R
  <1> DEFINE S == 1..N
             UpTo(i) == {j \in S : j = i \/ <<j, i>> \in R}
             rank == [i \in S |-> Cardinality(UpTo(i))]
  <1>1. IsFiniteSet(S) /\ Cardinality(S) = N
    <2>1. IsFiniteSet(1..N) /\ Cardinality(1..N) = IF 1 > N THEN 0 ELSE N - 1 + 1
      BY FS_Interval
    <2> QED
      BY <2>1
  <1>2. ASSUME NEW i \in S
        PROVE  /\ IsFiniteSet(UpTo(i)) /\ Cardinality(UpTo(i)) \in 1..N /\ Cardinality(UpTo(i)) \in Nat
    <2>1. UpTo(i) \in SUBSET S /\ i \in UpTo(i)
      OBVIOUS
    <2> HIDE DEF UpTo, S
    <2>2. IsFiniteSet(UpTo(i)) /\ Cardinality(UpTo(i)) <= N
      BY <1>1, <2>1, FS_Subset
    <2>3. Cardinality(UpTo(i)) \in Nat /\ (Cardinality(UpTo(i)) = 0 <=> UpTo(i) = {})
      BY <2>2, FS_CardinalityType, FS_EmptySet
    <2> QED
      BY <2>1, <2>2, <2>3
  <1>3. ASSUME NEW i \in S, NEW j \in S, <<i, j>> \in R
        PROVE  Cardinality(UpTo(i)) < Cardinality(UpTo(j))
    <2>1. UpTo(i) \in SUBSET UpTo(j)
      BY <1>3
    <2>2. j \in UpTo(j) /\ j \notin UpTo(i)
      BY <1>3
    <2>3. UpTo(i) # UpTo(j)
      BY <2>2
    <2> HIDE DEF UpTo
    <2>4. IsFiniteSet(UpTo(j)) /\ Cardinality(UpTo(i)) \in Nat /\ Cardinality(UpTo(j)) \in Nat
      BY <1>2
    <2>5. /\ Cardinality(UpTo(i)) <= Cardinality(UpTo(j))
          /\ Cardinality(UpTo(i)) = Cardinality(UpTo(j)) => UpTo(i) = UpTo(j)
      BY <2>1, <2>4, FS_Subset
    <2> QED
      BY <2>3, <2>4, <2>5
  <1>4. rank \in [S -> 1..N] /\ \A i \in S : rank[i] = Cardinality(UpTo(i))
    BY <1>2
  <1>5. \A i, j \in S : <<i, j>> \in R => rank[i] < rank[j]
    <2> HIDE DEF rank, UpTo
    <2> QED
      BY <1>3, <1>4
  <1> HIDE DEF rank, UpTo
  <1>6. \A i, j \in S : rank[i] = rank[j] => i = j
    <2> SUFFICES ASSUME NEW i \in S, NEW j \in S, rank[i] = rank[j], i # j PROVE FALSE
      OBVIOUS
    <2>1. rank[i] < rank[j] \/ rank[j] < rank[i]
      BY <1>5
    <2>2. rank[i] \in 1..N /\ rank[j] \in 1..N
      BY <1>4
    <2> QED
      BY <2>1, <2>2
  <1>7. rank \in Injection(S, 1..N)
    BY <1>4, <1>6 DEF Injection, IsInjective
  <1>8. rank \in Surjection(S, 1..N)
    BY <1>1, <1>7, FS_Injection
  <1>9. \A n \in 1..N : \E i \in S : rank[i] = n
    BY <1>8 DEF Surjection
  <1> DEFINE order == [n \in 1..N |-> CHOOSE i \in S : rank[i] = n]
  <1>10. \A n \in 1..N : order[n] \in S /\ rank[order[n]] = n
    BY <1>9
  <1>11. order \in [1..N -> 1..N]
    BY <1>10
  <1> HIDE DEF order
  <1>12. ASSUME NEW m \in 1..N, NEW n \in 1..N, m < n PROVE <<order[m], order[n]>> \in R
    <2>1. order[m] \in S /\ order[n] \in S /\ rank[order[m]] = m /\ rank[order[n]] = n
      BY <1>10
    <2>2. order[m] # order[n] /\ ~(n < m)
      BY <1>12, <2>1
    <2>3. <<order[n], order[m]>> \notin R
      BY <1>5, <2>1, <2>2
    <2> QED
      BY <2>1, <2>2, <2>3
  <1> QED
    BY <1>11, <1>12

\* The fallback folders are arranged as the words on them are.
LEMMA FallbacksListed ==
    ASSUME ConfigInputs(world), NEW rows, AreSaid(rows, "fallback", Words)
    PROVE  FallbackListed(OrderedFallbackPaths(rows))
  <1> DEFINE N == Len(rows)
             Ahead(i, j) == \/ rows[i].priority > rows[j].priority
                            \/ rows[i].priority = rows[j].priority /\ i < j
             R == {pair \in (1..N) \X (1..N) : Ahead(pair[1], pair[2])}
             IsArranged(order) == \A m, n \in 1..N : m < n => Ahead(order[m], order[n])
             nearer == CHOOSE order \in [1..N -> 1..N] : IsArranged(order)
             folders == OrderedFallbackPaths(rows)
  <1>1. /\ rows \in Seq(Rows) /\ N \in Nat /\ DOMAIN rows = 1..N
        /\ \A i \in 1..N : /\ rows[i].key \in Living("fallback")
                           /\ rows[i].value = LastValue("fallback", rows[i].key)
                           /\ rows[i].priority = LastFile("fallback", rows[i].key)
                           /\ rows[i].priority \in Nat
        /\ \A i, j \in 1..N : i < j => Older("fallback", rows[i].key, rows[j].key)
        /\ \A i, j \in 1..N : rows[i].key = rows[j].key => i = j
        /\ \A key \in Living("fallback") : \E i \in 1..N : rows[i].key = key
    BY RowsMean
  <1> HIDE DEF N
  <1>2. \E order \in [1..N -> 1..N] : IsArranged(order)
    <2>1. /\ \A i \in 1..N : ~Ahead(i, i)
          /\ \A i, j, k \in 1..N : Ahead(i, j) /\ Ahead(j, k) => Ahead(i, k)
          /\ \A i, j \in 1..N : i = j \/ Ahead(i, j) \/ Ahead(j, i)
      BY <1>1
    <2> HIDE DEF Ahead
    <2>2. \A i, j \in 1..N : <<i, j>> \in R <=> Ahead(i, j)
      OBVIOUS
    <2>3. R \in SUBSET ((1..N) \X (1..N))
      OBVIOUS
    <2> HIDE DEF R
    <2>5. /\ \A i \in 1..N : <<i, i>> \notin R
          /\ \A i, j, k \in 1..N : <<i, j>> \in R /\ <<j, k>> \in R => <<i, k>> \in R
          /\ \A i, j \in 1..N : i = j \/ <<i, j>> \in R \/ <<j, i>> \in R
      BY <2>1, <2>2
    <2>6. N \in Nat
      BY <1>1
    <2>4. \E order \in [1..N -> 1..N] : \A m, n \in 1..N : m < n => <<order[m], order[n]>> \in R
      BY <2>3, <2>5, <2>6, Arranged
    <2> QED
      BY <2>2, <2>4
  <1>3. nearer \in [1..N -> 1..N] /\ IsArranged(nearer)
    <2> HIDE DEF IsArranged
    <2> QED
      BY <1>2
  <1>4. folders = [i \in 1..N |-> rows[nearer[i]].value]
    BY <1>1 DEF OrderedFallbackPaths
  <1> HIDE DEF nearer, folders
  <1>5. \A m, n \in 1..N : nearer[m] = nearer[n] => m = n
    <2> SUFFICES ASSUME NEW m \in 1..N, NEW n \in 1..N, nearer[m] = nearer[n], m < n PROVE FALSE
      OBVIOUS
    <2>1. Ahead(nearer[m], nearer[n]) /\ nearer[m] \in 1..N
      BY <1>3
    <2> QED
      BY <1>1, <2>1
  <1>6. \A i \in 1..N : \E n \in 1..N : nearer[n] = i
    <2>1. IsFiniteSet(1..N)
      BY <1>1, FS_Interval
    <2>2. nearer \in Injection(1..N, 1..N)
      BY <1>3, <1>5 DEF Injection, IsInjective
    <2>3. nearer \in Surjection(1..N, 1..N)
      BY <2>1, <2>2, FS_Injection
    <2> QED
      BY <2>3 DEF Surjection
  <1> DEFINE keys == [i \in 1..N |-> rows[nearer[i]].key]
  <1>7. keys \in [DOMAIN folders -> Living("fallback")] /\ DOMAIN folders = 1..N
    BY <1>1, <1>3, <1>4
  <1>8. keys \in Seq(Living("fallback")) /\ Len(keys) = N /\ DOMAIN keys = 1..N
    BY <1>1, <1>3
  <1>9. \A i \in 1..N : /\ keys[i] = rows[nearer[i]].key /\ keys[i] \in Living("fallback")
                        /\ nearer[i] \in 1..N
    BY <1>1, <1>3
  <1> HIDE DEF keys
  <1>10. ToSet(keys) = Living("fallback") /\ Len(keys) = Cardinality(Living("fallback"))
    <2>1. \A i \in 1..Len(keys) : keys[i] \in Living("fallback")
      BY <1>8, <1>9
    <2>2. \A key \in Living("fallback") : \E i \in 1..Len(keys) : keys[i] = key
      <3> SUFFICES ASSUME NEW key \in Living("fallback") PROVE \E i \in 1..N : keys[i] = key
        BY <1>8
      <3>1. PICK p \in 1..N : rows[p].key = key
        BY <1>1
      <3>2. PICK i \in 1..N : nearer[i] = p
        BY <1>6
      <3> QED
        BY <1>9, <3>1, <3>2
    <2>3. \A i, j \in 1..Len(keys) : keys[i] = keys[j] => i = j
      <3> SUFFICES ASSUME NEW i \in 1..N, NEW j \in 1..N, keys[i] = keys[j] PROVE i = j
        BY <1>8
      <3>1. nearer[i] \in 1..N /\ nearer[j] \in 1..N /\ rows[nearer[i]].key = rows[nearer[j]].key
        BY <1>9
      <3>2. nearer[i] = nearer[j]
        BY <1>1, <3>1
      <3> QED
        BY <1>5, <3>2
    <2> QED
      BY <1>8, <2>1, <2>2, <2>3, PlacesCounted
  <1>11. ASSUME NEW i \in DOMAIN keys, NEW j \in DOMAIN keys, i < j PROVE Nearer(keys[i], keys[j])
    <2>1. Ahead(nearer[i], nearer[j])
      BY <1>3, <1>8, <1>11
    <2>2. /\ nearer[i] \in 1..N /\ nearer[j] \in 1..N
          /\ keys[i] = rows[nearer[i]].key /\ keys[j] = rows[nearer[j]].key
      BY <1>8, <1>9
    <2>3. /\ rows[nearer[i]].priority = LastFile("fallback", keys[i])
          /\ rows[nearer[j]].priority = LastFile("fallback", keys[j])
      BY <1>1, <2>2
    <2>4. nearer[i] < nearer[j] => Older("fallback", keys[i], keys[j])
      BY <1>1, <2>2
    <2> QED
      BY <2>1, <2>3, <2>4 DEF Nearer
  <1>12. Lists(keys, Living("fallback"), Nearer)
    BY <1>10, <1>11 DEF Lists
  <1>13. \A i \in DOMAIN folders : folders[i] = LastValue("fallback", keys[i])
    <2> SUFFICES ASSUME NEW i \in 1..N PROVE folders[i] = LastValue("fallback", keys[i])
      BY <1>7
    <2> QED
      BY <1>1, <1>4, <1>9, SMTT(30)
  <1> QED
    BY <1>7, <1>12, <1>13 DEF FallbackListed, folders

\* The sources are those that live and are not disabled.
LEMMA SourcesAre ==
    ASSUME ConfigInputs(world), world.files # <<>>, NEW merged, Reflects(merged, Words)
    PROVE  LET sources == Configured(world.files, merged)
           IN  /\ sources \in Seq(Rows)
               /\ \A i \in 1..Len(sources) : /\ sources[i].key \in Living("sources") \ Living("disabled")
                                             /\ sources[i].value = LastValue("sources", sources[i].key)
               /\ \A i, j \in 1..Len(sources) :
                     /\ i < j => Older("sources", sources[i].key, sources[j].key)
                     /\ sources[i].key = sources[j].key => i = j
               /\ \A key \in Living("sources") \ Living("disabled") :
                     \E i \in 1..Len(sources) : sources[i].key = key
  <1> DEFINE rows == merged["sources"]
             kept == {row \in ToSet(rows) : ~HasKey(merged["disabled"], row.key)}
             sources == Retained(rows, kept)
  <1>1. AreSaid(rows, "sources", Words) /\ AreSaid(merged["disabled"], "disabled", Words)
    BY DEF Reflects, Sections
  <1> HIDE DEF rows
  <1>2. /\ rows \in Seq(Rows) /\ Len(rows) \in Nat /\ DOMAIN rows = 1..Len(rows)
        /\ \A i \in 1..Len(rows) : /\ rows[i].key \in Living("sources")
                                   /\ rows[i].value = LastValue("sources", rows[i].key)
        /\ \A i, j \in 1..Len(rows) : i < j => Older("sources", rows[i].key, rows[j].key)
        /\ \A i, j \in 1..Len(rows) : rows[i].key = rows[j].key => i = j
        /\ \A key \in Living("sources") : \E i \in 1..Len(rows) : rows[i].key = key
    <2>1. AreSaid(rows, "sources", Words)
      BY <1>1
    <2> QED
      BY <2>1, RowsMean
  <1>3. \A key : HasKey(merged["disabled"], key) <=> key \in Living("disabled")
    BY <1>1, RowsMean
  <1>4. \A row : row \in kept <=> row \in ToSet(rows) /\ row.key \notin Living("disabled")
    BY <1>3
  <1> HIDE DEF kept
  <1>5. /\ sources \in Seq(Rows) /\ Len(sources) \in Nat
        /\ \A p \in 1..Len(rows) : rows[p] \in kept => \E i \in 1..Len(sources) : sources[i] = rows[p]
    <2>1. rows \in Seq(Rows)
      BY <1>2
    <2> QED
      BY <2>1, RetainedKeeps
  <1>6. PICK place \in [1..Len(sources) -> 1..Len(rows)] :
              /\ \A i, j \in 1..Len(sources) : i < j => place[i] < place[j]
              /\ \A i \in 1..Len(sources) : sources[i] = rows[place[i]] /\ sources[i] \in kept
    <2>1. rows \in Seq(Rows)
      BY <1>2
    <2> QED
      BY <2>1, RetainedKeeps
  <1> HIDE DEF sources
  <1>7. \A i \in 1..Len(sources) : place[i] \in 1..Len(rows) /\ sources[i] = rows[place[i]]
    BY <1>6
  <1>8. ASSUME NEW i \in 1..Len(sources)
        PROVE  /\ sources[i].key \in Living("sources") \ Living("disabled")
               /\ sources[i].value = LastValue("sources", sources[i].key)
    BY <1>2, <1>4, <1>6, <1>7
  <1>9. ASSUME NEW i \in 1..Len(sources), NEW j \in 1..Len(sources)
        PROVE  /\ i < j => Older("sources", sources[i].key, sources[j].key)
               /\ sources[i].key = sources[j].key => i = j
    <2>1. i < j => Older("sources", sources[i].key, sources[j].key)
      BY <1>2, <1>6, <1>7
    <2>2. ASSUME sources[i].key = sources[j].key PROVE i = j
      <3>1. place[i] = place[j] /\ place[i] \in Nat
        BY <1>2, <1>7, <2>2
      <3>2. ~(i < j) /\ ~(j < i)
        BY <1>6, <3>1
      <3>3. i \in Nat /\ j \in Nat
        BY <1>5
      <3> QED
        BY <3>2, <3>3
    <2> QED
      BY <2>1, <2>2
  <1>10. ASSUME NEW key \in Living("sources") \ Living("disabled")
         PROVE  \E i \in 1..Len(sources) : sources[i].key = key
    <2>1. PICK p \in 1..Len(rows) : rows[p].key = key
      BY <1>2
    <2>2. rows[p] \in ToSet(rows)
      BY <1>2 DEF ToSet
    <2> QED
      BY <1>4, <1>5, <2>1, <2>2
  <1>11. Configured(world.files, merged) = sources
    BY DEF Configured, sources, kept, rows
  <1> QED
    BY <1>5, <1>8, <1>9, <1>10, <1>11

\* Without any file there is the public source, and the place of nothing is disabled.
LEMMA PublicSourceIs ==
    ASSUME ConfigInputs(world), world.files = <<>>, NEW merged, Reflects(merged, Words)
    PROVE  LET sources == Configured(world.files, merged)
           IN  sources # <<>> /\ \E V : sources \in Seq(V)
  <1> DEFINE row == [key |-> PublicKey, value |-> PublicSource, priority |-> 0]
             rows == <<row>>
             kept == {other \in ToSet(rows) : ~HasKey(merged["disabled"], other.key)}
             sources == Retained(rows, kept)
  <1>1. Words = {}
    BY DEF Words
  <1>2. Living("disabled") = {}
    BY <1>1 DEF Living, Said
  <1>3. \A key : ~HasKey(merged["disabled"], key)
    <2>1. AreSaid(merged["disabled"], "disabled", Words)
      BY DEF Reflects, Sections
    <2> QED
      BY <1>2, <2>1, RowsMean
  <1>4. rows \in Seq({row}) /\ Len(rows) = 1 /\ DOMAIN rows = 1..1 /\ rows[1] = row
    OBVIOUS
  <1>5. rows[1] \in kept /\ 1 \in 1..Len(rows)
    BY <1>3, <1>4 DEF ToSet
  <1>6. Configured(world.files, merged) = sources
    BY DEF Configured
  <1> HIDE DEF kept, rows
  <1>7. sources \in Seq({row}) /\ \E i \in 1..Len(sources) : sources[i] = rows[1]
    BY <1>4, <1>5, RetainedKeeps
  <1>8. sources # <<>>
    BY <1>7
  <1> QED
    BY <1>6, <1>7, <1>8

\* Each mapping with the place of its source among sources of which no two have a key.
LEMMA MappingIs ==
    ASSUME ConfigInputs(world), NEW rows, AreSaid(rows, "mapping", Words),
           NEW sources \in Seq(Rows),
           \A i, j \in 1..Len(sources) : sources[i].key = sources[j].key => i = j,
           NEW names \in Seq(UNION {{row.key} : row \in Rows}), Len(names) = Len(sources),
           \A i \in 1..Len(sources) : names[i] = sources[i].key
    PROVE  MappingListed(CompiledMapping(rows, sources), names)
  <1> DEFINE PlaceOf(key) == IF HasKey(sources, key)
                           THEN CHOOSE i \in DOMAIN sources : sources[i].key = key /\
                                    \A j \in DOMAIN sources : sources[j].key = key => i <= j
                           ELSE 0
             Named(key) == IF key \in ToSet(names)
                           THEN CHOOSE i \in DOMAIN names : names[i] = key
                           ELSE 0
  <1>1. /\ Len(sources) \in Nat /\ DOMAIN sources = 1..Len(sources) /\ DOMAIN names = 1..Len(sources)
    OBVIOUS
  <1>2. /\ Len(rows) \in Nat /\ DOMAIN rows = 1..Len(rows)
        /\ \A i \in 1..Len(rows) : /\ rows[i].key \in Living("mapping")
                                   /\ rows[i].value = LastValue("mapping", rows[i].key)
        /\ \A key \in Living("mapping") : \E i \in 1..Len(rows) : rows[i].key = key
    BY RowsMean
  <1>3. ASSUME NEW key PROVE PlaceOf(key) = Named(key)
    <2>1. HasKey(sources, key) <=> key \in ToSet(names)
      BY <1>1 DEF HasKey, ToSet
    <2>2. CASE HasKey(sources, key)
      <3>1. PICK p \in 1..Len(sources) : sources[p].key = key
        BY <1>1, <2>2 DEF HasKey
      <3>2. \A j \in 1..Len(sources) : sources[j].key = key <=> j = p
        BY <3>1
      <3>3. p <= p
        BY <1>1
      <3>4. \A i \in DOMAIN sources : (sources[i].key = key /\
               \A j \in DOMAIN sources : sources[j].key = key => i <= j) <=> i = p
        BY <1>1, <3>2, <3>3
      <3>5. \A i \in DOMAIN names : names[i] = key <=> i = p
        BY <1>1, <3>2
      <3>6. PlaceOf(key) = p
        BY <1>1, <2>2, <3>4
      <3>7. Named(key) = p
        BY <1>1, <2>1, <2>2, <3>5
      <3> QED
        BY <3>6, <3>7
    <2>3. CASE ~HasKey(sources, key)
      BY <2>1, <2>3
    <2> QED
      BY <2>2, <2>3
  <1> DEFINE listed == {[source |-> Named(key), patterns |-> LastValue("mapping", key)]
                           : key \in Living("mapping")}
             compiled == {[source |-> PlaceOf(row.key), patterns |-> row.value] : row \in ToSet(rows)}
  <1>4. compiled = CompiledMapping(rows, sources)
    BY DEF CompiledMapping
  <1>5. MappingListed(listed, names)
    BY DEF MappingListed
  <1> HIDE DEF PlaceOf, Named
  <1>6. ASSUME NEW row \in ToSet(rows)
        PROVE  [source |-> PlaceOf(row.key), patterns |-> row.value] \in listed
    <2>1. row.key \in Living("mapping") /\ row.value = LastValue("mapping", row.key)
      BY <1>2 DEF ToSet
    <2>2. PlaceOf(row.key) = Named(row.key)
      BY <1>3
    <2> QED
      BY <2>1, <2>2
  <1>7. ASSUME NEW key \in Living("mapping")
        PROVE  [source |-> Named(key), patterns |-> LastValue("mapping", key)] \in compiled
    <2>1. PICK i \in 1..Len(rows) : rows[i].key = key
      BY <1>2
    <2>2. rows[i] \in ToSet(rows) /\ rows[i].value = LastValue("mapping", key)
      BY <1>2, <2>1 DEF ToSet
    <2>3. PlaceOf(key) = Named(key)
      BY <1>3
    <2> QED
      BY <2>1, <2>2, <2>3
  <1>8. compiled = listed
    BY <1>6, <1>7
  <1> QED
    BY <1>4, <1>5, <1>8

(***************************************************************************)
(* The sources of the command line                                         *)
(***************************************************************************)

\* What CommandLineSources makes of one value, and its loop over all of them.
NamedBy(configured, value) ==
    LET matching == {i \in DOMAIN configured : configured[i].value = value}
    IN  IF matching = {}
        THEN [key |-> value, value |-> value, priority |-> 0]
        ELSE configured[CHOOSE i \in matching : \A j \in matching : j <= i]

TakenBy(configured, sources, value) ==
    IF \E i \in DOMAIN sources : sources[i].value = value
    THEN sources
    ELSE Append(sources, NamedBy(configured, value))

TakenFold == INSTANCE Folding WITH Op <- TakenBy

\* A source of the command line keeps its value, whatever name it gets.
LEMMA NamedHasValue ==
    ASSUME NEW V, NEW configured \in Seq(V), NEW value
    PROVE  NamedBy(configured, value).value = value
  <1> DEFINE N == Len(configured)
             matching == {i \in DOMAIN configured : configured[i].value = value}
             last == CHOOSE i \in matching : \A j \in matching : j <= i
             below == {N - i : i \in matching}
  <1>1. N \in Nat /\ DOMAIN configured = 1..N
    OBVIOUS
  <1> HIDE DEF N
  <1>2. CASE matching = {}
    BY <1>2 DEF NamedBy
  <1>3. CASE matching # {}
    <2>1. \A i \in matching : i \in 1..N /\ configured[i].value = value
      BY <1>1
    <2> HIDE DEF matching
    <2>2. below \in SUBSET Nat /\ below # {}
      <3>1. \A i \in matching : N - i \in Nat
        BY <1>1, <2>1
      <3> QED
        BY <1>3, <3>1
    <2>3. PICK least \in below : \A other \in below : least <= other
      <3> HIDE DEF below
      <3> QED
        BY <2>2, TakenFold!LeastNumber
    <2>4. PICK i \in matching : least = N - i
      OBVIOUS
    <2>5. \A j \in matching : j <= i
      <3> SUFFICES ASSUME NEW j \in matching PROVE j <= i
        OBVIOUS
      <3>1. N - i <= N - j
        BY <2>3, <2>4
      <3>2. i \in Int /\ j \in Int
        BY <2>1
      <3> QED
        BY <1>1, <3>1, <3>2
    <2>6. last \in matching
      BY <2>5
    <2>7. NamedBy(configured, value) = configured[last]
      BY <1>3 DEF NamedBy, matching
    <2> HIDE DEF last
    <2> QED
      BY <2>1, <2>6, <2>7
  <1> QED
    BY <1>2, <1>3

\* Some sources are of the first n values of the command line.
AreTaken(sources, values, n) ==
    \E place \in [1..Len(sources) -> 1..n] :
       /\ \A i \in 1..Len(sources) : /\ sources[i].value = values[place[i]]
                                     /\ \A p \in 1..n : p < place[i] => values[p] # values[place[i]]
       /\ \A i, j \in 1..Len(sources) : i < j => place[i] < place[j]
       /\ \A p \in 1..n : \E i \in 1..Len(sources) : sources[i].value = values[p]

\* Taking one more value keeps the order in which values come first.
LEMMA TakenIs ==
    ASSUME NEW V, NEW configured \in Seq(V), NEW W, NEW values \in Seq(W), NEW n \in Nat, n + 1 \in 1..Len(values),
           NEW S, \A value \in W : NamedBy(configured, value) \in S,
           NEW sources \in Seq(S), AreTaken(sources, values, n)
    PROVE  LET after == TakenBy(configured, sources, values[n + 1])
           IN  after \in Seq(S) /\ AreTaken(after, values, n + 1)
  <1> DEFINE value == values[n + 1]
             row == NamedBy(configured, value)
             after == TakenBy(configured, sources, value)
             L == Len(sources)
  <1>1. value \in W /\ L \in Nat /\ DOMAIN sources = 1..L
    OBVIOUS
  <1>2. row \in S /\ row.value = value
    BY <1>1, NamedHasValue
  <1>3. PICK place \in [1..L -> 1..n] :
           /\ \A i \in 1..L : /\ sources[i].value = values[place[i]]
                              /\ \A p \in 1..n : p < place[i] => values[p] # values[place[i]]
           /\ \A i, j \in 1..L : i < j => place[i] < place[j]
           /\ \A p \in 1..n : \E i \in 1..L : sources[i].value = values[p]
    BY DEF AreTaken
  <1>4. \A i \in 1..L : place[i] \in 1..n
    BY <1>3
  <1> HIDE DEF row
  <1>5. CASE \E i \in 1..L : sources[i].value = value
    <2>1. after = sources
      BY <1>1, <1>5 DEF TakenBy
    <2>2. place \in [1..L -> 1..(n + 1)]
      BY <1>3, <1>4
    <2>3. \A p \in 1..(n + 1) : p \in 1..n \/ p = n + 1
      OBVIOUS
    <2>4. ASSUME NEW i \in 1..L, NEW p \in 1..(n + 1), p < place[i] PROVE p \in 1..n
      BY <1>4, <2>4
    <2>5. \A p \in 1..(n + 1) : \E i \in 1..L : sources[i].value = values[p]
      BY <1>3, <1>5, <2>3
    <2>6. ASSUME NEW i \in 1..L
          PROVE  /\ sources[i].value = values[place[i]]
                 /\ \A p \in 1..(n + 1) : p < place[i] => values[p] # values[place[i]]
      BY <1>3, <2>4
    <2>7. \A i, j \in 1..L : i < j => place[i] < place[j]
      BY <1>3
    <2>8. AreTaken(sources, values, n + 1)
      BY <2>2, <2>5, <2>6, <2>7 DEF AreTaken
    <2> QED
      BY <2>1, <2>8
  <1>6. CASE ~\E i \in 1..L : sources[i].value = value
    <2>1. after = Append(sources, row)
      BY <1>1, <1>6 DEF TakenBy, row
    <2> HIDE DEF after
    <2>2. /\ after \in Seq(S) /\ Len(after) = L + 1 /\ after[L + 1] = row
          /\ \A i \in 1..L : after[i] = sources[i]
      BY <1>2, <2>1
    <2> DEFINE longer == [i \in 1..(L + 1) |-> IF i = L + 1 THEN n + 1 ELSE place[i]]
    <2>3. longer \in [1..(L + 1) -> 1..(n + 1)]
      BY <1>1, <1>4
    <2>4. /\ longer[L + 1] = n + 1 /\ \A i \in 1..L : longer[i] = place[i]
          /\ \A i \in 1..(L + 1) : i \in 1..L \/ i = L + 1
      BY <1>1
    <2> HIDE DEF longer, L
    <2>5. ASSUME NEW i \in 1..(L + 1)
          PROVE  /\ after[i].value = values[longer[i]]
                 /\ \A p \in 1..(n + 1) : p < longer[i] => values[p] # values[longer[i]]
      <3>1. CASE i \in 1..L
        <4>1. \A p \in 1..(n + 1) : p < place[i] => p \in 1..n
          BY <1>4, <3>1
        <4>2. after[i] = sources[i] /\ longer[i] = place[i]
          BY <2>2, <2>4, <3>1
        <4>3. /\ sources[i].value = values[place[i]]
              /\ \A p \in 1..n : p < place[i] => values[p] # values[place[i]]
          BY <1>3, <3>1
        <4> QED
          BY <4>1, <4>2, <4>3
      <3>2. CASE i = L + 1
        <4>1. after[i].value = value /\ longer[i] = n + 1
          BY <1>2, <2>2, <2>4, <3>2
        <4>2. \A p \in 1..(n + 1) : p < n + 1 => p \in 1..n
          OBVIOUS
        <4>3. ASSUME NEW p \in 1..n PROVE values[p] # value
          <5>1. PICK o \in 1..L : sources[o].value = values[p]
            BY <1>3
          <5> HIDE DEF value
          <5> QED
            BY <1>6, <5>1
        <4> QED
          BY <4>1, <4>2, <4>3
      <3> QED
        BY <2>4, <3>1, <3>2
    <2>6. ASSUME NEW i \in 1..(L + 1), NEW j \in 1..(L + 1), i < j PROVE longer[i] < longer[j]
      <3>1. i \in 1..L
        BY <1>1, <2>6
      <3>2. CASE j \in 1..L
        BY <1>3, <2>4, <2>6, <3>1, <3>2
      <3>3. CASE j = L + 1
        <4>1. longer[i] \in 1..n /\ longer[j] = n + 1
          BY <1>4, <2>4, <3>1, <3>3
        <4> QED
          BY <4>1
      <3> QED
        BY <2>4, <3>2, <3>3
    <2>7. ASSUME NEW p \in 1..(n + 1) PROVE \E i \in 1..(L + 1) : after[i].value = values[p]
      <3>1. CASE p \in 1..n
        <4>1. PICK i \in 1..L : sources[i].value = values[p]
          BY <1>3, <3>1
        <4>2. i \in 1..(L + 1) /\ after[i] = sources[i]
          BY <1>1, <2>2
        <4> QED
          BY <4>1, <4>2
      <3>2. CASE p = n + 1
        <4>1. L + 1 \in 1..(L + 1)
          BY <1>1
        <4> QED
          BY <1>2, <2>2, <3>2, <4>1
      <3> QED
        BY <3>1, <3>2
    <2>8. AreTaken(after, values, n + 1)
      BY <2>2, <2>3, <2>5, <2>6, <2>7 DEF AreTaken
    <2> QED
      BY <2>2, <2>8 DEF after
  <1> QED
    BY <1>1, <1>5, <1>6

\* The sources of the command line are its values, each where it comes first.
LEMMA CommandLineTaken ==
    ASSUME NEW V, NEW configured \in Seq(V), NEW W, NEW values \in Seq(W), values # <<>>
    PROVE  LET sources == CommandLineSources(values, configured)
           IN  /\ \E S : sources \in Seq(S)
               /\ AreTaken(sources, values, Len(values))
  <1> DEFINE N == Len(values)
             S == {NamedBy(configured, value) : value \in W}
             sources == CommandLineSources(values, configured)
  <1>1. N \in Nat
    OBVIOUS
  <1>2. PICK trace : /\ TakenFold!IsTrace(trace, configured, <<>>, values)
                     /\ TakenFold!Folded(configured, <<>>, values) = trace[N]
    BY TakenFold!FoldTrace
  <1>3. sources = trace[N]
    <2>1. sources = TakenFold!Folded(configured, <<>>, values)
      BY DEF CommandLineSources, TakenBy, NamedBy, TakenFold!Folded, FoldLeft, TakenFold!FoldLeft,
             MapThenFoldSet, TakenFold!MapThenFoldSet, Max, TakenFold!Max
    <2> QED
      BY <1>2, <2>1
  <1> HIDE DEF sources
  <1>4. \A value \in W : NamedBy(configured, value) \in S
    OBVIOUS
  <1> HIDE DEF S
  <1> DEFINE T == {n \in 0..N : trace[n] \in Seq(S) /\ AreTaken(trace[n], values, n)}
  <1>5. T = 0..N
    <2>1. 0 \in T
      <3>1. trace[0] = <<>>
        BY <1>1, <1>2 DEF TakenFold!IsTrace
      <3>2. <<>> \in [1..Len(<<>>) -> 1..0] /\ 1..Len(<<>>) = {} /\ 1..0 = {}
        OBVIOUS
      <3>3. AreTaken(<<>>, values, 0)
        BY <3>2 DEF AreTaken
      <3>4. trace[0] \in Seq(S) /\ AreTaken(trace[0], values, 0)
        BY <3>1, <3>3
      <3> QED
        BY <1>1, <3>4
    <2>2. ASSUME NEW n \in T, n + 1 \in 0..N PROVE n + 1 \in T
      <3>1. trace[n + 1] = TakenBy(configured, trace[n], values[n + 1])
        BY <1>1, <1>2, <2>2 DEF TakenFold!IsTrace
      <3>2. n \in Nat /\ n + 1 \in 1..Len(values) /\ trace[n] \in Seq(S) /\ AreTaken(trace[n], values, n)
        BY <2>2
      <3> HIDE DEF T
      <3>3. trace[n + 1] \in Seq(S) /\ AreTaken(trace[n + 1], values, n + 1)
        BY <1>4, <3>1, <3>2, TakenIs
      <3> QED
        BY <2>2, <3>3 DEF T
    <2>3. T \in SUBSET (0..N)
      OBVIOUS
    <2> HIDE DEF T
    <2> QED
      BY <1>1, <2>1, <2>2, <2>3, TakenFold!Numbers
  <1>6. N \in T
    BY <1>1, <1>5
  <1> QED
    BY <1>3, <1>6 DEF sources

\* The parts of a configuration that is valid.
LEMMA DiscoveredParts ==
    ASSUME NEW options, DiscoverConfiguration(world.files, options).valid
    PROVE  LET config == DiscoverConfiguration(world.files, options)
               merged == Merged(world.files)
               sources == CommandLineSources(options.sources, Configured(world.files, merged))
           IN  /\ sources # <<>> /\ \A k \in DOMAIN world.files : ~Invalid(world.files[k])
               /\ config.sources = [i \in DOMAIN sources |-> [name |-> sources[i].key, url |-> sources[i].value]]
               /\ config.mapping = CompiledMapping(merged["mapping"], sources)
               /\ config.root = FirstSet(<<options.packages, options.folder,
                                           Setting(merged["config"], "globalPackagesFolder"), DefaultFolder>>)
               /\ config.mode = IF Setting(merged["config"], "signatureValidationMode") = "require"
                                THEN "require" ELSE "accept"
               /\ options.fallback = Unset => config.fallback = OrderedFallbackPaths(merged["fallback"])
  BY DEF DiscoverConfiguration

\* Without sources of a command line, those of the files and their mappings are listed.
LEMMA ListedSources ==
    ASSUME ConfigInputs(world), world.files # <<>>, world.options.sources = <<>>,
           DiscoverConfiguration(world.files, world.options).valid
    PROVE  LET config == DiscoverConfiguration(world.files, world.options)
               names == [i \in DOMAIN config.sources |-> config.sources[i].name]
           IN  SourcesListed(config.sources) /\ MappingListed(config.mapping, names)
  <1> DEFINE config == DiscoverConfiguration(world.files, world.options)
             names == [i \in DOMAIN config.sources |-> config.sources[i].name]
             merged == Merged(world.files)
             sources == Configured(world.files, merged)
             keys == Living("sources") \ Living("disabled")
             Names == UNION {{row.key} : row \in Rows}
  <1>1. Reflects(merged, Words)
    BY MergedReflects
  <1>2. CommandLineSources(world.options.sources, sources) = sources
    BY DEF CommandLineSources
  <1>3. /\ config.sources = [i \in DOMAIN sources |-> [name |-> sources[i].key, url |-> sources[i].value]]
        /\ config.mapping = CompiledMapping(merged["mapping"], sources)
    <2> DEFINE listed == CommandLineSources(world.options.sources, sources)
    <2>1. /\ config.sources = [i \in DOMAIN listed |-> [name |-> listed[i].key, url |-> listed[i].value]]
          /\ config.mapping = CompiledMapping(merged["mapping"], listed)
      BY DiscoveredParts
    <2>2. listed = sources
      BY <1>2
    <2> HIDE DEF config, merged, sources, listed
    <2> QED
      BY <2>1, <2>2
  <1> HIDE DEF config, merged
  <1>4. /\ sources \in Seq(Rows)
        /\ \A i \in 1..Len(sources) : /\ sources[i].key \in keys
                                      /\ sources[i].value = LastValue("sources", sources[i].key)
        /\ \A i, j \in 1..Len(sources) :
              /\ i < j => Older("sources", sources[i].key, sources[j].key)
              /\ sources[i].key = sources[j].key => i = j
        /\ \A key \in keys : \E i \in 1..Len(sources) : sources[i].key = key
    BY <1>1, SourcesAre
  <1> HIDE DEF sources
  <1> DEFINE n == Len(sources)
  <1>5. n \in Nat /\ DOMAIN sources = 1..n /\ \A i \in 1..n : sources[i] \in Rows
    BY <1>4
  <1>6. DOMAIN config.sources = 1..n /\ \A i \in 1..n : /\ config.sources[i].name = sources[i].key
                                                        /\ config.sources[i].url = sources[i].value
    BY <1>3, <1>5
  <1>7. names = [i \in 1..n |-> sources[i].key]
    BY <1>6
  <1>8. \A i \in 1..n : sources[i].key \in Names
    BY <1>5
  <1> HIDE DEF names, Names, keys
  <1>9. names \in Seq(Names) /\ Len(names) = n /\ DOMAIN names = 1..n
    BY <1>5, <1>7, <1>8
  <1>10. \A i \in 1..n : names[i] = sources[i].key
    BY <1>7
  <1>11. ToSet(names) = keys /\ Len(names) = Cardinality(keys)
    <2>1. \A i \in 1..Len(names) : names[i] \in keys
      BY <1>4, <1>9, <1>10
    <2>2. \A key \in keys : \E i \in 1..Len(names) : names[i] = key
      BY <1>4, <1>9, <1>10
    <2>3. \A i, j \in 1..Len(names) : names[i] = names[j] => i = j
      BY <1>4, <1>9, <1>10
    <2> QED
      BY <1>9, <2>1, <2>2, <2>3, PlacesCounted
  <1>12. \A i, j \in DOMAIN names : i < j => Older("sources", names[i], names[j])
    BY <1>4, <1>9, <1>10
  <1>13. Lists(names, keys, LAMBDA left, right : Older("sources", left, right))
    BY <1>11, <1>12 DEF Lists
  <1>14. \A i \in DOMAIN names : config.sources[i].url = LastValue("sources", names[i])
    BY <1>4, <1>6, <1>9, <1>10
  <1>15. SourcesListed(config.sources)
    BY <1>13, <1>14 DEF SourcesListed, names, keys
  <1>16. MappingListed(config.mapping, names)
    <2>1. AreSaid(merged["mapping"], "mapping", Words)
      BY <1>1 DEF Reflects, Sections
    <2>2. /\ sources \in Seq(Rows) /\ names \in Seq(Names) /\ Len(names) = Len(sources)
          /\ \A i, j \in 1..Len(sources) : sources[i].key = sources[j].key => i = j
          /\ \A i \in 1..Len(sources) : names[i] = sources[i].key
      BY <1>4, <1>9, <1>10
    <2>3. MappingListed(CompiledMapping(merged["mapping"], sources), names)
      BY <2>1, <2>2, MappingIs DEF Names
    <2> QED
      BY <1>3, <2>3
  <1> QED
    BY <1>15, <1>16 DEF config, names

\* With sources of a command line, those are listed.
LEMMA ListedOverrides ==
    ASSUME ConfigInputs(world), world.options.sources # <<>>,
           DiscoverConfiguration(world.files, world.options).valid
    PROVE  LET config == DiscoverConfiguration(world.files, world.options)
           IN  OverridesListed([i \in DOMAIN config.sources |-> config.sources[i].url])
  <1> DEFINE config == DiscoverConfiguration(world.files, world.options)
             values == world.options.sources
             merged == Merged(world.files)
             configured == Configured(world.files, merged)
             sources == CommandLineSources(values, configured)
             urls == [i \in DOMAIN config.sources |-> config.sources[i].url]
             W == ToSet(values)
  <1>1. config.sources = [i \in DOMAIN sources |-> [name |-> sources[i].key, url |-> sources[i].value]]
    BY DiscoveredParts
  <1> HIDE DEF config
  <1>2. values \in Seq(W) /\ values # <<>>
    BY DEF ConfigInputs
  <1>3. \E V : configured \in Seq(V)
    <2>1. Reflects(merged, Words)
      BY MergedReflects
    <2> HIDE DEF merged
    <2>2. CASE world.files = <<>>
      BY <2>1, <2>2, PublicSourceIs
    <2>3. CASE world.files # <<>>
      BY <2>1, <2>3, SourcesAre
    <2> QED
      BY <2>2, <2>3
  <1> HIDE DEF configured, values, W
  <1>4. (\E S : sources \in Seq(S)) /\ AreTaken(sources, values, Len(values))
    BY <1>2, <1>3, CommandLineTaken
  <1> HIDE DEF sources
  <1> DEFINE n == Len(sources)
             N == Len(values)
  <1>5. n \in Nat /\ DOMAIN sources = 1..n /\ N \in Nat /\ DOMAIN values = 1..N
        /\ \A p \in 1..N : values[p] \in W
    BY <1>2, <1>4
  <1>6. PICK place \in [1..n -> 1..N] :
           /\ \A i \in 1..n : /\ sources[i].value = values[place[i]]
                              /\ \A p \in 1..N : p < place[i] => values[p] # values[place[i]]
           /\ \A i, j \in 1..n : i < j => place[i] < place[j]
           /\ \A p \in 1..N : \E i \in 1..n : sources[i].value = values[p]
    BY <1>4 DEF AreTaken
  <1>7. W = {values[p] : p \in 1..N}
    BY <1>5 DEF W, ToSet
  <1>8. urls = [i \in 1..n |-> sources[i].value]
    BY <1>1, <1>5
  <1>9. \A i \in 1..n : place[i] \in 1..N /\ sources[i].value = values[place[i]] /\ sources[i].value \in W
    BY <1>5, <1>6
  <1> HIDE DEF urls, n, N
  <1>10. urls \in Seq(W) /\ Len(urls) = n /\ DOMAIN urls = 1..n
    BY <1>5, <1>8, <1>9
  <1>11. \A i \in 1..n : urls[i] = values[place[i]]
    BY <1>8, <1>9
  <1>12. ASSUME NEW i \in 1..n, NEW j \in 1..n, i < j
         PROVE  \A p \in 1..place[i] : values[p] # urls[j]
    <2>1. place[i] < place[j] /\ place[i] \in 1..N /\ place[j] \in 1..N
      BY <1>6, <1>9, <1>12
    <2>2. \A p \in 1..place[i] : p \in 1..N /\ p < place[j]
      BY <1>5, <2>1
    <2> QED
      BY <1>6, <1>11, <2>2
  <1>13. ToSet(urls) = W /\ Len(urls) = Cardinality(W)
    <2>1. \A i \in 1..Len(urls) : urls[i] \in W
      BY <1>8, <1>9, <1>10
    <2>2. ASSUME NEW value \in W PROVE \E i \in 1..Len(urls) : urls[i] = value
      <3>1. PICK p \in 1..N : value = values[p]
        BY <1>7
      <3>2. PICK i \in 1..n : sources[i].value = values[p]
        BY <1>6
      <3>3. urls[i] = value
        BY <1>8, <3>1, <3>2
      <3> QED
        BY <1>10, <3>3
    <2>3. \A i, j \in 1..Len(urls) : urls[i] = urls[j] => i = j
      <3>1. ASSUME NEW i \in 1..n, NEW j \in 1..n, i < j, urls[i] = urls[j] PROVE FALSE
        <4>1. place[i] \in 1..place[i] /\ values[place[i]] = urls[i]
          BY <1>5, <1>9, <1>11
        <4> QED
          BY <1>12, <3>1, <4>1
      <3>2. \A i, j \in 1..n : i = j \/ i < j \/ j < i
        BY <1>5
      <3> QED
        BY <1>10, <3>1, <3>2
    <2>4. urls \in Seq(W)
      BY <1>10
    <2> QED
      BY <2>1, <2>2, <2>3, <2>4, PlacesCounted
  <1>14. ASSUME NEW i \in DOMAIN urls, NEW j \in DOMAIN urls, i < j
         PROVE  \E p \in DOMAIN values : /\ values[p] = urls[i]
                                         /\ \A q \in 1..p : values[q] # urls[j]
    <2>1. i \in 1..n /\ j \in 1..n
      BY <1>10
    <2>2. place[i] \in DOMAIN values /\ values[place[i]] = urls[i]
      BY <1>5, <1>9, <1>11, <2>1
    <2> QED
      BY <1>12, <1>14, <2>1, <2>2
  <1>15. OverridesListed(urls)
    BY <1>13, <1>14 DEF OverridesListed, Lists, values, W
  <1> QED
    BY <1>15 DEF urls, config

\* What is set first, of two and of four.
LEMMA FirstSetIs ==
    /\ \A a, b : FirstSet(<<a, b>>) = IF a # Unset THEN a ELSE b
    /\ \A a, b, c, d : FirstSet(<<a, b, c, d>>) = IF a # Unset THEN a
                                                  ELSE IF b # Unset THEN b
                                                  ELSE IF c # Unset THEN c
                                                  ELSE d
  <1> DEFINE Is(values, i) == values[i] # Unset /\ \A j \in 1..(i - 1) : values[j] = Unset
  <1>1. ASSUME NEW values, NEW n \in Nat, DOMAIN values = 1..n, NEW i \in 1..n, Is(values, i)
        PROVE  FirstSet(values) = values[i]
    <2>1. \A other \in 1..n : Is(values, other) => other = i
      <3> SUFFICES ASSUME NEW other \in 1..n, Is(values, other), other # i PROVE FALSE
        OBVIOUS
      <3>1. other < i \/ i < other
        OBVIOUS
      <3>2. CASE other < i
        <4>1. other \in 1..(i - 1)
          BY <3>2
        <4> QED
          BY <1>1, <4>1
      <3>3. CASE i < other
        <4>1. i \in 1..(other - 1)
          BY <3>3
        <4> QED
          BY <1>1, <4>1
      <3> QED
        BY <3>1, <3>2, <3>3
    <2>2. (CHOOSE other \in DOMAIN values : Is(values, other)) = i
      <3> HIDE DEF Is
      <3> QED
        BY <1>1, <2>1
    <2>3. values[i] # Unset
      BY <1>1
    <2> QED
      BY <1>1, <2>2, <2>3 DEF FirstSet
  <1>2. ASSUME NEW values, \A i \in DOMAIN values : values[i] = Unset
        PROVE  FirstSet(values) = Unset
    BY <1>2 DEF FirstSet
  <1>3. ASSUME NEW a, NEW b PROVE FirstSet(<<a, b>>) = IF a # Unset THEN a ELSE b
    <2> DEFINE values == <<a, b>>
    <2>1. DOMAIN values = 1..2 /\ values[1] = a /\ values[2] = b /\ 1..0 = {} /\ 1..1 = {1} /\ 1..2 = {1, 2}
      OBVIOUS
    <2> HIDE DEF values
    <2>2. CASE a # Unset
      <3>1. Is(values, 1)
        BY <2>1, <2>2
      <3> HIDE DEF Is
      <3> QED
        BY <1>1, <2>1, <2>2, <3>1 DEF values
    <2>3. CASE a = Unset /\ b # Unset
      <3>1. Is(values, 2)
        BY <2>1, <2>3
      <3> HIDE DEF Is
      <3> QED
        BY <1>1, <2>1, <2>3, <3>1 DEF values
    <2>4. CASE a = Unset /\ b = Unset
      <3>1. \A i \in DOMAIN values : values[i] = Unset
        BY <2>1, <2>4
      <3> QED
        BY <1>2, <2>4, <3>1 DEF values
    <2> QED
      BY <2>2, <2>3, <2>4
  <1>4. ASSUME NEW a, NEW b, NEW c, NEW d
        PROVE  FirstSet(<<a, b, c, d>>) = IF a # Unset THEN a
                                          ELSE IF b # Unset THEN b
                                          ELSE IF c # Unset THEN c
                                          ELSE d
    <2> DEFINE values == <<a, b, c, d>>
    <2>1. /\ DOMAIN values = 1..4 /\ values[1] = a /\ values[2] = b /\ values[3] = c /\ values[4] = d
          /\ 1..0 = {} /\ 1..1 = {1} /\ 1..2 = {1, 2} /\ 1..3 = {1, 2, 3} /\ 1..4 = {1, 2, 3, 4}
      OBVIOUS
    <2> HIDE DEF values
    <2>2. CASE a # Unset
      <3>1. Is(values, 1)
        BY <2>1, <2>2
      <3>2. 1 \in 1..4 /\ 4 \in Nat
        OBVIOUS
      <3> HIDE DEF Is
      <3>3. FirstSet(values) = values[1]
        BY <1>1, <2>1, <3>1, <3>2
      <3> QED
        BY <2>1, <2>2, <3>3 DEF values
    <2>3. CASE a = Unset /\ b # Unset
      <3>1. Is(values, 2)
        BY <2>1, <2>3
      <3>2. 2 \in 1..4 /\ 4 \in Nat
        OBVIOUS
      <3> HIDE DEF Is
      <3>3. FirstSet(values) = values[2]
        BY <1>1, <2>1, <3>1, <3>2
      <3> QED
        BY <2>1, <2>3, <3>3 DEF values
    <2>4. CASE a = Unset /\ b = Unset /\ c # Unset
      <3>1. Is(values, 3)
        BY <2>1, <2>4
      <3>2. 3 \in 1..4 /\ 4 \in Nat
        OBVIOUS
      <3> HIDE DEF Is
      <3>3. FirstSet(values) = values[3]
        BY <1>1, <2>1, <3>1, <3>2
      <3> QED
        BY <2>1, <2>4, <3>3 DEF values
    <2>5. CASE a = Unset /\ b = Unset /\ c = Unset /\ d # Unset
      <3>1. Is(values, 4)
        BY <2>1, <2>5
      <3>2. 4 \in 1..4 /\ 4 \in Nat
        OBVIOUS
      <3> HIDE DEF Is
      <3>3. FirstSet(values) = values[4]
        BY <1>1, <2>1, <3>1, <3>2
      <3> QED
        BY <2>1, <2>5, <3>3 DEF values
    <2>6. CASE a = Unset /\ b = Unset /\ c = Unset /\ d = Unset
      <3>1. \A i \in DOMAIN values : values[i] = Unset
        BY <2>1, <2>6
      <3> QED
        BY <1>2, <2>6, <3>1 DEF values
    <2> QED
      BY <2>2, <2>3, <2>4, <2>5, <2>6
  <1> QED
    BY <1>3, <1>4

\* Without sources of a command line, a configuration is not valid only if no source is left.
LEMMA FolderIs ==
    ASSUME ConfigInputs(world), DiscoverConfiguration(world.files, world.options).valid
    PROVE  FolderFits(GlobalPackagesDirectory(world.files, world.options),
                      DiscoverConfiguration(world.files, world.options))
  <1> DEFINE files == world.files
             options == world.options
             bare == [options EXCEPT !.sources = <<>>]
             config == DiscoverConfiguration(files, options)
             configuration == DiscoverConfiguration(files, bare)
             merged == Merged(files)
             sources == Configured(files, merged)
             named == FirstSet(<<options.packages, options.folder>>)
             setting == Setting(merged["config"], "globalPackagesFolder")
             folder == GlobalPackagesDirectory(files, options)
  <1>1. /\ bare.sources = <<>> /\ bare.packages = options.packages /\ bare.folder = options.folder
    BY DEF ConfigInputs
  <1>2. /\ config.root = FirstSet(<<options.packages, options.folder, setting, DefaultFolder>>)
        /\ \A k \in DOMAIN files : ~Invalid(files[k])
        /\ CommandLineSources(options.sources, sources) # <<>>
    BY DiscoveredParts
  <1>3. named # Unset => config.root = named
    BY <1>2, FirstSetIs
  <1>4. folder = IF named # Unset THEN named ELSE IF configuration.valid THEN configuration.root ELSE Unset
    <2>1. configuration.valid \in BOOLEAN
      BY DEF DiscoverConfiguration
    <2> HIDE DEF named, configuration
    <2>2. folder = CASE named # Unset -> named
                     [] named = Unset /\ configuration.valid -> configuration.root
                     [] named = Unset /\ ~configuration.valid -> Unset
      BY DEF GlobalPackagesDirectory, named, configuration
    <2> QED
      BY <2>1, <2>2
  <1>5. CASE named # Unset
    BY <1>3, <1>4, <1>5 DEF FolderFits
  <1>6. CASE configuration.valid
    <2>1. configuration.root = FirstSet(<<bare.packages, bare.folder, setting, DefaultFolder>>)
      BY <1>6, DiscoveredParts
    <2>2. configuration.root = config.root
      BY <1>1, <1>2, <2>1
    <2> HIDE DEF configuration, config, named, folder
    <2>3. folder = config.root
      BY <1>3, <1>4, <1>6, <2>2
    <2> QED
      BY <2>3 DEF FolderFits, folder, config
  <1>7. CASE named = Unset /\ ~configuration.valid
    <2>1. sources = <<>>
      <3>1. CommandLineSources(bare.sources, sources) = sources
        BY <1>1 DEF CommandLineSources
      <3> HIDE DEF bare, sources
      <3>2. sources # <<>> => configuration.valid
        BY <1>2, <3>1 DEF DiscoverConfiguration, sources
      <3> QED
        BY <1>7, <3>2
    <2>2. options.sources # <<>>
      BY <1>2, <2>1 DEF CommandLineSources
    <2>3. Reflects(merged, Words)
      BY MergedReflects
    <2> HIDE DEF merged
    <2>4. files # <<>>
      BY <2>1, <2>3, PublicSourceIs
    <2>5. Living("sources") \subseteq Living("disabled")
      <3>1. Len(sources) = 0
        BY <2>1
      <3>2. \A key \in Living("sources") \ Living("disabled") : \E i \in 1..Len(sources) : sources[i].key = key
        BY <2>3, <2>4, SourcesAre
      <3> HIDE DEF sources
      <3>3. 1..Len(sources) = {}
        BY <3>1
      <3> QED
        BY <3>2, <3>3
    <2>6. folder = Unset
      <3> HIDE DEF folder, configuration, named
      <3> QED
        BY <1>4, <1>7
    <2> QED
      BY <2>2, <2>4, <2>5, <2>6 DEF FolderFits
  <1> QED
    BY <1>5, <1>6, <1>7

\* A configuration that is valid fits.
LEMMA ConfigIs ==
    ASSUME ConfigInputs(world), DiscoverConfiguration(world.files, world.options).valid
    PROVE  ConfigFits(DiscoverConfiguration(world.files, world.options))
  <1> DEFINE config == DiscoverConfiguration(world.files, world.options)
             merged == Merged(world.files)
             names == [i \in DOMAIN config.sources |-> config.sources[i].name]
             key == "signatureValidationMode"
  <1>1. Reflects(merged, Words)
    BY MergedReflects
  <1>2. /\ config.mode = IF Setting(merged["config"], key) = "require" THEN "require" ELSE "accept"
        /\ world.options.fallback = Unset => config.fallback = OrderedFallbackPaths(merged["fallback"])
    BY DiscoveredParts
  <1> HIDE DEF merged
  <1>3. AreSaid(merged["config"], "config", Words) /\ AreSaid(merged["fallback"], "fallback", Words)
    BY <1>1 DEF Reflects, Sections
  <1>4. Setting(merged["config"], key) = IF key \in Living("config") THEN LastValue("config", key) ELSE Unset
    BY <1>3, RowsMean
  <1>5. config.mode = "require" <=> key \in Living("config") /\ LastValue("config", key) = "require"
    <2>1. "require" # "accept" /\ Unset # "require"
      BY UnsetAssumption
    <2> HIDE DEF config, key
    <2> QED
      BY <1>2, <1>4, <2>1
  <1>6. world.options.fallback = Unset => FallbackListed(config.fallback)
    BY <1>2, <1>3, FallbacksListed
  <1>7. world.files # <<>> /\ world.options.sources = <<>> =>
           SourcesListed(config.sources) /\ MappingListed(config.mapping, names)
    BY ListedSources
  <1>8. world.options.sources # <<>> =>
           OverridesListed([i \in DOMAIN config.sources |-> config.sources[i].url])
    BY ListedOverrides
  <1> HIDE DEF config
  <1>9. ConfigFits(config)
    BY <1>5, <1>6, <1>7, <1>8 DEF ConfigFits
  <1> QED
    BY <1>9 DEF config

\* The folder of packages is one, or there is none.
LEMMA FolderKnown ==
    ASSUME ConfigInputs(world), DefaultFolder \in Folders
    PROVE  GlobalPackagesDirectory(world.files, world.options) \in Folders \cup {Unset}
  <1> DEFINE files == world.files
             options == world.options
             bare == [options EXCEPT !.sources = <<>>]
             configuration == DiscoverConfiguration(files, bare)
             merged == Merged(files)
             named == FirstSet(<<options.packages, options.folder>>)
             setting == Setting(merged["config"], "globalPackagesFolder")
             Possible == Folders \cup {Unset}
  <1>1. bare.packages = options.packages /\ bare.folder = options.folder
    BY DEF ConfigInputs
  <1>2. options.packages \in Possible /\ options.folder \in Possible /\ DefaultFolder \in Possible
    BY DEF ConfigInputs
  <1>3. setting \in Possible
    <2> DEFINE key == "globalPackagesFolder"
               rows == merged["config"]
    <2>1. AreSaid(rows, "config", Words)
      BY MergedReflects DEF Reflects, Sections
    <2> HIDE DEF rows, key
    <2>2. Setting(rows, key) = IF key \in Living("config") THEN LastValue("config", key) ELSE Unset
      BY <2>1, RowsMean
    <2>3. ASSUME key \in Living("config") PROVE LastValue("config", key) \in Possible
      <3>1. PICK i \in 1..Len(rows) : rows[i].key = key
        BY <2>1, <2>3, RowsMean
      <3>2. IsSaid(rows[i], "config", Words)
        BY <2>1 DEF AreSaid
      <3> DEFINE place == Latest(Said(Words, "config", key))
      <3>3. place \in Said(Words, "config", key)
        BY <3>1, <3>2 DEF IsSaid, IsLatest
      <3> HIDE DEF place
      <3>4. place \in Words /\ Word(place).section = "config" /\ Word(place).key = key
        BY <3>3 DEF Said
      <3>5. Word(place).value \in Possible
        BY <3>4, WordFacts DEF key
      <3> QED
        BY <3>5 DEF LastValue, place
    <2> QED
      BY <2>2, <2>3 DEF rows, key
  <1>4. named \in Possible
    BY <1>2, FirstSetIs
  <1>5. configuration.valid => configuration.root \in Possible
    <2>1. configuration.valid =>
             configuration.root = FirstSet(<<bare.packages, bare.folder, setting, DefaultFolder>>)
      BY DiscoveredParts
    <2> HIDE DEF configuration, bare, setting, Possible
    <2>2. FirstSet(<<bare.packages, bare.folder, setting, DefaultFolder>>) \in Possible
      <3>1. /\ bare.packages \in Possible /\ bare.folder \in Possible
            /\ setting \in Possible /\ DefaultFolder \in Possible
        BY <1>1, <1>2, <1>3
      <3>2. \A a, b, c, d : FirstSet(<<a, b, c, d>>) = IF a # Unset THEN a
                                                      ELSE IF b # Unset THEN b
                                                      ELSE IF c # Unset THEN c
                                                      ELSE d
        BY FirstSetIs
      <3> QED
        BY <3>1, <3>2
    <2> QED
      BY <2>1, <2>2
  <1>6. configuration.valid \in BOOLEAN
    BY DEF DiscoverConfiguration
  <1> HIDE DEF named, configuration
  <1>7. GlobalPackagesDirectory(files, options) =
            CASE named # Unset -> named
              [] named = Unset /\ configuration.valid -> configuration.root
              [] named = Unset /\ ~configuration.valid -> Unset
    BY DEF GlobalPackagesDirectory, named, configuration
  <1>8. Unset \in Possible
    OBVIOUS
  <1> HIDE DEF Possible
  <1>9. GlobalPackagesDirectory(files, options) \in Possible
    BY <1>4, <1>5, <1>6, <1>7, <1>8
  <1> QED
    BY <1>9 DEF Possible

(***************************************************************************)
(* The commands                                                            *)
(***************************************************************************)

\* What every command selects, whenever it does: it depends on the world alone.
Chosen ==
    [sdk |-> Sdk, runtime |-> Rid("runtime"), host |-> Rid("host"),
     config |-> DiscoverConfiguration(world.files, world.options),
     folder |-> GlobalPackagesDirectory(world.files, world.options),
     sources |-> Sources,
     closure |-> EvaluateProjectClosures(world.tree, world.roots),
     frameworks |-> Frameworks]

\* The world is one of those there are, and a command that has selected selected that.
PlanIInv ==
    /\ \E circumstances \in Worlds : world \in circumstances
    /\ choice \in [Calls -> {Undecided, Chosen}]

\* While the world is what it is, so is what commands select.
LEMMA ChosenStays ==
    ASSUME UNCHANGED world
    PROVE  Chosen' = Chosen
  BY DEF Chosen, Sdk, Rid, Sources, Frameworks

\* Selecting changes one choice; nothing else changes any, or the world.
LEMMA ChoiceChanges ==
    ASSUME [PlanNext]_planVars
    PROVE  /\ UNCHANGED world
           /\ \/ UNCHANGED choice
              \/ \E c \in Calls : choice' = [choice EXCEPT ![c] = Chosen]
  <1>1. ASSUME NEW c \in Calls, Choose(c)
        PROVE  UNCHANGED world /\ choice' = [choice EXCEPT ![c] = Chosen]
    BY <1>1 DEF Choose, Chosen
  <1>2. ASSUME NEW c \in Calls, LocatePacks(c) \/ PlanStep(c) \/ Kill(c)
        PROVE  UNCHANGED <<world, choice>>
    BY <1>2 DEF LocatePacks, PlanStep, Kill
  <1>3. ASSUME NEW repair \in world.repairs, Repair(repair[1], repair[2])
        PROVE  UNCHANGED <<world, choice>>
    BY <1>3 DEF Repair
  <1>4. ASSUME NEW folder \in Folders, NEW print \in Prints, Blackout(folder, print)
        PROVE  UNCHANGED <<world, choice>>
    BY <1>4 DEF Blackout
  <1>5. CASE UNCHANGED planVars
    BY <1>5 DEF planVars
  <1> QED
    BY <1>1, <1>2, <1>3, <1>4, <1>5 DEF PlanNext

\* The invariant holds at first.
LEMMA PlanInitIInv == PlanInit => PlanIInv
  BY DEF PlanInit, PlanIInv

\* No step breaks the invariant.
LEMMA PlanNextIInv == PlanIInv /\ [PlanNext]_planVars => PlanIInv'
  <1> SUFFICES ASSUME PlanIInv, [PlanNext]_planVars PROVE PlanIInv'
    OBVIOUS
  <1>1. UNCHANGED world /\ Chosen' = Chosen
    BY ChoiceChanges, ChosenStays
  <1>2. UNCHANGED choice \/ \E c \in Calls : choice' = [choice EXCEPT ![c] = Chosen]
    BY ChoiceChanges
  <1>3. choice' \in [Calls -> {Undecided, Chosen}]
    BY <1>2 DEF PlanIInv
  <1> HIDE DEF Chosen
  <1>4. (\E circumstances \in Worlds : world \in circumstances)'
    BY <1>1 DEF PlanIInv
  <1> QED
    BY <1>1, <1>3, <1>4 DEF PlanIInv

\* What the circumstances are assumed to be is so of the world.
LEMMA WorldGiven ==
    ASSUME PlanIInv
    PROVE  /\ SdkInputs(world) /\ GraphInputs(world) /\ FrameworkInputs(world)
           /\ ConfigInputs(world) /\ PackInputs(world) /\ DefaultFolder \in Folders
  BY WorldsAssumption DEF PlanIInv

\* Two commands select the same.
LEMMA SelectedIsChosen ==
    ASSUME PlanIInv, NEW chosen \in Selections
    PROVE  chosen = Chosen
  BY DEF PlanIInv, Selections

\* The SDK that is selected is installed.
LEMMA SdkInstalled ==
    ASSUME SdkInputs(world), Sdk # NoSdk
    PROVE  Sdk.root \in DOMAIN world.installed /\ Sdk.version \in world.installed[Sdk.root]
  <1> DEFINE roots == SearchRoots(world.global, world.hosts)
  <1>1. SdkFits(Sdk)
    BY SdkSelected
  <1>2. Sdk.version \in world.installed[Sdk.root] /\ \E i \in DOMAIN roots : roots[i] = Sdk.root
    BY <1>1 DEF SdkFits
  <1>3. Contains(world.global.paths, HostRoot) => world.hosts # <<>>
    BY DEF Sdk, SelectSdk
  <1>4. roots \in Seq(DOMAIN world.installed)
    BY <1>3, SearchRootsAre DEF SdkInputs
  <1> HIDE DEF roots
  <1> QED
    BY <1>2, <1>4

\* The identifiers of the packs of an SDK.
LEMMA RidsSelected ==
    ASSUME SdkInputs(world), GraphInputs(world), Sdk # NoSdk
    PROVE  LET bundled == world.catalog[Sdk.version]
           IN  /\ RidFits(Rid("runtime"), Loaded(bundled.graph), bundled.runtime)
               /\ RidFits(Rid("host"), Loaded(bundled.graph), bundled.host)
  <1> DEFINE bundled == world.catalog[Sdk.version]
             document == bundled.graph
             graph == Loaded(document)
             Rids == Identifiers(document)
  <1>1. Sdk.root \in DOMAIN world.installed /\ Sdk.version \in world.installed[Sdk.root]
    BY SdkInstalled
  <1>2. /\ \A rid \in DOMAIN document : document[rid] \in Seq(Rids)
        /\ IsFiniteSet(Rids) /\ NoRid \notin Rids \cup {world.requested}
    BY <1>1 DEF GraphInputs
  <1>3. DOMAIN document \subseteq Rids
    BY DEF Identifiers
  <1>4. IsGraph(graph) /\ DOMAIN graph \subseteq Rids
    <2> HIDE DEF document, Rids
    <2> QED
      BY <1>2, <1>3, LoadedIsGraph
  <1>5. NoRid \notin DOMAIN graph \cup {world.requested}
    BY <1>2, <1>4
  <1>6. /\ Rid("runtime") = SelectPackRuntimeIdentifier(graph, world.requested, bundled.runtime)
        /\ Rid("host") = SelectPackRuntimeIdentifier(graph, world.requested, bundled.host)
    BY DEF Rid
  <1> HIDE DEF graph
  <1>7. /\ RidFits(Rid("runtime"), graph, bundled.runtime)
        /\ RidFits(Rid("host"), graph, bundled.host)
    BY <1>4, <1>5, <1>6, RidSelected
  <1> QED
    BY <1>7 DEF graph

\* Whatever global.json asks and whatever is installed, a command takes an SDK from the
\* first root that has one its policy allows, and of those the one the policy prefers, or
\* fails when no root has any or global.json makes no sense (discover_sdks_in_roots); and
\* it takes for each kind of pack the nearest identifier that is supported, among those the
\* requested one leads to (compile_compatibility_ranges, select_pack_runtime_identifier).
THEOREM SelectionsAlwaysFit == PlanSpec => []SelectionFits
  <1>1. PlanIInv => SelectionFits
    <2> SUFFICES ASSUME PlanIInv, NEW chosen \in Selections
                 PROVE  /\ SdkFits(chosen.sdk)
                        /\ chosen.sdk # NoSdk =>
                              LET bundled == world.catalog[chosen.sdk.version]
                              IN  /\ RidFits(chosen.runtime, Loaded(bundled.graph), bundled.runtime)
                                  /\ RidFits(chosen.host, Loaded(bundled.graph), bundled.host)
      BY DEF SelectionFits
    <2>1. /\ chosen.sdk = Sdk /\ chosen.runtime = Rid("runtime") /\ chosen.host = Rid("host")
      BY SelectedIsChosen DEF Chosen
    <2>2. SdkInputs(world) /\ GraphInputs(world)
      BY WorldGiven
    <2>3. SdkFits(Sdk)
      BY <2>2, SdkSelected
    <2> QED
      BY <2>1, <2>2, <2>3, RidsSelected
  <1> QED
    BY <1>1, PlanInitIInv, PlanNextIInv, PTL DEF PlanSpec

\* When a command plans the frameworks of a project without an error, there is one row for
\* the core framework and one for each that is referenced (plan_project), the runtime of
\* each row is the one its policy prefers of what is installed (select_installed_runtime),
\* and what a restore prunes for is those of the rows that have pruning data
\* (pruning_framework_batch).
THEOREM FrameworksAlwaysFit == PlanSpec => []FrameworksFit
  <1>1. PlanIInv => FrameworksFit
    <2> SUFFICES ASSUME PlanIInv, NEW chosen \in Selections, chosen.frameworks.error = "none"
                 PROVE  PlanFits(chosen.frameworks.rows)
      BY DEF FrameworksFit
    <2>1. chosen.frameworks = Frameworks
      BY SelectedIsChosen DEF Chosen
    <2>2. Frameworks = PlanFrameworks(world.project, world.definitions, world.frameworks)
      <3>1. Sdk # NoSdk
        <4>1. Sdk = NoSdk => Frameworks.error = "sdk"
          BY DEF Frameworks
        <4> QED
          BY <2>1, <4>1
      <3> QED
        BY <3>1 DEF Frameworks
    <2>3. FrameworkInputs(world)
      BY WorldGiven
    <2> QED
      BY <2>1, <2>2, <2>3, FrameworksPlanned
  <1> QED
    BY <1>1, PlanInitIInv, PlanNextIInv, PTL DEF PlanSpec

\* A step of a command that selects and plans is one of the inventory's, or changes nothing of it.
LEMMA PlanNextIsNext ==
    ASSUME PlanIInv, TypeOK, [PlanNext]_planVars
    PROVE  [Next]_vars
  <1>1. ASSUME NEW c \in Calls, Choose(c) PROVE UNCHANGED vars
    BY <1>1 DEF Choose, vars
  <1>2. ASSUME NEW c \in Calls, LocatePacks(c) PROVE Next
    <2> DEFINE chosen == choice[c]
               runtimes == Candidates(chosen, "runtime")
               hosts == Candidates(chosen, "host")
    <2>1. chosen # Undecided /\ Complete(chosen) /\ Locate(c, chosen.folder, runtimes, hosts)
      BY <1>2 DEF LocatePacks
    <2>2. chosen = Chosen
      BY <2>1 DEF PlanIInv
    <2>3. chosen.folder \in Folders
      <3>1. chosen.folder = GlobalPackagesDirectory(world.files, world.options)
        BY <2>2 DEF Chosen
      <3>2. ConfigInputs(world) /\ DefaultFolder \in Folders
        BY WorldGiven
      <3>3. chosen.folder # Unset
        BY <2>1 DEF Complete
      <3> QED
        BY <3>1, <3>2, <3>3, FolderKnown
    <2>4. ASSUME NEW one, NEW other PROVE Known(one) \o Known(other) \in CandidateLists
      <3>1. \A root : Known(root) = <<>> \/ (root \in Roots /\ Known(root) = <<root>>)
        BY DEF Known
      <3>2. Known(one) \o Known(other) \in [1..0 -> Roots] \cup [1..1 -> Roots] \cup [1..2 -> Roots]
        <4>1. CASE Known(one) = <<>> /\ Known(other) = <<>>
          BY <4>1
        <4>2. CASE Known(one) = <<>> /\ other \in Roots /\ Known(other) = <<other>>
          BY <4>2
        <4>3. CASE one \in Roots /\ Known(one) = <<one>> /\ Known(other) = <<>>
          BY <4>3
        <4>4. CASE one \in Roots /\ Known(one) = <<one>> /\ other \in Roots /\ Known(other) = <<other>>
          <5> DEFINE both == <<one>> \o <<other>>
          <5>1. <<one>> \in Seq(Roots) /\ <<other>> \in Seq(Roots) /\ Len(<<one>>) = 1 /\ Len(<<other>>) = 1
            BY <4>4
          <5>2. both \in Seq(Roots) /\ Len(both) = 2
            BY <5>1
          <5>3. Known(one) \o Known(other) = both
            BY <4>4
          <5> HIDE DEF both
          <5> QED
            BY <5>2, <5>3
        <4> QED
          BY <3>1, <4>1, <4>2, <4>3, <4>4
      <3>3. 0 \in 0..2 /\ 1 \in 0..2 /\ 2 \in 0..2
        OBVIOUS
      <3> QED
        BY <3>2, <3>3 DEF CandidateLists
    <2>5. runtimes \in CandidateLists /\ hosts \in CandidateLists
      BY <2>4 DEF Candidates
    <2> HIDE DEF runtimes, hosts, chosen
    <2> QED
      BY <2>1, <2>3, <2>5 DEF Next
  <1>3. ASSUME NEW c \in Calls, PlanStep(c) PROVE Next
    BY <1>3 DEF PlanStep, Next
  <1>4. ASSUME NEW c \in Calls, Kill(c) PROVE Next
    BY <1>4 DEF Kill, Next, Environment
  <1>5. ASSUME NEW repair \in world.repairs, Repair(repair[1], repair[2]) PROVE Next
    <2> DEFINE root == repair[1]
               state == [stamp |-> packs[root].stamp + 1, present |-> repair[2].present,
                         whole |-> repair[2].whole, name |-> repair[2].name]
    <2>1. Replace(root, state)
      BY <1>5 DEF Repair
    <2>2. PackInputs(world)
      BY WorldGiven
    <2>3. root \in Roots /\ repair[2] \in [present : BOOLEAN, whole : BOOLEAN, name : Apphosts]
      BY <2>2 DEF PackInputs
    <2>4. packs[root].stamp \in Stamps /\ packs[root].stamp < MaxStamp
      BY <2>1, <2>3 DEF TypeOK, States, Replace
    <2>5. packs[root].stamp + 1 \in Stamps
      BY <2>4, PackInventoryAssumption DEF Stamps
    <2>6. state \in States
      BY <2>3, <2>5 DEF States
    <2> HIDE DEF root, state
    <2> QED
      BY <2>1, <2>3, <2>6 DEF Next, Environment, root
  <1>6. ASSUME NEW folder \in Folders, NEW print \in Prints, Blackout(folder, print) PROVE Next
    BY <1>6 DEF Blackout, Next, Environment
  <1>7. CASE UNCHANGED planVars
    BY <1>7 DEF planVars, vars
  <1> QED
    BY <1>1, <1>2, <1>3, <1>4, <1>5, <1>6, <1>7 DEF PlanNext

\* Before any command selects, no inventory is there.
LEMMA PlanInitIsInit == PlanInit => Init
  <1> SUFFICES ASSUME PlanInit PROVE Init
    OBVIOUS
  <1>1. PackInputs(world)
    BY WorldsAssumption DEF PlanInit
  <1> QED
    BY <1>1 DEF PlanInit, Init, PackInputs

\* Whatever commands select, they do with the packs and the inventories what PackInventory
\* says commands may do: they locate packs among candidates of which there are at most two,
\* in a folder there is (plan_runtime_packs).
THEOREM PlansUseInventories == PlanSpec => Spec
  <1>1. PlanInit => PlanIInv /\ IInv
    BY PlanInitIInv, PlanInitIsInit, InitIInv
  <1>2. PlanIInv /\ IInv /\ [PlanNext]_planVars => PlanIInv' /\ IInv' /\ [Next]_vars
    <2> SUFFICES ASSUME PlanIInv, IInv, [PlanNext]_planVars PROVE PlanIInv' /\ IInv' /\ [Next]_vars
      OBVIOUS
    <2>1. PlanIInv'
      BY PlanNextIInv
    <2>2. [Next]_vars
      BY PlanNextIsNext DEF IInv
    <2>3. IInv'
      BY <2>2, NextIInv
    <2> QED
      BY <2>1, <2>2, <2>3
  <1> QED
    BY <1>1, <1>2, PlanInitIsInit, PTL DEF PlanSpec, Spec

\* So inventories tell the truth, and no command plans with what is stale, whatever the
\* projects, the configurations and the SDKs are that the commands select from.
THEOREM PlansKeepInventories == PlanSpec => []InventoriesTrue /\ []PlansFresh
  BY PlansUseInventories, InventoriesStayTrue, PlansStayFresh, PTL

\* Whatever files configure and whatever the command line and the environment say, a
\* configuration that is valid is the one its files spell out element by element: the
\* sources that the last word on each adds and nothing disables, in the order in which they
\* came to be, the folders of the nearer files first, the mappings by the last word
\* (merge_config, ordered_fallback_paths, command_line_sources); and a plan looks for packs
\* where a restore puts them, or has no source left without those of the command line
\* (global_packages_directory).
THEOREM ConfigurationAlwaysMerged == PlanSpec => []ConfigurationMerged
  <1>1. PlanIInv => ConfigurationMerged
    <2> SUFFICES ASSUME PlanIInv, NEW chosen \in Selections, chosen.config.valid
                 PROVE  ConfigFits(chosen.config) /\ FolderFits(chosen.folder, chosen.config)
      BY DEF ConfigurationMerged
    <2>1. /\ chosen.config = DiscoverConfiguration(world.files, world.options)
          /\ chosen.folder = GlobalPackagesDirectory(world.files, world.options)
      BY SelectedIsChosen DEF Chosen
    <2>2. ConfigInputs(world)
      BY WorldGiven
    <2> QED
      BY <2>1, <2>2, ConfigIs, FolderIs
  <1> QED
    BY <1>1, PlanInitIInv, PlanNextIInv, PTL DEF PlanSpec
================================================================================
