------------------------------- MODULE KMods -------------------------------
(***************************************************************************)
(* Kernel modules: the memory they are loaded into (KMods/ModMem.c), the   *)
(* list of modules (KMods/ModMgr.c), InstallModule and UnInstallModule     *)
(* (DynLinker/Linker.c), the order in which the boot loads the drivers of  *)
(* the RAM disk (DevFS/DevInitMgr.c), and what the drivers' module_init    *)
(* registers in /dev (DevFs).                                              *)
(*                                                                         *)
(* InstallModule is one step per section, since each can run out of memory *)
(* or fail to be read; it is called at boot before anything else runs, so  *)
(* calls do not overlap.  ELF headers, symbols and relocations are data    *)
(* that the properties do not tell apart: a file that fails one of those   *)
(* tests before any section is allocated changes nothing, and relocation   *)
(* never fails the installation.                                           *)
(***************************************************************************)
EXTENDS DevFs

CONSTANTS
  Mods,         \* module files
  Seq0,         \* Seq0[m]: the numeric prefix of m's name, -1 if it has none
  Sections,     \* Sections[m]: a sequence of [text, pages, bss]
  Registers,    \* Registers[m]: the devices that m's module_init registers
  HasInit,      \* the modules with a module_init
  ArenaPages,   \* pages of the text arena, and of the data arena
  NumFrames,    \* physical pages
  MaxInstalls,  \* bound on the calls of InstallModule
  NoFrame,      \* a page of an arena is not mapped
  NoJob         \* no module is being installed

ASSUME KModsAssumption ==
  /\ ArenaPages \in Nat /\ NumFrames \in Nat /\ MaxInstalls \in Nat
  /\ IsFiniteSet(Mods) /\ Seq0 \in [Mods -> Int] /\ HasInit \subseteq Mods
  /\ Sections \in [Mods -> Seq([text : BOOLEAN, pages : Nat, bss : BOOLEAN])]
  /\ Registers \in [Mods -> Seq(Devices)]
  /\ NoFrame \notin 1..NumFrames
  /\ NoJob \notin [mod : Mods, inst : Nat, bases : Seq(SUBSET ({"text", "data"} \X Nat))]

VARIABLES
  cursor,       \* ModMem.TextCursor and DataCursor, in pages
  pte,          \* the kernel's mapping of the pages of both arenas
  free,         \* physical pages the manager has to give
  job,          \* the module being installed and its sections so far
  modules,      \* ModuleListHead: newest first
  unlisted,     \* modules that run without a record
  boot,         \* the files InitRamDiskDevDrvs has still to load
  installs,     \* calls of InstallModule
  released,     \* pages that ModFree has unmapped
  removed       \* modules that were uninstalled

memvars == <<cursor, pte, free>>
kmodvars == <<cursor, pte, free, job, modules, unlisted, boot, installs, released, removed>>

Frames == 1..NumFrames
Pages == {"text", "data"} \X (0..(ArenaPages - 1))

-----------------------------------------------------------------------------
(* The order of loading: the exchange sort of InitRamDiskDevDrvs.  A module *)
(* without a number goes behind those that have one.                       *)

Swapped(s, i, j) == [s EXCEPT ![i] = s[j], ![j] = s[i]]

Exchange_AnyLower(s, ij) ==
  IF Seq0[s[ij[2]]] < Seq0[s[ij[1]]] THEN Swapped(s, ij[1], ij[2]) ELSE s

Exchange(s, ij) ==
  LET a == Seq0[s[ij[1]]]
      b == Seq0[s[ij[2]]]
  IN IF a < 0 \/ (b >= 0 /\ b < a) THEN Swapped(s, ij[1], ij[2]) ELSE s

\* One round of the outer loop: the module at i is compared with each behind it.
Round(s, i) ==
  LET upTo[j \in i..Len(s)] == IF j = i THEN s ELSE Exchange(upTo[j - 1], <<i, j>>)
  IN upTo[Len(s)]

LoadOrder(s) ==
  LET after[i \in 0..Len(s)] == IF i = 0 THEN s ELSE Round(after[i - 1], i)
  IN after[Len(s)]

Init ==
  /\ DevInit
  /\ cursor = [a \in {"text", "data"} |-> 0]
  /\ pte = [p \in Pages |-> NoFrame]
  /\ free = Frames
  /\ job = NoJob
  /\ modules = <<>>
  /\ unlisted = {}
  /\ \E dir \in SetToSeqs(Mods) : boot = LoadOrder(dir)
  /\ installs = 0
  /\ released = {}
  /\ removed = {}

-----------------------------------------------------------------------------
(* ModMem *)

Arena(sec) == IF sec.text THEN "text" ELSE "data"
Run(a, first, n) == {<<a, i>> : i \in first..(first + n - 1)}

Fits(sec) == cursor[Arena(sec)] + sec.pages <= ArenaPages
NewRun(sec) == Run(Arena(sec), cursor[Arena(sec)], sec.pages)

Taken_OneShort(n) == {x \in free : Cardinality({y \in free : y < x}) < n - 1}

\* The n free frames that AllocPage hands out one after the other, lowest first.
Taken(n) == {x \in free : Cardinality({y \in free : y < x}) < n}
NthFrame(k) == CHOOSE x \in free : Cardinality({y \in free : y < x}) = k

\* The mapping after the first n pages of a run: MapPage leaves a page that
\* is mapped already as it is, and reports success.
Mapped(sec, n) ==
  [p \in Pages |->
     IF p \in Run(Arena(sec), cursor[Arena(sec)], n) /\ pte[p] = NoFrame
     THEN NthFrame(p[2] - cursor[Arena(sec)]) ELSE pte[p]]

ModMalloc_CursorKept(sec) ==
  /\ Fits(sec) /\ Cardinality(free) >= sec.pages
  /\ pte' = Mapped(sec, sec.pages)
  /\ free' = free \ Taken(sec.pages)
  /\ UNCHANGED cursor

ModMalloc(sec) ==
  /\ Fits(sec) /\ Cardinality(free) >= sec.pages
  /\ pte' = Mapped(sec, sec.pages)
  /\ free' = free \ Taken(sec.pages)
  /\ cursor' = [cursor EXCEPT ![Arena(sec)] = @ + sec.pages]

\* ModMalloc gives up in mid-run: AllocPage has nothing left, or MapPage has no
\* frame for a table and the page's own frame is lost.  The pages before stay
\* mapped and the cursor stays where it was.
MappedBefore(sec) ==
  {n \in 0..(sec.pages - 1) : n \in {Cardinality(free), Cardinality(free) - 1}}

\* ModFree of a set of pages: every page that is mapped is unmapped and its frame freed.
Unmapped(map, ps) == [p \in Pages |-> IF p \in ps THEN NoFrame ELSE map[p]]
FramesOf(map, ps) == {map[p] : p \in {q \in ps : map[q] # NoFrame}}

ModFree(map, rest, ps) ==
  /\ pte' = Unmapped(map, ps)
  /\ free' = rest \cup FramesOf(map, ps)
  /\ released' = released \cup {p \in ps : map[p] # NoFrame}

-----------------------------------------------------------------------------
(* InstallModule *)

Begin(m) ==
  /\ job' = [mod |-> m, inst |-> installs + 1, bases |-> <<>>]
  /\ installs' = installs + 1
  /\ UNCHANGED <<devvars, memvars, modules, unlisted, released, removed>>

CanBegin == Idle /\ job = NoJob /\ installs < MaxInstalls

\* InitRamDiskDevDrvs loads one module after the other.
InitRamDiskDevDrvs ==
  /\ CanBegin /\ boot # <<>>
  /\ Begin(Head(boot))
  /\ boot' = Tail(boot)

\* A caller of the exported function; nothing checks whether m is installed already.
InstallModule(m) ==
  /\ CanBegin /\ boot = <<>>
  /\ Begin(m)
  /\ UNCHANGED boot

Loading == job # NoJob /\ Len(job.bases) < Len(Sections[job.mod])
NextSection == Sections[job.mod][Len(job.bases) + 1]
JobPages == UNION Range(job.bases)

Outside == <<devvars, modules, unlisted, boot, installs, removed>>

LoadSection ==
  /\ Loading
  /\ ModMalloc(NextSection)
  /\ job' = [job EXCEPT !.bases = Append(@, NewRun(NextSection))]
  /\ UNCHANGED <<Outside, released>>

\* The section is in memory but its contents cannot be read: return -1, nothing is undone.
PayloadFails ==
  /\ Loading /\ ~NextSection.bss
  /\ ModMalloc(NextSection)
  /\ job' = NoJob
  /\ UNCHANGED <<Outside, released>>

\* ModMalloc failed: the sections before this one are freed.
SectionFails ==
  /\ Loading
  /\ \/ ~Fits(NextSection) /\ ModFree(pte, free, JobPages)
     \/ /\ Fits(NextSection)
        /\ \E n \in MappedBefore(NextSection) : ModFree(Mapped(NextSection, n), {}, JobPages)
  /\ job' = NoJob
  /\ UNCHANGED <<Outside, cursor>>

Complete == job # NoJob /\ ~Loading

NoInit ==
  /\ Complete /\ job.mod \notin HasInit
  /\ ModFree(pte, free, JobPages)
  /\ job' = NoJob
  /\ UNCHANGED <<Outside, cursor>>

\* InitFn(): module_init registers its devices one after the other. Any of
\* them may find no memory for its entry; the answer is not looked at.
Registered(tab, ds, o, got) ==
  LET upTo[k \in 0..Len(ds)] ==
        IF k = 0 THEN tab
        ELSE IF k \in got THEN Register(upTo[k - 1], ds[k], o) ELSE upTo[k - 1]
  IN upTo[Len(ds)]

InitFn == \E got \in SUBSET DOMAIN Registers[job.mod] :
  DevTable' = Registered(DevTable, Registers[job.mod], job.inst, got)

Record == [Name |-> job.mod, inst |-> job.inst, pages |-> JobPages]

\* ModuleRegistryAdd
RecordAdded(rec) ==
  /\ modules' = <<rec>> \o modules
  /\ UNCHANGED <<unlisted, memvars>>

RecordFails_Unloads(rec) ==
  /\ pte' = Unmapped(pte, rec.pages)
  /\ free' = free \cup FramesOf(pte, rec.pages)
  /\ UNCHANGED <<modules, unlisted, cursor>>

\* No memory for the record: the module runs, and cannot be uninstalled any more.
RecordFails(rec) ==
  /\ unlisted' = unlisted \cup {rec}
  /\ UNCHANGED <<modules, memvars>>

FinishInstall ==
  /\ Complete /\ job.mod \in HasInit
  /\ InitFn
  /\ loaded' = loaded \cup {job.inst}
  /\ RecordAdded(Record) \/ RecordFails(Record)
  /\ job' = NoJob
  /\ UNCHANGED <<file, call, bytes, out, down, boot, installs, released, removed>>

-----------------------------------------------------------------------------
(* UnInstallModule: the newest record of that name.  RefCount is always 1. *)
(* The drivers' module_exit takes no device out of /dev.  A record's name  *)
(* is a pointer to the caller's string, so that a caller may also fail to  *)
(* find a module that the boot loaded; that changes nothing.               *)

ModuleRegistryFind(m) == CHOOSE i \in DOMAIN modules :
  /\ modules[i].Name = m
  /\ \A j \in 1..(i - 1) : modules[j].Name # m

UnInstallModule(m) ==
  /\ Idle /\ job = NoJob /\ boot = <<>>
  /\ \E i \in DOMAIN modules : modules[i].Name = m
  /\ \E i \in {ModuleRegistryFind(m)} :
       /\ ModFree(pte, free, modules[i].pages)
       /\ modules' = RemoveAt(modules, i)
       /\ loaded' = loaded \ {modules[i].inst}
       /\ removed' = removed \cup {modules[i].inst}
  /\ UNCHANGED <<cursor, job, unlisted, boot, installs, DevTable, file, call, bytes, out, down>>

-----------------------------------------------------------------------------
InstallStep == LoadSection \/ PayloadFails \/ SectionFails \/ NoInit \/ FinishInstall

Next ==
  \/ InitRamDiskDevDrvs
  \/ \E m \in Mods : InstallModule(m) \/ UnInstallModule(m)
  \/ InstallStep
  \/ boot = <<>> /\ job = NoJob /\ DevNext /\ UNCHANGED kmodvars

vars == <<devvars, kmodvars>>
Spec == Init /\ [][Next]_vars

-----------------------------------------------------------------------------
Running == Range(modules) \cup unlisted

(***************************************************************************)
(* The sections of every module that runs are mapped, to frames the page   *)
(* manager does not also have to give and that no two pages share, and no  *)
(* two modules overlap, through failed installations (which leave pages    *)
(* behind that the next ModMalloc maps over) and removals.                 *)
(***************************************************************************)
SectionsAreMapped ==
  /\ \A r \in Running, p \in Pages : p \in r.pages => pte[p] \in Frames \ free
  /\ \A r, s \in Running : r # s => r.pages \cap s.pages = {}
  /\ \A p, q \in Pages : p # q /\ pte[p] # NoFrame => pte[p] # pte[q]

(***************************************************************************)
(* An address that ModFree has unmapped is never mapped again: ModMem's    *)
(* cursors only move forward.  The page tables never lead a device or a    *)
(* file that outlives its module to another module's code.  A CPU that     *)
(* still has the old translation is another matter: FlushTlb is local.     *)
(***************************************************************************)
RemovedCodeStaysUnmapped == \A p \in released : pte[p] = NoFrame

(***************************************************************************)
(* A device of /dev has its driver's code behind it, unless that driver    *)
(* was uninstalled: no failing path of InstallModule leaves a device       *)
(* behind, and names stay unique however often a driver is installed.      *)
(***************************************************************************)
DevicesHaveDrivers ==
  /\ \A i \in DOMAIN DevTable :
       DevTable[i].owner \in removed \cup {KernelOwner} \cup {r.inst : r \in Running}
  /\ \A i, j \in DOMAIN DevTable : DevTable[i].dev.Name = DevTable[j].dev.Name => i = j

(***************************************************************************)
(* InitRamDiskDevDrvs loads numbered modules in the order of their         *)
(* numbers, whatever order the directory lists them in, and the others     *)
(* after them.                                                             *)
(***************************************************************************)
NumberedFirst ==
  \A i, j \in DOMAIN boot :
    i < j /\ Seq0[boot[j]] >= 0 => Seq0[boot[i]] \in 0..Seq0[boot[j]]
=============================================================================
