------------------------------ MODULE Registry ------------------------------
(***************************************************************************)
(* The catalogue of a Deliver server: registry.json and the package        *)
(* directories, changed by operator commands that run as processes of      *)
(* their own (dlr_server presentfile, attach, removepackage, clear, ...),  *)
(* by the server TUI, which keeps its registry in memory for as long as it *)
(* runs, and read by the daemon, once, when it starts.                     *)
(*                                                                         *)
(* An entry is a record: version stands for what an attach keeps when the  *)
(* manifest leaves it out (version and description), script for what it    *)
(* takes over as it is (install script and command, dependencies, rival).  *)
(* Of architecture and system nothing is registered.  A package directory  *)
(* is what the manifest of that name in it says.  The mutex of             *)
(* PackageRegistry excludes nothing here: it belongs to one process.       *)
(***************************************************************************)
EXTENDS Naturals, FiniteSets

CONSTANTS
  Names,        \* package names
  Procs,        \* operator processes
  Tuis,         \* those that are server TUIs
  Manifests,    \* what manifests say
  Concurrency,  \* how many operator processes run at a time
  Kinds,        \* which commands are run
  Faults,       \* which of "kill", "io" happen
  None,         \* no entry, no directory
  Torn          \* a registry.json that does not parse

Unsaid == 0    \* a manifest leaves the version out
Written == [version : Nat, script : Nat]
Entry == [version : Nat \ {Unsaid}, script : Nat]

(* "1.0", and nothing to install: the entry of a package just presented,   *)
(* and what a directory without a manifest is taken to say.                *)
Plain == [version |-> 1, script |-> 0]

Entries == [Names -> {None} \cup Entry]

ASSUME ProcsAssumption == Tuis \subseteq Procs /\ IsFiniteSet(Procs)
ASSUME ManifestsAssumption == Manifests \subseteq Written /\ None \notin Written
ASSUME ConcurrencyAssumption == Concurrency \in Nat \ {0}
ASSUME ChoicesAssumption ==
  /\ Kinds \subseteq {"present", "attach", "remove", "clear"}
  /\ Faults \subseteq {"kill", "io"}
  /\ Torn \notin Entries

VARIABLES
  json,     \* registry.json
  dirs,     \* the package directories
  mem,      \* packages_ of each operator process
  pc,       \* where each of them is
  kind,     \* the command it runs
  names,    \* the packages the command is about
  form,     \* the package whose fields the edit form of a TUI holds, if any
  serves,   \* the packages in packages_ of the daemon
  tidy,     \* history: processes never overlapped, none was killed or failed,
            \* and no form of a package that is gone was saved
  fresh,    \* history: no command since the daemon started
  unread    \* history: packages whose manifest a form wrote or a folder
            \* brought along, and no attach has read since

vars == <<json, dirs, mem, pc, kind, names, form, serves, tidy, fresh, unread>>

Empty == [n \in Names |-> None]
Known(es) == {n \in Names : es[n] # None}

Init ==
  /\ json = Empty
  /\ dirs = Empty
  /\ mem = [p \in Procs |-> Empty]
  /\ pc = [p \in Procs |-> "off"]
  /\ kind = [p \in Procs |-> "none"]
  /\ names = [p \in Procs |-> {}]
  /\ form = [p \in Procs |-> {}]
  /\ serves = {}
  /\ tidy = TRUE
  /\ fresh = TRUE
  /\ unread = {}

(* load adds what the file has to what the process has; a file that does   *)
(* not parse adds nothing.                                                 *)
Load(m) ==
  IF json = Torn THEN m
  ELSE [n \in Names |-> IF json[n] # None THEN json[n] ELSE m[n]]

Goto(p, l) == pc' = [pc EXCEPT ![p] = l]

Running == {p \in Procs : pc[p] # "off"}

(* The command is over; what the process had in memory ends with it. *)
Over(p, l, m) ==
  /\ Goto(p, l)
  /\ mem' = [mem EXCEPT ![p] = m]
  /\ kind' = [kind EXCEPT ![p] = "none"]
  /\ names' = [names EXCEPT ![p] = {}]

Exits(p) == Over(p, "off", Empty) /\ form' = [form EXCEPT ![p] = {}]

(* No operator process is in the middle of a command. *)
Idle(p) == pc[p] \in {"off", "menu"}
Quiescent == \A p \in Procs : Idle(p)

-----------------------------------------------------------------------------
(* Starting.  A command that finds its package in the wrong state changes  *)
(* nothing and is left out.                                                *)

(* Mutant: presenting does not look whether the package exists. *)
AcceptsPresented(m, k, ns) ==
  CASE k = "present" -> \E n \in Names : ns = {n}
    [] k = "clear" -> ns = Known(m) /\ ns # {}
    [] OTHER -> \E n \in Names : ns = {n} /\ m[n] # None

(* The package k is run on must be unknown (present) or known (the rest).  *)
Accepts(m, k, ns) ==
  CASE k = "present" -> \E n \in Names : ns = {n} /\ m[n] = None
    [] k = "clear" -> ns = Known(m) /\ ns # {}
    [] OTHER -> \E n \in Names : ns = {n} /\ m[n] # None

Begins(p, m, k, ns) ==
  /\ Accepts(m, k, ns)
  /\ kind' = [kind EXCEPT ![p] = k]
  /\ names' = [names EXCEPT ![p] = ns]
  /\ mem' = [mem EXCEPT ![p] = m]
  /\ fresh' = FALSE
  /\ Goto(p, "asked")
  /\ UNCHANGED <<json, dirs, form, serves, unread>>

(* main: a registry of its own, load, then the command. *)
Command(p) ==
  /\ p \notin Tuis
  /\ pc[p] = "off"
  /\ Cardinality(Running) < Concurrency
  /\ \E k \in Kinds, ns \in SUBSET Names : Begins(p, Load(Empty), k, ns)
  /\ tidy' = (tidy /\ Running = {})

TuiStarts(p) ==
  /\ p \in Tuis
  /\ pc[p] = "off"
  /\ Cardinality(Running) < Concurrency
  /\ mem' = [mem EXCEPT ![p] = Load(Empty)]
  /\ Goto(p, "menu")
  /\ tidy' = (tidy /\ Running = {})
  /\ UNCHANGED <<json, dirs, kind, names, form, serves, fresh, unread>>

(* refresh_packages, at the key R and after a command, which may leave the *)
(* form empty.                                                             *)
TuiRefresh(p) ==
  /\ pc[p] \in {"menu", "refresh"}
  /\ mem' = [mem EXCEPT ![p] = Load(@)]
  /\ form' \in {form, [form EXCEPT ![p] = IF pc[p] = "refresh" THEN {} ELSE @]}
  /\ Goto(p, "menu")
  /\ UNCHANGED <<json, dirs, kind, names, serves, tidy, fresh, unread>>

(* Creating or removing a package from the menus. *)
TuiCommand(p) ==
  /\ pc[p] = "menu"
  /\ \E k \in Kinds \cap {"present", "remove"}, ns \in SUBSET Names :
       Begins(p, mem[p], k, ns)
  /\ UNCHANGED tidy

(* The form is filled with an entry, or emptied or used for another one.   *)
TuiSelects(p) ==
  /\ pc[p] = "menu"
  /\ \E S \in {{}} \cup {{n} : n \in Known(mem[p])} :
       form' = [form EXCEPT ![p] = S]
  /\ UNCHANGED <<json, dirs, mem, pc, kind, names, serves, tidy, fresh, unread>>

(* Version and description stay as they are when the manifest has none.    *)
Merged(e, m) ==
  [m EXCEPT !.version = IF m.version = Unsaid THEN e.version ELSE m.version]

(* What a form can say: write_pkg fills in the version "1.0". *)
Forms == {Merged(Plain, m) : m \in Manifests \cup {Plain}}

(* action_save_edit writes the manifest into the package directory, which  *)
(* it creates if need be, and attaches it from there; attach_pkg copies it *)
(* onto itself, which fails, and returns before it changes the registry.   *)
(* The form may be that of a package that has been removed since.          *)
TuiEdit(p) ==
  /\ pc[p] = "menu"
  /\ "attach" \in Kinds
  /\ \E n \in form[p], m \in Forms :
       /\ dirs' = [dirs EXCEPT ![n] = m]
       /\ tidy' = (tidy /\ mem[p][n] # None)
       /\ unread' = unread \cup {n}
  /\ fresh' = FALSE
  /\ UNCHANGED <<json, mem, pc, kind, names, form, serves>>

TuiQuits(p) ==
  /\ pc[p] = "menu"
  /\ Exits(p)
  /\ UNCHANGED <<json, dirs, serves, tidy, fresh, unread>>

-----------------------------------------------------------------------------
(* The commands after their check.                                         *)

(* A command ends, the TUI goes on. *)
Returns(p) ==
  IF p \in Tuis THEN Over(p, "refresh", mem[p]) /\ UNCHANGED form ELSE Exits(p)

(* The answer is no, or the file or folder to present is not there. *)
Declines(p) ==
  /\ pc[p] = "asked"
  /\ Returns(p)
  /\ UNCHANGED <<json, dirs, serves, tidy, fresh, unread>>

Found(n) == IF dirs[n] = None THEN Plain ELSE dirs[n]

(* present_file and present_folder copy into the directory, over what may  *)
(* be there; a folder may bring a manifest of that name, which nobody      *)
(* reads.  Then they enter the package.                                    *)
Presents(p) ==
  /\ pc[p] = "asked"
  /\ kind[p] = "present"
  /\ \E n \in names[p], m \in Manifests \cup {None} :
       /\ dirs' = [dirs EXCEPT ![n] = IF m = None THEN Found(n) ELSE m]
       /\ mem' = [mem EXCEPT ![p][n] = Plain]
       /\ unread' = IF m = None THEN unread \ {n} ELSE unread \cup {n}
  /\ Goto(p, "save")
  /\ UNCHANGED <<json, kind, names, form, serves, tidy, fresh>>

(* The copy fails half way: the directory is there, the entry is not. *)
PresentFails(p) ==
  /\ "io" \in Faults
  /\ pc[p] = "asked"
  /\ kind[p] = "present"
  /\ \E n \in names[p] : \E m \in Manifests \cup {Found(n)} :
       dirs' = [dirs EXCEPT ![n] = m]
  /\ tidy' = FALSE
  /\ Returns(p)
  /\ UNCHANGED <<json, serves, fresh, unread>>

(* Mutant: a version that the manifest leaves out is taken over too. *)
AttachesUnsaid(p) ==
  /\ pc[p] = "asked"
  /\ kind[p] = "attach"
  /\ \E n \in names[p] : \E m \in Manifests :
       IF dirs[n] = None
         THEN Returns(p) /\ UNCHANGED <<dirs, unread>>
         ELSE /\ dirs' = [dirs EXCEPT ![n] = m]
              /\ mem' = [mem EXCEPT ![p][n] = m]
              /\ unread' = unread \ {n}
              /\ Goto(p, "save")
              /\ UNCHANGED <<kind, names, form>>
  /\ UNCHANGED <<json, serves, tidy, fresh>>

(* Mutant: the manifest is copied, the entry is not updated. *)
AttachesFilesOnly(p) ==
  /\ pc[p] = "asked"
  /\ kind[p] = "attach"
  /\ \E n \in names[p], m \in Manifests :
       dirs' = [dirs EXCEPT ![n] = IF @ = None THEN None ELSE m]
  /\ Goto(p, "save")
  /\ UNCHANGED <<json, mem, kind, names, form, serves, tidy, fresh, unread>>

(* attach_pkg, and generate_pkg with a manifest made of the entry: without *)
(* a directory to copy the manifest to, nothing changes.                   *)
Attaches(p) ==
  /\ pc[p] = "asked"
  /\ kind[p] = "attach"
  /\ \E n \in names[p] : \E m \in Manifests \cup {mem[p][n]} :
       IF dirs[n] = None
         THEN Returns(p) /\ UNCHANGED <<dirs, unread>>
         ELSE /\ dirs' = [dirs EXCEPT ![n] = m]
              /\ mem' = [mem EXCEPT ![p][n] = Merged(@, m)]
              /\ unread' = unread \ {n}
              /\ Goto(p, "save")
              /\ UNCHANGED <<kind, names, form>>
  /\ UNCHANGED <<json, serves, tidy, fresh>>

(* Mutant: the entry is not erased. *)
RemovesFilesOnly(p) ==
  /\ pc[p] \in {"asked", "remove"}
  /\ kind[p] \in {"remove", "clear"}
  /\ \E n \in names[p] :
       /\ dirs' = [dirs EXCEPT ![n] = None]
       /\ names' = [names EXCEPT ![p] = @ \ {n}]
       /\ Goto(p, IF names[p] = {n} THEN "save" ELSE "remove")
  /\ UNCHANGED <<json, mem, kind, form, serves, tidy, fresh, unread>>

(* remove_package_locked: the directory, then the entry.  remove_all may   *)
(* fail, before the manifest or after it; the entry goes all the same.     *)
(* clear_all takes one after another.                                      *)
Removes(p) ==
  /\ pc[p] \in {"asked", "remove"}
  /\ kind[p] \in {"remove", "clear"}
  /\ \E n \in names[p] :
       /\ \/ dirs' = [dirs EXCEPT ![n] = None] /\ UNCHANGED tidy
          \/ /\ "io" \in Faults /\ dirs[n] # None
             /\ dirs' \in {dirs, [dirs EXCEPT ![n] = Plain]}
             /\ tidy' = FALSE
       /\ mem' = [mem EXCEPT ![p][n] = None]
       /\ unread' = unread \ {n}
       /\ names' = [names EXCEPT ![p] = @ \ {n}]
       /\ Goto(p, IF names[p] = {n} THEN "save" ELSE "remove")
  /\ UNCHANGED <<json, kind, form, serves, fresh>>

(* After a create the TUI generates a manifest in the package directory;   *)
(* it says what the entry says, and replaces one that came with a folder.  *)
Generated(p) ==
  IF p \in Tuis /\ kind[p] = "present" THEN {n \in names[p] : dirs[n] # None}
                                        ELSE {}
Generates(p) ==
  /\ dirs' = [n \in Names |-> IF n \in Generated(p) THEN mem[p][n] ELSE dirs[n]]
  /\ unread' = unread \ Generated(p)

(* The ofstream of save truncates the file ... *)
SaveOpens(p) ==
  /\ pc[p] = "save"
  /\ json' = Torn
  /\ Goto(p, "write")
  /\ UNCHANGED <<dirs, mem, kind, names, form, serves, tidy, fresh, unread>>

(* ... or cannot be opened, which the command does not learn ... *)
SaveFails(p) ==
  /\ "io" \in Faults
  /\ pc[p] = "save"
  /\ tidy' = FALSE
  /\ Generates(p)
  /\ Returns(p)
  /\ UNCHANGED <<json, serves, fresh>>

(* ... and everything the process has is written. *)
SaveWrites(p) ==
  /\ pc[p] = "write"
  /\ json' = mem[p]
  /\ Generates(p)
  /\ Returns(p)
  /\ UNCHANGED <<serves, tidy, fresh>>

(* Ctrl-C: exit at once, without what the stream had buffered. *)
Killed(p) ==
  /\ "kill" \in Faults
  /\ pc[p] # "off"
  /\ Exits(p)
  /\ tidy' = FALSE
  /\ UNCHANGED <<json, dirs, serves, fresh, unread>>

-----------------------------------------------------------------------------
(* Mutant: a reload keeps what was loaded before. *)
DaemonReloads ==
  /\ serves' = serves \cup Known(Load(Empty))
  /\ fresh' = Quiescent
  /\ UNCHANGED <<json, dirs, mem, pc, kind, names, form, tidy, unread>>

(* The constructor of Server loads the registry; nothing loads it again.   *)
DaemonStarts ==
  /\ serves' = Known(Load(Empty))
  /\ fresh' = Quiescent
  /\ UNCHANGED <<json, dirs, mem, pc, kind, names, form, tidy, unread>>

Process(p) ==
  \/ Command(p) \/ TuiStarts(p) \/ TuiRefresh(p) \/ TuiCommand(p)
  \/ TuiSelects(p) \/ TuiEdit(p) \/ TuiQuits(p) \/ Declines(p)
  \/ Presents(p)
  \/ PresentFails(p) \/ Attaches(p) \/ Removes(p) \/ SaveOpens(p)
  \/ SaveFails(p) \/ SaveWrites(p) \/ Killed(p)

Next == DaemonStarts \/ \E p \in Procs : Process(p)

Spec == Init /\ [][Next]_vars

-----------------------------------------------------------------------------
(* Properties. *)

(* The types of registry.json, the directories and the memory of the       *)
(* processes; an entry has a version, whatever manifests leave out.        *)
TypeOK ==
  /\ json \in Entries \cup {Torn}
  /\ dirs \in [Names -> {None} \cup Written]
  /\ mem \in [Procs -> Entries]
  /\ pc \in [Procs -> {"off", "menu", "refresh", "asked", "remove",
                      "save", "write"}]
  /\ kind \in [Procs -> {"none", "present", "attach", "remove", "clear"}]
  /\ names \in [Procs -> SUBSET Names]
  /\ form \in [Procs -> SUBSET Names]
  /\ serves \subseteq Names
  /\ tidy \in BOOLEAN
  /\ fresh \in BOOLEAN
  /\ unread \subseteq Names

Agree(es) == \A n \in Names : es[n] # None <=> dirs[n] # None

(* When commands have run one at a time and none was interrupted or failed *)
(* on the disk, the file registry.json parses and names exactly the        *)
(* package directories, whatever sequence of presents, attaches, edits,    *)
(* removals and clears it went through.                                    *)
TidyAgrees == tidy /\ Quiescent => json # Torn /\ Agree(json)

(* Under the same conditions a daemon that started after the last command  *)
(* offers exactly the packages that it can serve.                          *)
FreshDaemonServes == tidy /\ fresh => serves = Known(dirs)

Says(m, e) == e.script = m.script /\ m.version \in {e.version, Unsaid}

(* server_tui.cpp:1140, "Attach updates the in-memory registry and saves   *)
(* the JSON", and the same of the attach command: what the manifest in its *)
(* directory says of a package, the entry says too, unless the form of the *)
(* TUI wrote that manifest, for the attach that follows always fails, or   *)
(* it came with the folder.                                                *)
ManifestIsRegistered ==
  tidy /\ Quiescent =>
    \A n \in Names \ unread : json[n] # None => Says(dirs[n], json[n])

(* README.md:78, "Copies the file to ... and registers it": a package that *)
(* was copied is in the registry once every command is over.               *)
PresentedIsRegistered ==
  Quiescent => json # Torn /\ \A n \in Names : dirs[n] # None => json[n] # None

(* A command takes effect when it opens registry.json to write. *)
Committed ==
  IF \E p \in Procs : pc[p] = "write"
    THEN mem[CHOOSE p \in Procs : pc[p] = "write"]
    ELSE json

Catalogue == INSTANCE PackageSet WITH entry <- Committed

(* Commands that run one at a time, undisturbed, give the operator the     *)
(* catalogue of PackageSet: each happens at once or not at all.            *)
ImplementsPackageSet ==
  Catalogue!Init /\ [][tidy' => Catalogue!Next]_Committed

=============================================================================
